SPECIFICATION Spec
CONSTANTS
  Epoch = {1, 2}
  Event = {a, b}
  Operation = {o1, o2}
  Intent <- Intents
  ExportRequired = {1}
  Export = {x1}
  Preimage = {p1, p2}
  ObligationSet = {"set"}
  Custody <- Answers
  Deadline = 2
  CompletedAt = {1, 2}
  Caller = {c1, c2}
  Reader = {r1}
SYMMETRY Symmetry
INVARIANTS  RemovalStaysVisible
PROPERTY SagaIsMonotone
