CONSTANTS
  k1 = k1
  Key = {k1}
  Op = {o1, o2}
  History = {5}
  Statement <- MCStatement
  Creator = {c1}
  Witness = {w1}
  MaxSequence = 7
  MaxTime = 1
  ClockRollbackTolerance = 0
  NormalRetirement = FALSE
  MaxFault = 1
  MaxBusy = 2
  Fragile <- MCFragile
SPECIFICATION Spec
SYMMETRY Symmetry
INVARIANTS CheckpointsCertifyPrefix AnswersHold ProofsVerify Reopens
PROPERTY FailureIsExplained
CHECK_DEADLOCK FALSE
