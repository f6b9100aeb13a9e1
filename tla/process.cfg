CONSTANTS
  s1 = s1
  s2 = s2
  x1 = x1
  o1 = o1
  Session <- MCSession
  Expires <- MCExpires
  SessionOf <- MCSessionOf
  Revocation <- MCRevocation
  Stream = {x1}
  Principal = {a}
  Proof = {}
  ClockTolerance = 0
  ProofWindow = 1
  MaxEpoch = 1
  CleanupBatch = 1
  MaxTime = 2
  MaxFault = 1
  Source = {"live", "jetstream"}
SPECIFICATION ProcessSpec
INVARIANTS ResourcesOutliveRequests FeedIsReleased
PROPERTIES  FinalStateStays RunEnds
CHECK_DEADLOCK FALSE
