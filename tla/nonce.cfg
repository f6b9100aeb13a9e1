SPECIFICATION GateSpec
CONSTANTS
  Call = {c1, c2, c3}
  Key = {k1}
  Digest = {d1, d2}
  MaxLifetime = 1
  ReplaySafetyWindow = 1
  Retention = 3
  MaxTime = 4
  MaxLog = 2
  MaxStray = 1
  Lossy = TRUE
  j1 = j1
  j2 = j2
  Proof <- MCProof
  ProofPast = 1
  ProofFuture = 1
  ClockTolerance = 1
  ProofRetain = 3
  MaxReplay = 2
  ReplayBatch = 1
  MaxConcurrent = 2
  Expires = 4
  MaxSkew = 1
  MaxStart = 2
SYMMETRY Symmetry
CHECK_DEADLOCK FALSE
INVARIANTS  ProofAcceptedOnce OperationIsAudited
