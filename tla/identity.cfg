CONSTANTS
  Request = {r1, r2}
  Session = {s1, s2}
  Principal = {a}
  Proof = {p1, p2}
  Revocation = {o1}
  ClockTolerance = 0
  ProofWindow = 1
  MaxEpoch = 2
  CleanupBatch = 1
  MaxLifetime = 1
  ProofSkew = 0
  MaxAttempts = 2
  MaxTime = 3
  MaxFault = 2
  MaxBackupTime = 1
  MaxManifest = 1
  SetBack <- MCSetBack
SYMMETRY Symmetry
SPECIFICATION Spec
INVARIANTS ActiveIsAudited AnswerIsAudited EpochsNeverReused AcceptedIsStaged
 
CHECK_DEADLOCK FALSE
