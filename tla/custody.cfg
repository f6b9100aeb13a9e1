CONSTANTS
  c1 = c1
  c2 = c2
  Client <- MCClient
  Backend = {"local", "cloud"}
  MaxEncryptions = 4
  Lifetime = 1
  MaxEpoch = 3
  MaxTime = 1
  MaxWrite = 1
SYMMETRY ClientSymmetry
SPECIFICATION Spec
INVARIANTS SessionHasKey SuccessIsOwn 
PROPERTY ReplacementIsNewer
