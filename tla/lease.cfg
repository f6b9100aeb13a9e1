SPECIFICATION Spec
CONSTANTS
  Proc = {p1, p2}
  Key = {k1}
  Holder = {h1}
  MaxLifetime = 1
  Retention = 2
  MaxTime = 2
  MaxLog = 3
  MaxStray = 1
  Lossy = TRUE
SYMMETRY Symmetry
INVARIANTS OnlyOwnerMutates  RunningLeaseNotTaken
PROPERTY ImplementsLeaseTable
