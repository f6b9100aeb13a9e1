SPECIFICATION PrimitivesSpec
CONSTANTS
  Server = {s1, s2}
  Principal = {a1}
  Scope = {k1, k2}
  Holder = {h1}
  Token = {t1, t2, t3}
  Limit = 1
  PendingTTL = 1
  MaxTTL = 2
  MaxClock = 2
  MaxIssued = 3
SYMMETRY Symmetry
INVARIANTS UsableIsCounted
 
CHECK_DEADLOCK FALSE
