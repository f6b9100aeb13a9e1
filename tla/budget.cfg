SPECIFICATION Spec
CONSTANTS
  Proc = {p1, p2}
  Key = {k1}
  Token = {t1, t2}
  Limit = 1
  Expiry = {1, 4}
  PendingTTL = 1
  MaxLifetime = 2
  Millisecond = 1
  Retention = 3
  MaxTime = 3
  MaxLog = 3
  MaxStray = 1
  Lossy = TRUE
SYMMETRY Symmetry
INVARIANTS LedgerIsSound
 
