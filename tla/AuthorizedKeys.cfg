SPECIFICATION FairSpec
CONSTANTS
  u1 = u1
  k1 = k1
  k2 = k2
  r1 = r1
  r2 = r2
  None = None
  User = {u1}
  Key = {k1, k2}
  Req = {r1, r2}
  MaxId = 2
  Admin = TRUE
  Faults = TRUE
INVARIANTS TypeOK FileIsComplete
PROPERTIES KeysKeepWorking AddedKeyServed
