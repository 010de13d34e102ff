SPECIFICATION Spec
CONSTANTS
  o1 = o1
  o2 = o2
  r1 = r1
  r2 = r2
  Oid = {o1, o2}
  Req = {r1, r2}
  MaxId = 2
  MaxSeq = 3
INVARIANTS TypeOK LinkedIsStored StoredIsWhole
