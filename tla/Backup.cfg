SPECIFICATION Spec
CONSTANTS
  db = db
  f = f
  s1 = s1
  s2 = s2
  b2 = b2
  NoCommit = NoCommit
  File = {db, f}
  Database = db
  Content = {s1, s2, b2}
  Chunks <- CutInto
  MaxChanges = 2
  MaxFaults = 3
INVARIANT TypeOK
INVARIANT RestoreGivesMirror
PROPERTY CatchesUp
