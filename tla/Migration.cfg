SPECIFICATION MigrationSpec
CONSTANTS
  b1 = b1
  b2 = b2
  m1 = m1
  m2 = m2
  Null = Null
  Migrator = {m1, m2}
  Branch = {b1, b2}
  Sites <- AllSites
  MaxPath = 4
  MaxPushes = 3
CHECK_DEADLOCK FALSE
INVARIANTS MigrationTypeOK AccessPreserved RootPathsKept
PROPERTIES PromiseKept CleanSitePublishes
