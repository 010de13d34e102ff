SPECIFICATION Spec
CONSTANTS
  master = master
  main = main
  dev = dev
  None = None
  r1 = r1
  r2 = r2
  Branch = {master, main, dev}
  Tags = {dev}
  Master = master
  Main = main
  Req = {r1, r2}
  Settings = TRUE
  Deletes = TRUE
  Faults = TRUE
SYMMETRY Symmetry
INVARIANTS TypeOK HeadBorn BrowsedBorn
