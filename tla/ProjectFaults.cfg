SPECIFICATION Spec
CONSTANTS
  h1 = h1
  h2 = h2
  n1 = n1
  n2 = n2
  p1 = p1
  Handler = {h1, h2}
  Namespace = {n1, n2}
  Path = {p1}
  None = None
  Imported = {}
  Faults = {"busy", "io", "cancel"}
  MaxDisk = 3
SYMMETRY Symmetry
INVARIANTS NeverReused RepoInPlace NoStrandedProject NoOrphanRepo
