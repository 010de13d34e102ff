SPECIFICATION Spec
CONSTANTS
  Null = null
  Users = {ann, ben}
  Admins = {ben}
  Requests = {r1, r2}
  Levels = {10, 40, 50}
  Owner1 = ann
SYMMETRY Symmetry
INVARIANTS ListMatchesAccess PushersCanFetch
PROPERTIES LevelsChangedFromAbove
