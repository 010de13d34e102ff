SPECIFICATION Spec
CONSTANTS
  h1 = h1
  h2 = h2
  root = root
  u1 = u1
  g1 = g1
  None = None
  Handler = {h1, h2}
  User = {root, u1}
  Root = root
  Group = {g1}
  Level = {30, 50}
  Change <- SingleChange
SYMMETRY Symmetry
INVARIANTS ActiveAdminRemains EveryGroupOwned NoDanglingMembership
