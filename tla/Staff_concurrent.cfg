\* Three requests of a super-admin, an admin-branch and a courier, two at a time.
SPECIFICATION Spec
CONSTANTS
  sup = sup
  adm = adm
  cou = cou
  new = new
  b1 = b1
  b2 = b2
  Requests = {r1, r2}
  Users = {sup, adm, cou, new}
  NoUser = NoUser
  Branches = {b1, b2, b3}
  NoBranch = NoBranch
  SeedRole <- SeedRoles
  SeedPost <- SeedPosts
  SeedBranches = {b1, b2}
  Asks <- SomeAsks
  MaxServed = 3
SYMMETRY Symmetry
INVARIANTS
  RoleMatchesType
  NoGhostBranch
PROPERTIES
  OwnBranchOnly
  RaisesNobody
  PermittedWrites
CHECK_DEADLOCK FALSE
