\* Two users, two overlapping updates of profiles, employee forms, two failures.
SPECIFICATION Spec
CONSTANTS
  Users = {u1, u2}
  Requests = {r1, r2}
  Files = {f1, f2, f3}
  NoFile = NoFile
  Elsewhere = Elsewhere
  NoUser = NoUser
  MaxFaults = 2
SYMMETRY Symmetry
INVARIANTS AvatarOnDisk NoLitter
CHECK_DEADLOCK FALSE
