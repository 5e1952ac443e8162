\* Two overlapping requests about an address, two failures anywhere.
SPECIFICATION Spec
CONSTANTS
  Requests = {r1, r2}
  Texts = {a1, a2}
  NoText = NoText
  Files = {f1, f2, f3}
  NoFile = NoFile
  MaxFaults = 2
SYMMETRY Symmetry
INVARIANTS CoordinatesMatch PhotoOnDisk NoLitter
PROPERTY PatchKeepsTheRest
CHECK_DEADLOCK FALSE
