\* Two requests at a time, any employee moved while they are served (one slot that
\* can be moved at any moment stands for every employee), one payment applied anew.
SPECIFICATION Spec
CONSTANTS
  Requests = {r1, r2}
  Employees = {e1}
  Branches = {b1, b2}
  NoBranch = NoBranch
  MaxTrail = 8
  MaxPaid = 2
SYMMETRY Symmetry
INVARIANTS
  CausalTrail
  ProvenTrail
  TablesAgree
  OutHadIn
  OnceInTurn
  ScansInTurn
PROPERTY ForwardOnly
CHECK_DEADLOCK FALSE
