------------------------------ MODULE MCStaff ------------------------------
(* An instance of Staff small enough for TLC. *)
EXTENDS Staff, TLC

CONSTANTS sup, adm, cou, new, b1, b2

SeedRoles == (sup :> "super-admin") @@ (adm :> "admin-branch") @@ (cou :> "courier") @@ (new :> "none")
SeedPosts ==
  (sup :> NoPost) @@ (adm :> [branch |-> b1, type |-> "admin"])
  @@ (cou :> [branch |-> b2, type |-> "courier"]) @@ (new :> NoPost)

\* An admin-branch who may no longer update, a courier who may, and a super-admin
\* who has given up the employees.
SomeAsks == {[role |-> "admin-branch", keys |-> {"employee.create"}],
             [role |-> "courier", keys |-> {"employee.update"}],
             [role |-> "super-admin", keys |-> {"branches.delete"}]}

Symmetry == Permutations(Requests)
=============================================================================
