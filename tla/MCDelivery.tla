---------------------------- MODULE MCDelivery ----------------------------
(* Instances of Delivery small enough for TLC. *)
EXTENDS Delivery, TLC

\* Requests and branches are interchangeable (employees are not: office
\* starts as any assignment, which their permutations map to another one).
Symmetry == Permutations(Requests) \cup Permutations(Branches)
=============================================================================
