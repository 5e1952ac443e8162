------------------------------ MODULE MCAvatar ------------------------------
(* Instances of Avatar small enough for TLC. *)
EXTENDS Avatar, TLC

\* Users, requests and file names are interchangeable.
Symmetry == Permutations(Users) \cup Permutations(Requests) \cup Permutations(Files)
=============================================================================
