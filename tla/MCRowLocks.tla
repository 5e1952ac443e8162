---------------------------- MODULE MCRowLocks ----------------------------
(* Instances of RowLocks small enough for TLC; no symmetry, for OneGetsThrough. *)
EXTENDS RowLocks
=============================================================================
