----------------------------- MODULE MCSessions -----------------------------
(* Instances of Sessions small enough for TLC. *)
EXTENDS Sessions, TLC

\* Requests, browsers and tokens are interchangeable.
Symmetry ==
  Permutations(Requests) \cup Permutations(Browsers) \cup Permutations(Tokens)
=============================================================================
