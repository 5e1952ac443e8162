--------------------------- MODULE MCAddressBook ---------------------------
(* Instances of AddressBook small enough for TLC. *)
EXTENDS AddressBook, TLC

\* Requests, texts and file names are interchangeable.
Symmetry == Permutations(Requests) \cup Permutations(Texts) \cup Permutations(Files)
=============================================================================
