------------------------- MODULE MCNumberLifecycle -------------------------
(* Small instances of NumberLifecycle for TLC. *)
EXTENDS NumberLifecycle, TLC

\* The requests, the accounts and the numbers are interchangeable.
Symmetry == Permutations(Requests) \cup Permutations(Accounts) \cup Permutations(Numbers)
=============================================================================
