--------------------------- MODULE MCBillingCycle ---------------------------
(* Small instances of BillingCycle for TLC. *)
EXTENDS BillingCycle, TLC

CONSTANTS Notes \* the requests for a note

MCKindOf == [r \in Requests |-> IF r \in Notes THEN "note" ELSE "cycle"]

\* Charges are interchangeable.
Symmetry == Permutations(Charges)
=============================================================================
