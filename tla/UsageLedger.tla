----------------------------- MODULE UsageLedger -----------------------------
(***************************************************************************)
(* One usage event, its rating, and the disputes about it                  *)
(* (usage/service.py): a customer disputes, staff resolve, and every       *)
(* change of the cost is an adjustment of an append-only ledger.  Nobody   *)
(* locks the event between reading its cost and writing it.                *)
(***************************************************************************)
EXTENDS Sequences, SequencesExt, Naturals

CONSTANTS
    Disputes,
    Resolvers,      \* staff whose resolutions may overlap
    Costs,          \* what an adjustment may set
    Rated, Unrated, \* the rate card's cost, and none yet
    MaxAdjustments  \* a bound

ASSUME CostAssumption == Unrated \notin Costs \cup {Rated}

VARIABLES
    event,     \* UsageEvent: whether it is recorded and rated, and estimated_cost_cents
    ledger,    \* the UsageAdjustment rows, in order
    dispute,   \* status of each UsageDispute
    resolving, \* a resolution under way, and the cost it has read
    overtaken  \* history: a cost was written over one that its writer had not read

ledgerVars == <<event, ledger, dispute, resolving, overtaken>>

Prices == Costs \cup {Rated, Unrated}
Resolved == {"resolved_adjusted", "resolved_denied"}
NotResolving == [step |-> "idle"]

LedgerTypeOK ==
    /\ event \in [step : {"none", "rating", "rated"}, cost : Prices]
    /\ ledger \in Seq([dispute : Disputes, previous : Prices, new : Costs])
    /\ dispute \in [Disputes -> {"none", "open"} \cup Resolved]
    /\ resolving \in [Resolvers -> {NotResolving} \cup
          [step : {"adjust", "adjusting", "write"}, d : Disputes, to : Resolved, read : Prices]]
    /\ overtaken \in BOOLEAN

LedgerInit ==
    /\ event = [step |-> "none", cost |-> Unrated]
    /\ ledger = <<>>
    /\ dispute = [d \in Disputes |-> "none"]
    /\ resolving = [r \in Resolvers |-> NotResolving]
    /\ overtaken = FALSE

\* A column that is set to what was read is not written.
PriceWritten(read, new) ==
    /\ event' = [event EXCEPT !.cost = IF new = read THEN @ ELSE new]
    /\ overtaken' = (overtaken \/ event.cost # read)

\* Recorded at most once, by its idempotency key, before it is rated.
usage_event_recorded ==
    /\ event.step = "none"
    /\ event' = [event EXCEPT !.step = "rating"]
    /\ UNCHANGED <<ledger, dispute, resolving, overtaken>>

\* The rating, of an event read as unrated, is written when ZoikoNex has been
\* told. A worker that dies leaves the event unrated.
sync_usage_event_to_zoikonex(cost) ==
    /\ event.step = "rating"
    /\ event' = [step |-> "rated", cost |-> IF cost = Unrated THEN event.cost ELSE cost]
    /\ overtaken' = (overtaken \/ (cost # Unrated /\ event.cost # Unrated))
    /\ UNCHANGED <<ledger, dispute, resolving>>

open_usage_dispute(d) ==
    /\ event.step # "none"
    /\ dispute[d] = "none"
    /\ dispute' = [dispute EXCEPT ![d] = "open"]
    /\ UNCHANGED <<event, ledger, resolving, overtaken>>

resolve_usage_dispute(r, d, to) ==
    /\ resolving[r] = NotResolving
    /\ dispute[d] = "open"
    /\ resolving' = [resolving EXCEPT ![r] =
          [step |-> IF to = "resolved_adjusted" THEN "adjust" ELSE "write", d |-> d, to |-> to,
           read |-> Unrated]]
    /\ UNCHANGED <<event, ledger, dispute, overtaken>>

\* create_usage_adjustment reads the event's cost.
cost_read(r) ==
    /\ resolving[r].step = "adjust"
    /\ resolving' = [resolving EXCEPT ![r].step = "adjusting", ![r].read = event.cost]
    /\ UNCHANGED <<event, ledger, dispute, overtaken>>

\* Mutant: the status first, the adjustment by whoever comes back to it.
ResolvedFirst(r, new) ==
    /\ dispute' = [dispute EXCEPT ![resolving[r].d] = resolving[r].to]
    /\ UNCHANGED <<event, ledger, overtaken>>

\* The ledger's row and the event's cost are one transaction.
Adjusted(r, new) ==
    /\ PriceWritten(resolving[r].read, new)
    /\ ledger' = Append(ledger, [dispute |-> resolving[r].d,
                                  previous |-> resolving[r].read, new |-> new])
    /\ UNCHANGED dispute

create_usage_adjustment(r, new) ==
    /\ resolving[r].step = "adjusting"
    /\ Len(ledger) < MaxAdjustments
    /\ Adjusted(r, new)
    /\ resolving' = [resolving EXCEPT ![r].step = "write", ![r].read = Unrated]

dispute_resolved(r) ==
    /\ resolving[r].step = "write"
    /\ dispute' = [dispute EXCEPT ![resolving[r].d] = resolving[r].to]
    /\ resolving' = [resolving EXCEPT ![r] = NotResolving]
    /\ UNCHANGED <<event, ledger, overtaken>>

resolution_dies(r) ==
    /\ resolving[r] # NotResolving
    /\ resolving' = [resolving EXCEPT ![r] = NotResolving]
    /\ UNCHANGED <<event, ledger, dispute, overtaken>>

LedgerNext ==
    \/ usage_event_recorded
    \/ \E cost \in {Rated, Unrated} : sync_usage_event_to_zoikonex(cost)
    \/ \E d \in Disputes : open_usage_dispute(d)
    \/ \E r \in Resolvers :
          \/ \E d \in Disputes, to \in Resolved : resolve_usage_dispute(r, d, to)
          \/ cost_read(r)
          \/ \E new \in Costs : create_usage_adjustment(r, new)
          \/ dispute_resolved(r)
          \/ resolution_dies(r)

LedgerSpec == LedgerInit /\ [][LedgerNext]_ledgerVars

-----------------------------------------------------------------------------
(* Properties.                                                             *)

\* The ledger accounts for what is billed (models.py: create_usage_adjustment
\* is "the ONLY code path allowed to change" the cost).  However resolutions
\* overlap and wherever they die, a dispute resolved with an adjustment has one,
\* and the cost is the rating's or an adjustment's.  As long as nobody wrote
\* over a cost that he had not read, the ledger tells the whole story: each
\* adjustment starts where the one before it ended, and the last one is the cost.
LedgerExplainsCost ==
    /\ \A d \in Disputes : dispute[d] = "resolved_adjusted" =>
          \E i \in DOMAIN ledger : ledger[i].dispute = d
    /\ event.cost \in {Rated, Unrated} \/ \E i \in DOMAIN ledger : ledger[i].new = event.cost
    /\ ~overtaken /\ ledger # <<>> =>
          /\ event.cost = Last(ledger).new
          /\ \A i \in DOMAIN ledger : i > 1 => ledger[i].previous = ledger[i - 1].new
=============================================================================
