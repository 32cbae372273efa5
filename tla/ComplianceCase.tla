---------------------------- MODULE ComplianceCase ----------------------------
(***************************************************************************)
(* One compliance case (compliance/service.py): opened, documented and     *)
(* verified by the customer at Stripe Identity, decided by staff or by     *)
(* Stripe's webhook, expired by the daily sweep, re-verified every year.   *)
(* Nobody locks the case: what is decided, uploaded, restarted or expired  *)
(* was read before it is written.                                          *)
(***************************************************************************)
EXTENDS Naturals, FiniteSets

CONSTANTS
    Sessions,    \* Stripe Identity sessions, a bound
    NoSession,
    Customers,   \* requests of the customer that may overlap
    Deciders,    \* deliveries of the webhook and staff decisions that may overlap
    Papers       \* documents the customer may upload

ASSUME NoSessionAssumption == NoSession \notin Sessions

VARIABLES
    kase,      \* ComplianceCase: status, kyc_inquiry_id, documents
    identity,  \* what Stripe has made of each session
    customer,  \* a customer's request that waits for Stripe or for the storage
    decider,   \* a decision under way: who decides (NoSession: staff), and what
    clock,     \* whether expires_at and reverification_due_at have passed
    sweep,     \* whether expire_overdue_cases has the case among the ones to expire
    verdicts,  \* how often a session's outcome has decided the case
    alone      \* history: no decision has begun while another was under way

caseVars == <<kase, identity, customer, decider, clock, sweep, verdicts, alone>>

Verdicts == {"verified", "canceled", "failed"}
Asking == [step |-> "idle"]
NoDecision == [step |-> "idle"]
Decision == [step : {"decided"}, by : Sessions \cup {NoSession}, to : {"approved", "rejected"}]

CaseTypeOK ==
    /\ kase \in [status : {"none", "pending", "approved", "rejected", "expired"},
                 inquiry : Sessions \cup {NoSession}, documents : SUBSET Papers]
    /\ identity \in [Sessions -> {"none", "requires_input"} \cup Verdicts]
    /\ customer \in [Customers ->
          {Asking} \cup [step : {"kyc"}, seen : {"pending", "rejected", "expired"}]
                   \cup [step : {"upload"}, seen : SUBSET Papers, paper : Papers]]
    /\ decider \in [Deciders -> {NoDecision} \cup Decision]
    /\ clock \in [overdue : BOOLEAN, due : BOOLEAN]
    /\ sweep \in BOOLEAN
    /\ verdicts \in [Sessions -> Nat]
    /\ alone \in BOOLEAN

CaseInit ==
    /\ kase = [status |-> "none", inquiry |-> NoSession, documents |-> {}]
    /\ identity = [s \in Sessions |-> "none"]
    /\ customer = [c \in Customers |-> Asking]
    /\ decider = [x \in Deciders |-> NoDecision]
    /\ clock = [overdue |-> FALSE, due |-> FALSE]
    /\ sweep = FALSE
    /\ verdicts = [s \in Sessions |-> 0]
    /\ alone = TRUE

open_compliance_case ==
    /\ kase.status = "none"
    /\ kase' = [kase EXCEPT !.status = "pending"]
    /\ UNCHANGED <<identity, customer, clock, sweep, verdicts, decider, alone>>

-----------------------------------------------------------------------------
(* The customer.                                                           *)

Asks(c, request) == customer' = [customer EXCEPT ![c] = request]

submit_document(c, paper) ==
    /\ customer[c] = Asking
    /\ kase.status \notin {"none", "approved"}
    /\ Asks(c, [step |-> "upload", seen |-> kase.documents, paper |-> paper])
    /\ UNCHANGED <<kase, identity, clock, sweep, verdicts, decider, alone>>

\* The list as it was read, with the new document: what another upload has
\* added meanwhile is overwritten.
document_uploaded(c) ==
    /\ customer[c].step = "upload"
    /\ kase' = [kase EXCEPT !.documents = customer[c].seen \cup {customer[c].paper}]
    /\ Asks(c, Asking)
    /\ UNCHANGED <<identity, clock, sweep, verdicts, decider, alone>>

start_kyc_verification(c) ==
    /\ customer[c] = Asking
    /\ kase.status \notin {"none", "approved"}
    /\ Asks(c, [step |-> "kyc", seen |-> kase.status])
    /\ UNCHANGED <<kase, identity, clock, sweep, verdicts, decider, alone>>

\* Mutant: a restart that goes on with the session the case has.
KeepsInquiry(c, s) ==
    [kase EXCEPT !.inquiry = IF @ = NoSession THEN s ELSE @,
                 !.status = IF customer[c].seen = "pending" THEN @ ELSE "pending"]

\* A retry is pending again; the expiry of the case is not moved.
Restarted(c, s) ==
    [kase EXCEPT !.inquiry = s,
                 !.status = IF customer[c].seen = "pending" THEN @ ELSE "pending"]

session_created(c, s) ==
    /\ customer[c].step = "kyc"
    /\ identity[s] = "none"
    /\ identity' = [identity EXCEPT ![s] = "requires_input"]
    /\ kase' = Restarted(c, s)
    /\ Asks(c, Asking)
    /\ UNCHANGED <<clock, sweep, verdicts, decider, alone>>

\* Stripe or the storage refuses, or the worker dies.
customer_request_fails(c) ==
    /\ customer[c] # Asking
    /\ Asks(c, Asking)
    /\ UNCHANGED <<kase, identity, clock, sweep, verdicts, decider, alone>>

-----------------------------------------------------------------------------
(* Stripe Identity, its webhook, and the staff.                            *)

stripe_decides(s, verdict) ==
    /\ identity[s] \in {"requires_input", "failed"}
    /\ identity' = [identity EXCEPT ![s] = verdict]
    /\ UNCHANGED <<kase, customer, clock, sweep, verdicts, decider, alone>>

\* A decision that has found the case pending.
Decides(x, by, to) ==
    /\ decider[x] = NoDecision
    /\ kase.status = "pending"
    /\ decider' = [decider EXCEPT ![x] = [step |-> "decided", by |-> by, to |-> to]]
    /\ alone' = (alone /\ \A y \in Deciders : decider[y] = NoDecision)
    /\ UNCHANGED <<kase, identity, customer, clock, sweep, verdicts>>

\* The webhook of a session, which Stripe may deliver again at any time, and
\* before the first delivery is handled: it finds the case by its inquiry, and
\* acts on a pending one.
handle_stripe_identity_webhook(x, s) ==
    /\ kase.inquiry = s
    /\ identity[s] \in Verdicts
    /\ Decides(x, s, IF identity[s] = "verified" THEN "approved" ELSE "rejected")

staff_decides(x, to) == Decides(x, NoSession, to)

StatusSet(status) == kase' = [kase EXCEPT !.status = status]

Counted(by) == verdicts' = [s \in Sessions |-> verdicts[s] + IF s = by THEN 1 ELSE 0]

\* What was decided is written, whatever the case has become.
approve_case(x) ==
    /\ decider[x] # NoDecision
    /\ decider[x].to = "approved"
    /\ StatusSet("approved")
    /\ Counted(decider[x].by)
    /\ clock' = [clock EXCEPT !.due = FALSE]
    /\ decider' = [decider EXCEPT ![x] = NoDecision]
    /\ UNCHANGED <<identity, customer, sweep, alone>>

reject_case(x) ==
    /\ decider[x] # NoDecision
    /\ decider[x].to = "rejected"
    /\ StatusSet("rejected")
    /\ Counted(decider[x].by)
    /\ decider' = [decider EXCEPT ![x] = NoDecision]
    /\ UNCHANGED <<identity, customer, clock, sweep, alone>>

decision_fails(x) ==
    /\ decider[x] # NoDecision
    /\ decider' = [decider EXCEPT ![x] = NoDecision]
    /\ UNCHANGED <<kase, identity, customer, clock, sweep, verdicts, alone>>

-----------------------------------------------------------------------------
(* Time and the daily job.                                                 *)

ninety_days_pass ==
    /\ ~clock.overdue
    /\ clock' = [clock EXCEPT !.overdue = TRUE]
    /\ UNCHANGED <<kase, identity, customer, sweep, verdicts, decider, alone>>

a_year_passes ==
    /\ kase.status = "approved"
    /\ ~clock.due
    /\ clock' = [clock EXCEPT !.due = TRUE]
    /\ UNCHANGED <<kase, identity, customer, sweep, verdicts, decider, alone>>

\* The sweep reads every overdue case and then expires them one after the
\* other, each with its commit.
expire_overdue_cases ==
    /\ ~sweep
    /\ kase.status = "pending"
    /\ clock.overdue
    /\ sweep' = TRUE
    /\ UNCHANGED <<kase, identity, customer, clock, verdicts, decider, alone>>

case_expired ==
    /\ sweep
    /\ sweep' = FALSE
    /\ StatusSet("expired")
    /\ UNCHANGED <<identity, customer, clock, verdicts, decider, alone>>

sweep_fails ==
    /\ sweep
    /\ sweep' = FALSE
    /\ UNCHANGED <<kase, identity, customer, clock, verdicts, decider, alone>>

flag_cases_due_for_reverification ==
    /\ kase.status = "approved"
    /\ clock.due
    /\ clock' = [clock EXCEPT !.due = FALSE]
    /\ UNCHANGED <<kase, identity, customer, sweep, verdicts, decider, alone>>

CaseNext ==
    \/ open_compliance_case
    \/ \E c \in Customers :
          \/ \E paper \in Papers : submit_document(c, paper)
          \/ document_uploaded(c)
          \/ start_kyc_verification(c)
          \/ \E s \in Sessions : session_created(c, s)
          \/ customer_request_fails(c)
    \/ \E s \in Sessions :
          \/ \E verdict \in Verdicts : stripe_decides(s, verdict)
          \/ \E x \in Deciders : handle_stripe_identity_webhook(x, s)
    \/ \E x \in Deciders :
          \/ \E to \in {"approved", "rejected"} : staff_decides(x, to)
          \/ approve_case(x) \/ reject_case(x) \/ decision_fails(x)
    \/ ninety_days_pass \/ a_year_passes
    \/ expire_overdue_cases \/ case_expired \/ sweep_fails
    \/ flag_cases_due_for_reverification

CaseSpec == CaseInit /\ [][CaseNext]_caseVars

-----------------------------------------------------------------------------
(* Properties.                                                             *)

\* "A second delivery of the same completed/failed event must not re-approve/
\* re-reject" (service.py on the webhook): however often Stripe delivers, and
\* whatever the sweep, uploads and restarts that overlap with the decisions make
\* of the case in between, a session decides it at most once, as long as no two
\* decisions about it overlap.
SessionDecidesOnce == alone => \A s \in Sessions : verdicts[s] <= 1

\* Why: a session that has decided is no longer the inquiry, or the case is no
\* longer pending; it is pending again only with a new session.
SpentSession ==
    /\ kase.inquiry # NoSession => identity[kase.inquiry] # "none"
    /\ \A x \in Deciders : decider[x] # NoDecision /\ decider[x].by # NoSession =>
          identity[decider[x].by] # "none"
    /\ \A s \in Sessions : verdicts[s] > 0 => identity[s] # "none"
    /\ alone =>
          /\ \A s \in Sessions : verdicts[s] > 0 => kase.inquiry # s \/ kase.status # "pending"
          /\ \A x \in Deciders : decider[x] # NoDecision =>
                /\ \A s \in Sessions : decider[x].by = s => verdicts[s] = 0
                /\ \A y \in Deciders : y # x => decider[y] = NoDecision
=============================================================================
