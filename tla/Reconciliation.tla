--------------------------- MODULE Reconciliation ---------------------------
(***************************************************************************)
(* The daily reconciliation of the calls Twilio confirmed with the usage   *)
(* events that bill them (billing/service.py), beside the calls, webhooks  *)
(* and metering of CallRecords: what it finds enters the staff's queue.    *)
(***************************************************************************)
EXTENDS CallRecords

CONSTANT Auditors   \* who runs it: the daily job, staff by their button

VARIABLES
    exceptions,  \* the ZoikoNexReconciliationException rows about calls
    audit        \* what each run has read

auditVars == <<exceptions, audit>>

NotAuditing == [step |-> "idle"]

AuditTypeOK ==
    /\ exceptions \subseteq [call : Calls, by : Auditors, resolved : BOOLEAN]
    /\ audit \in [Auditors -> {NotAuditing}
                    \cup [step : {"reads"}, open : SUBSET Calls, metered : SUBSET Calls]]

AuditInit ==
    /\ exceptions = {}
    /\ audit = [a \in Auditors |-> NotAuditing]

\* Mutant: an exception that staff have closed is taken for one that is open.
EverRaised == {e.call : e \in exceptions}

AlreadyOpen == {e.call : e \in {x \in exceptions : ~x.resolved}}

\* The open exceptions, and the usage events by their key ("call_seconds:" and
\* the call).
reads_usage_events(a) ==
    /\ audit[a] = NotAuditing
    /\ audit' = [audit EXCEPT ![a] =
          [step |-> "reads", open |-> AlreadyOpen, metered |-> {c \in Calls : usage[c] # <<>>}]]
    /\ UNCHANGED <<exceptions, recordVars>>

\* The completed calls are read last: one that is metered in between is
\* reported, once, all the same.
run_zoikonex_reconciliation(a) ==
    /\ audit[a].step = "reads"
    /\ exceptions' = exceptions \cup
          [call : {c \in Calls : row[c] = "completed"} \ (audit[a].metered \cup audit[a].open),
           by : {a}, resolved : {FALSE}]
    /\ audit' = [audit EXCEPT ![a] = NotAuditing]
    /\ UNCHANGED recordVars

run_dies(a) ==
    /\ audit[a] # NotAuditing
    /\ audit' = [audit EXCEPT ![a] = NotAuditing]
    /\ UNCHANGED <<exceptions, recordVars>>

\* Staff close a row with a reason; nothing else does, and nothing is metered.
resolve_zoikonex_reconciliation_exception(e) ==
    /\ ~e.resolved
    /\ exceptions' = (exceptions \ {e}) \cup {[e EXCEPT !.resolved = TRUE]}
    /\ UNCHANGED <<audit, recordVars>>

AuditNext ==
    \/ \E a \in Auditors :
          reads_usage_events(a) \/ run_zoikonex_reconciliation(a) \/ run_dies(a)
    \/ \E e \in exceptions : resolve_zoikonex_reconciliation_exception(e)

\* Beside the calls.
AuditedNext ==
    \/ AuditNext
    \/ RecordNext /\ UNCHANGED auditVars

AuditSpec == RecordInit /\ AuditInit /\ [][AuditedNext]_<<recordVars, auditVars>>

\* A run is begun every day. (And some day it is not cut short: strong fairness
\* of run_zoikonex_reconciliation, in MCPlatform.)
every_day == \E a \in Auditors : reads_usage_events(a)

-----------------------------------------------------------------------------
\* What Twilio confirmed is metered, or in the staff's queue.
Accounted ==
    \A c \in Calls :
       row[c] = "completed" => usage[c] # <<>> \/ \E e \in exceptions : e.call = c /\ ~e.resolved

\* No completed call is forgotten ("exceptions must enter an operations
\* queue", service.py): its worker may have died between the status and the
\* metering, or staff have closed its exception; until it is metered it is
\* always in the queue again.
CallsAreAccountedFor == []<>Accounted
=============================================================================
