----------------------------- MODULE CallRecords -----------------------------
(***************************************************************************)
(* The voice calls of one account: what Twilio knows of each, the          *)
(* CallRecord row, the webhooks on their way from one to the other, the    *)
(* metering that follows a final status (media/service.py, usage/          *)
(* service.py), and the daily sweep that asks Twilio about what no webhook *)
(* ever closed.                                                            *)
(***************************************************************************)
EXTENDS Naturals, Sequences, FiniteSets

CONSTANTS
    Calls,
    CallWorkers,  \* the processes that serve webhooks, and the daily job
    Cron,         \* the daily job
    Limit,        \* MAX_CONCURRENT_CALLS_BY_RISK_STATE of the account's tier
    Endings       \* the final statuses that calls end with

ASSUME CronAssumption == Cron \in CallWorkers
ASSUME LimitAssumption == Limit \in Nat
ASSUME EndingsAssumption ==
    Endings \subseteq {"completed", "failed", "busy", "no-answer", "canceled"}

VARIABLES
    origin,   \* how the call came to be
    twilio,   \* the call at Twilio
    request,  \* the handler that will write the row
    row,      \* CallRecord.status
    posts,    \* the webhooks of the call that are on their way
    job,      \* a worker, between the commit of a final status and its metering
    usage,    \* the dispositions of the call_seconds events of the call
    stale     \* the rows the sweep has listed and not visited yet

recordVars == <<origin, twilio, request, row, posts, job, usage, stale>>

TERMINAL_CALL_STATUSES == {"completed", "failed", "busy", "no-answer", "canceled"}
Statuses == {"ringing", "queued", "in-progress"} \cup TERMINAL_CALL_STATUSES
Idle == [step |-> "idle"]

RecordTypeOK ==
    /\ origin \in [Calls -> {"none", "api", "browser", "inbound"}]
    /\ twilio \in [Calls -> {"none", "live"} \cup TERMINAL_CALL_STATUSES]
    /\ request \in [Calls -> {"none", "allowed", "placed", "done"}]
    /\ row \in [Calls -> {"none"} \cup Statuses]
    /\ posts \in [Calls -> SUBSET {"dial", "final"}]
    /\ job \in [CallWorkers ->
                  {Idle} \cup [step : {"look", "insert"}, call : Calls,
                               disposition : TERMINAL_CALL_STATUSES]]
    /\ usage \in [Calls -> Seq(TERMINAL_CALL_STATUSES)]
    /\ stale \subseteq Calls

RecordInit ==
    /\ origin = [c \in Calls |-> "none"]
    /\ twilio = [c \in Calls |-> "none"]
    /\ request = [c \in Calls |-> "none"]
    /\ row = [c \in Calls |-> "none"]
    /\ posts = [c \in Calls |-> {}]
    /\ job = [w \in CallWorkers |-> Idle]
    /\ usage = [c \in Calls |-> <<>>]
    /\ stale = {}

Over(c) == twilio[c] \in TERMINAL_CALL_STATUSES
InFlight(c) == row[c] \notin {"none"} \cup TERMINAL_CALL_STATUSES

-----------------------------------------------------------------------------
(* Calls are placed and recorded.                                          *)

\* assert_concurrent_call_limit_ok counts rows, and locks nothing.
assert_outbound_call_allowed ==
    Cardinality({d \in Calls : InFlight(d) /\ origin[d] # "inbound"}) < Limit

\* A demonstration call, a bridge or a call of the public API has passed its gates.
place_outbound_call(c) ==
    /\ origin[c] = "none"
    /\ assert_outbound_call_allowed
    /\ origin' = [origin EXCEPT ![c] = "api"]
    /\ request' = [request EXCEPT ![c] = "allowed"]
    /\ UNCHANGED <<twilio, row, posts, job, usage, stale>>

\* Twilio takes the call; a refusal leaves nothing behind.
call_begins(c, taken) ==
    /\ origin[c] = "api"
    /\ request[c] = "allowed"
    /\ request' = [request EXCEPT ![c] = IF taken THEN "placed" ELSE "done"]
    /\ twilio' = [twilio EXCEPT ![c] = IF taken THEN "live" ELSE @]
    /\ UNCHANGED <<origin, row, posts, job, usage, stale>>

\* A browser's call is Twilio's before the gates see it; refused, it is told so.
handle_browser_connect(c, allowed) ==
    /\ origin[c] = "none"
    /\ allowed => assert_outbound_call_allowed
    /\ origin' = [origin EXCEPT ![c] = "browser"]
    /\ twilio' = [twilio EXCEPT ![c] = "live"]
    /\ request' = [request EXCEPT ![c] = IF allowed THEN "placed" ELSE "done"]
    /\ UNCHANGED <<row, posts, job, usage, stale>>

incoming_call(c) ==
    /\ origin[c] = "none"
    /\ origin' = [origin EXCEPT ![c] = "inbound"]
    /\ twilio' = [twilio EXCEPT ![c] = "live"]
    /\ request' = [request EXCEPT ![c] = "placed"]
    /\ UNCHANGED <<row, posts, job, usage, stale>>

FirstStatus(c) ==
    CASE origin[c] = "api" -> "queued"
      [] origin[c] = "browser" -> "in-progress"
      [] OTHER -> "ringing"

record_call(c) ==
    /\ request[c] = "placed"
    /\ request' = [request EXCEPT ![c] = "done"]
    /\ row' = [row EXCEPT ![c] = FirstStatus(c)]
    /\ UNCHANGED <<origin, twilio, posts, job, usage, stale>>

request_dies(c) ==
    /\ request[c] \in {"allowed", "placed"}
    /\ request' = [request EXCEPT ![c] = "done"]
    /\ UNCHANGED <<origin, twilio, row, posts, job, usage, stale>>

-----------------------------------------------------------------------------
(* Twilio reports.                                                         *)

\* The <Dial> of a bridge posts the status of its parent, which is still live.
dial_ends(c) ==
    /\ twilio[c] = "live"
    /\ origin[c] \in {"api", "browser"}
    /\ posts' = [posts EXCEPT ![c] = @ \cup {"dial"}]
    /\ UNCHANGED <<origin, twilio, request, row, job, usage, stale>>

\* No status callback is set on a browser's call.
call_ends(c, outcome) ==
    /\ twilio[c] = "live"
    /\ twilio' = [twilio EXCEPT ![c] = outcome]
    /\ posts' = [posts EXCEPT ![c] = IF origin[c] = "browser" THEN @ ELSE @ \cup {"final"}]
    /\ UNCHANGED <<origin, request, row, job, usage, stale>>

post_is_lost(c, p) ==
    /\ p \in posts[c]
    /\ posts' = [posts EXCEPT ![c] = @ \ {p}]
    /\ UNCHANGED <<origin, twilio, request, row, job, usage, stale>>

\* Worker w applies what it was told, to the row if there is one, and goes on
\* to meter a final status.
update_call_status(w, c, status) ==
    /\ job[w] = Idle
    /\ row' = [row EXCEPT ![c] = IF @ = "none" THEN @ ELSE status]
    /\ job' = IF row[c] # "none" /\ status \in TERMINAL_CALL_STATUSES
              THEN [job EXCEPT ![w] = [step |-> "look", call |-> c, disposition |-> status]]
              ELSE job

\* A webhook is delivered once, or again later.
status_callback(w, c, p) ==
    /\ w # Cron
    /\ p \in posts[c]
    /\ update_call_status(w, c, IF p = "dial" THEN "in-progress" ELSE twilio[c])
    /\ \/ posts' = [posts EXCEPT ![c] = @ \ {p}]
       \/ UNCHANGED posts
    /\ UNCHANGED <<origin, twilio, request, usage, stale>>

\* Mutant: metering that looks for an earlier event and lets the key repeat.
InsertTwice(c) == TRUE

\* usage_events.idempotency_key is unique: the loser of a race is rolled back.
Insertable(c) == usage[c] = <<>>

record_usage_event(w) ==
    /\ \/ /\ job[w].step = "look"
          /\ job' = [job EXCEPT ![w] =
                        IF usage[job[w].call] = <<>> THEN [job[w] EXCEPT !.step = "insert"] ELSE Idle]
          /\ UNCHANGED usage
       \/ /\ job[w].step = "insert"
          /\ usage' = [usage EXCEPT ![job[w].call] =
                          IF Insertable(job[w].call) THEN Append(@, job[w].disposition) ELSE @]
          /\ job' = [job EXCEPT ![w] = Idle]
    /\ UNCHANGED <<origin, twilio, request, row, posts, stale>>

worker_dies(w) ==
    /\ job[w] # Idle
    /\ job' = [job EXCEPT ![w] = Idle]
    /\ UNCHANGED <<origin, twilio, request, row, posts, usage, stale>>

-----------------------------------------------------------------------------
(* The daily sweep.                                                        *)

\* Mutant: a sweep of the calls that were answered.
StaleInProgress(c) == row[c] = "in-progress"

Stale(c) == InFlight(c)

sweep_begins ==
    /\ stale = {}
    /\ job[Cron] = Idle
    /\ \E c \in Calls : Stale(c)
    /\ stale' = {c \in Calls : Stale(c)}
    /\ UNCHANGED <<origin, twilio, request, row, posts, job, usage>>

\* What is too young, what Twilio calls active or does not answer for, is left
\* for another day.
sweep_stale_calls(c, answered) ==
    /\ c \in stale
    /\ job[Cron] = Idle
    /\ stale' = stale \ {c}
    /\ IF answered /\ Over(c)
       THEN update_call_status(Cron, c, twilio[c])
       ELSE UNCHANGED <<row, job>>
    /\ UNCHANGED <<origin, twilio, request, posts, usage>>

CallStep(c) ==
    \/ place_outbound_call(c)
    \/ \E ok \in BOOLEAN : call_begins(c, ok) \/ handle_browser_connect(c, ok)
    \/ incoming_call(c)
    \/ record_call(c)
    \/ request_dies(c)
    \/ dial_ends(c)
    \/ \E outcome \in Endings : call_ends(c, outcome)
    \/ \E p \in {"dial", "final"} :
          post_is_lost(c, p) \/ \E w \in CallWorkers : status_callback(w, c, p)
    \/ \E answered \in BOOLEAN : sweep_stale_calls(c, answered)

RecordNext ==
    \/ \E c \in Calls : CallStep(c)
    \/ \E w \in CallWorkers : record_usage_event(w) \/ worker_dies(w)
    \/ sweep_begins

RecordSpec == RecordInit /\ [][RecordNext]_recordVars

\* Handlers run to their end or die; Twilio repeats a webhook only so often;
\* the job runs every day. (And some day a row is old and Twilio answers: strong
\* fairness of sweep_stale_calls(c, TRUE), in MCPlatform.)
RecordFair ==
    /\ \A c \in Calls :
          /\ WF_recordVars(record_call(c) \/ request_dies(c))
          /\ WF_recordVars(\E p \in {"dial", "final"} : post_is_lost(c, p))
    /\ \A w \in CallWorkers : WF_recordVars(record_usage_event(w))
    /\ WF_recordVars(sweep_begins)

-----------------------------------------------------------------------------
(* Properties.                                                             *)

\* A call that is over stops counting against the account's concurrent calls
\* for good, with the outcome Twilio gave it: whether its webhook is lost,
\* comes before the row, or is overtaken by that of its dial ("silently and
\* permanently eats one of the account's slots", service.py on
\* sweep_stale_calls).
SlotsAreFreed ==
    <>[](\A c \in Calls : Over(c) => row[c] \in {"none", twilio[c]})

\* "a provider webhook firing twice for the same call must not double-count
\* usage" (usage/service.py), and a call reopened by a late webhook and closed
\* again by the sweep is metered once, by the outcome Twilio gave it.
MeteredOnce ==
    \A c \in Calls : usage[c] \in {<<>>, <<twilio[c]>>}
=============================================================================
