------------------------------ MODULE CallQueue ------------------------------
(***************************************************************************)
(* One hold queue of queues/service.py: callers wait in Twilio's queue,    *)
(* agents pull them, and webhooks of both legs drive the QueueCallLog      *)
(* rows.  Twilio's queue and the log are two records of the same callers,  *)
(* brought together only by webhooks, each of which reads and writes under *)
(* no lock.  Who the agents are, their presence and the outcome of a row   *)
(* decide nothing and are left out.                                        *)
(***************************************************************************)
EXTENDS Sequences, SequencesExt, FiniteSets

\* Pulls: the pulls that are under way at a time, at most, of any agents.
CONSTANTS Callers, NoCaller, Pulls

VARIABLES
    line,     \* the callers on hold at Twilio, first come first
    side,     \* of the caller's call: where it is, and how it left the queue
    polled,    \* the callers who left while Twilio's question to the wait URL stood unanswered
    entered,  \* the callers that have a QueueCallLog row, by entered_at
    log,      \* those rows: whether agent_user_id, answered_at, left_at are set
    pull,     \* a pull-next request, and the call to the agent that came of it
    late      \* history: callers entered after their leaving was reported

callVars  == <<line, side>>
logVars   == <<entered, log, late>>
queueVars == <<line, side, polled, entered, log, pull, late>>

Sides == {"none", "holding", "talking", "left", "gone"}

LogRow == [reserved : BOOLEAN, answered : BOOLEAN, left : BOOLEAN]
\* lost: the reservation was given back although Twilio had taken the call.
Pull == [caller : Callers \cup {NoCaller},
         leg : {"idle", "reserved", "ringing", "dialing", "bridged"}, lost : BOOLEAN,
         met : SUBSET Callers]

NewRow == [reserved |-> FALSE, answered |-> FALSE, left |-> FALSE]
IdlePull == [caller |-> NoCaller, leg |-> "idle", lost |-> FALSE, met |-> {}]

QueueTypeOK ==
    /\ line \in Seq(Callers)
    /\ side \in [Callers -> Sides]
    /\ polled \in SUBSET Callers
    /\ entered \in Seq(Callers)
    /\ log \in [Callers -> LogRow]
    /\ pull \in [Pulls -> Pull]
    /\ late \in SUBSET Callers

QueueInit ==
    /\ line = <<>>
    /\ side = [c \in Callers |-> "none"]
    /\ polled = {}
    /\ entered = <<>>
    /\ log = [c \in Callers |-> NewRow]
    /\ pull = [p \in Pulls |-> IdlePull]
    /\ late = {}

HasRow(c) == \E i \in DOMAIN entered : entered[i] = c
Open(c) == HasRow(c) /\ ~log[c].left
Unanswered(c) == Open(c) /\ ~log[c].answered

\* Mutant: a pull that forgets what another agent has reserved.
PullableReserved(c) == Unanswered(c)

Pullable(c) == Unanswered(c) /\ ~log[c].reserved

\* c is the oldest row of a kind.
Oldest(c, Kind(_)) ==
    \E i \in DOMAIN entered :
        /\ entered[i] = c
        /\ Kind(c)
        /\ \A j \in 1..(i - 1) : ~Kind(entered[j])

-----------------------------------------------------------------------------
(* The caller's call, at Twilio.                                           *)

enqueue(c) ==
    /\ side[c] = "none"
    /\ side' = [side EXCEPT ![c] = "holding"]
    /\ line' = Append(line, c)
    /\ UNCHANGED <<polled, logVars, pull>>

Leaves(c) ==
    /\ side' = [side EXCEPT ![c] = "left"]
    /\ \E i \in DOMAIN line : line[i] = c /\ line' = RemoveAt(line, i)

\* A question that is answered while the caller holds needs no state; it may
\* also be out when the caller stops to hold, and be handled after that.
QuestionMayBeOut(c) == polled' \in {polled, polled \cup {c}}

caller_hangs_up(c) ==
    /\ side[c] = "holding"
    /\ Leaves(c)
    /\ QuestionMayBeOut(c)
    /\ UNCHANGED <<logVars, pull>>

\* Mutant: a wait webhook that only plays music.
WaitsOn(c, exceeded) == UNCHANGED callVars

\* has_exceeded_max_wait answers <Leave/>, and Twilio takes the caller out, if
\* there still is a caller to take out.
HoldOrLeave(c, exceeded) ==
    IF exceeded /\ side[c] = "holding" THEN Leaves(c) ELSE UNCHANGED callVars

enter_or_get_log(c) ==
    IF HasRow(c) THEN UNCHANGED logVars
    ELSE /\ entered' = Append(entered, c)
         /\ log' = [log EXCEPT ![c] = NewRow]
         /\ late' = IF side[c] = "gone" THEN late \cup {c} ELSE late

\* Handled whatever has become of the caller since Twilio asked.  Nobody else
\* enters the row: when it is looked for makes no difference.
queue_wait(c, exceeded) ==
    /\ side[c] = "holding" \/ c \in polled
    /\ polled' = polled \ {c}
    /\ enter_or_get_log(c)
    /\ HoldOrLeave(c, exceeded)
    /\ UNCHANGED pull

\* Twilio's action callback, once, after the call has left for any reason.
queue_left(c) ==
    /\ side[c] = "left"
    /\ side' = [side EXCEPT ![c] = "gone"]
    /\ log' = [log EXCEPT ![c].left = @ \/ HasRow(c)]
    /\ UNCHANGED <<line, polled, entered, late, pull>>

-----------------------------------------------------------------------------
(* The agent's pull.                                                       *)

\* The reservation is committed before anything is dialled.
pull_next_caller(p, c) ==
    /\ pull[p].leg = "idle"
    /\ Oldest(c, Pullable)
    /\ log' = [log EXCEPT ![c].reserved = TRUE]
    /\ pull' = [pull EXCEPT ![p] = [caller |-> c, leg |-> "reserved", lost |-> FALSE, met |-> {}]]
    /\ UNCHANGED <<callVars, polled, entered, late>>

place_call(p) ==
    /\ pull[p].leg = "reserved"
    /\ pull' = [pull EXCEPT ![p].leg = "ringing"]
    /\ UNCHANGED <<callVars, polled, logVars>>

\* A gate or Twilio refused, or Twilio took the call and its answer is lost: the
\* reservation is given back, whatever the row has become.
pull_fails(p, taken) ==
    /\ pull[p].leg = "reserved"
    /\ log' = [log EXCEPT ![pull[p].caller].reserved = FALSE]
    /\ pull' = [pull EXCEPT ![p] =
                    IF taken THEN [@ EXCEPT !.leg = "ringing", !.lost = TRUE] ELSE IdlePull]
    /\ UNCHANGED <<callVars, polled, entered, late>>

pull_dies(p) ==
    /\ pull[p].leg = "reserved"
    /\ pull' = [pull EXCEPT ![p] = IdlePull]
    /\ UNCHANGED <<callVars, polled, logVars>>

\* The row of the reservation, or the oldest that nobody has answered.
Answerable(c, d) == IF Unanswered(c) THEN d = c ELSE Oldest(d, Unanswered)

\* It reads and then writes: what it found may be answered or left meanwhile,
\* unless it is the row of the reservation and still waits.
mark_answered(c) ==
    \/ \E d \in Callers :
          /\ Answerable(c, d)
          /\ log' = [log EXCEPT ![d] = [@ EXCEPT !.answered = TRUE, !.reserved = TRUE]]
    \/ /\ ~Unanswered(c)
       /\ UNCHANGED log

queue_agent_connect(p) ==
    /\ pull[p].leg = "ringing"
    /\ mark_answered(pull[p].caller)
    /\ pull' = [pull EXCEPT ![p].leg = "dialing"]
    /\ UNCHANGED <<callVars, polled, entered, late>>

\* <Dial><Queue>: Twilio bridges the head of its own queue.
dial_queue(p) ==
    /\ pull[p].leg = "dialing"
    /\ line # <<>>
    /\ side' = [side EXCEPT ![Head(line)] = "talking"]
    /\ line' = Tail(line)
    /\ pull' = [pull EXCEPT ![p].leg = "bridged", ![p].met = {Head(line)}]
    /\ QuestionMayBeOut(Head(line))
    /\ UNCHANGED logVars

\* The agent's call has ended: unanswered, before it reached anybody, or after
\* the talk, which is then over for the caller too.
queue_agent_call_ended(p) ==
    /\ pull[p].leg \in {"ringing", "dialing", "bridged"}
    /\ pull' = [pull EXCEPT ![p] = IdlePull]
    /\ side' = [d \in Callers |-> IF d \in pull[p].met THEN "left" ELSE side[d]]
    /\ UNCHANGED <<line, polled, logVars>>

CallerStep(c) ==
    \/ enqueue(c)
    \/ caller_hangs_up(c)
    \/ \E exceeded \in BOOLEAN : queue_wait(c, exceeded)
    \/ queue_left(c)

PullStep(p) ==
    \/ \E c \in Callers : pull_next_caller(p, c)
    \/ place_call(p) \/ pull_dies(p) \/ \E taken \in BOOLEAN : pull_fails(p, taken)
    \/ queue_agent_connect(p) \/ dial_queue(p) \/ queue_agent_call_ended(p)

QueueNext ==
    \/ \E c \in Callers : CallerStep(c)
    \/ \E p \in Pulls : PullStep(p)

QueueSpec == QueueInit /\ [][QueueNext]_queueVars

\* Twilio asks the wait URL again until the caller leaves, in the end with a
\* QueueTime over the limit; it reports the end of every call; a talk ends.
QueueFair ==
    /\ WF_queueVars(\E c \in Callers : queue_wait(c, TRUE))
    /\ WF_queueVars(\E c \in Callers : queue_left(c))
    /\ WF_queueVars(\E p \in Pulls : pull[p].leg = "bridged" /\ queue_agent_call_ended(p))

-----------------------------------------------------------------------------
(* Properties.                                                             *)

\* The pulls whose reservation was not given back.
Out(p) == pull[p].leg # "idle" /\ ~pull[p].lost

\* "Two agents concurrently hitting pull-next must not both select the same
\* waiting caller" (service.py on pull_next_caller): from the reservation to the
\* end of the agent's call no other pull is for the same caller, however pulls,
\* failed dispatches, answers, hang-ups and late webhooks interleave.  The one
\* exception is in `lost': a call whose reservation was given back because
\* Twilio's answer to it never came goes on ringing, and the caller is pulled
\* again.
OneAgentPerCaller ==
    \A p, q \in Pulls : Out(p) /\ Out(q) /\ pull[p].caller = pull[q].caller => p = q

\* Whoever waits leaves the queue in the end, whether or not an agent whose
\* call was never answered still holds the reservation, and whatever row such a
\* caller has is closed, but for one that a slow wait webhook entered after the
\* leaving had been reported.
CallersLeave ==
    []<>(\A c \in Callers : side[c] # "holding" /\ (Open(c) => c \in late))

\* Why OneAgentPerCaller holds: who is out for a caller has the row, or the row
\* can be pulled no more.
ReservedOut ==
    \A p \in Pulls : Out(p) => \E c \in Callers :
        /\ pull[p].caller = c
        /\ HasRow(c)
        /\ log[c].reserved \/ log[c].answered \/ log[c].left
=============================================================================
