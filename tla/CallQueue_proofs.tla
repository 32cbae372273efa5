-------------------------- MODULE CallQueue_proofs --------------------------
(***************************************************************************)
(* What holds of every instance of CallQueue: for any callers and any      *)
(* number of pulls.  Twilio's own line and the talks of the agents play no *)
(* part in which pull has which caller: their types are kept apart, at the *)
(* end.                                                                    *)
(***************************************************************************)
EXTENDS CallQueue, TLAPS

\* The types of the log and of the pulls.
LogTypeOK ==
    /\ entered \in Seq(Callers)
    /\ log \in [Callers -> LogRow]
    /\ pull \in [Pulls -> Pull]

\* The inductive invariant behind OneAgentPerCaller: whoever is out for a caller
\* has the row of the caller, or nobody can pull it any more.
LogInv == LogTypeOK /\ ReservedOut /\ OneAgentPerCaller

\* A row that is entered is found, and so are the others, still.
LEMMA RowEntered ==
    ASSUME entered \in Seq(Callers), NEW c \in Callers, entered' = Append(entered, c)
    PROVE  /\ entered' \in Seq(Callers)
           /\ \A d \in Callers : HasRow(d) => HasRow(d)'
<1>1. /\ Len(entered) \in Nat /\ Len(entered') = Len(entered) + 1
      /\ entered' \in Seq(Callers)
      /\ \A i \in 1..Len(entered) : entered'[i] = entered[i]
    OBVIOUS
<1>2. DOMAIN entered = 1..Len(entered) /\ DOMAIN entered' = 1..(Len(entered) + 1)
    BY <1>1
<1>3. \A i \in DOMAIN entered : i \in DOMAIN entered'
    BY <1>1, <1>2
<1> QED
    BY <1>1, <1>2, <1>3 DEF HasRow

\* A step that starts no pull and gives no reservation back, but may make rows
\* more reserved, answered or left than they were.
LEMMA NobodyComesOut ==
    ASSUME LogInv, LogTypeOK',
           \A p \in Pulls : Out(p)' => Out(p) /\ pull'[p].caller = pull[p].caller,
           \A c \in Callers : HasRow(c) =>
               /\ HasRow(c)'
               /\ log[c].reserved => log'[c].reserved
               /\ log[c].answered => log'[c].answered
               /\ log[c].left => log'[c].left
    PROVE  LogInv'
<1>1. LogTypeOK /\ ReservedOut /\ OneAgentPerCaller
    BY DEF LogInv
<1>2. OneAgentPerCaller'
    BY <1>1 DEF OneAgentPerCaller
<1>3. ReservedOut'
    BY <1>1 DEF ReservedOut
<1> QED
    BY <1>2, <1>3 DEF LogInv

\* A step of the caller's call leaves the pulls alone, and what it does to the
\* log takes no caller away from its agent.
LEMMA CallerKeeps ==
    ASSUME LogInv, NEW c \in Callers, CallerStep(c)
    PROVE  LogInv'
<1>0. LogTypeOK /\ ReservedOut
    BY DEF LogInv
<1>1. pull' = pull
    BY DEF CallerStep, enqueue, caller_hangs_up, queue_wait, queue_left
<1>2. \A p \in Pulls : Out(p)' => Out(p) /\ pull'[p].caller = pull[p].caller
    BY <1>1 DEF Out
<1>3. CASE UNCHANGED <<entered, log>>
    BY <1>0, <1>1, <1>2, <1>3, NobodyComesOut DEF LogTypeOK, HasRow
<1>4. CASE entered' = Append(entered, c) /\ log' = [log EXCEPT ![c] = NewRow] /\ ~HasRow(c)
  <2>1. NewRow \in LogRow
    BY DEF NewRow, LogRow
  <2>2. log' \in [Callers -> LogRow] /\ \A d \in Callers : d # c => log'[d] = log[d]
    BY <1>0, <1>4, <2>1 DEF LogTypeOK
  <2>3. entered' \in Seq(Callers) /\ \A d \in Callers : HasRow(d) => HasRow(d)'
    BY <1>0, <1>4, RowEntered DEF LogTypeOK
  <2>4. \A d \in Callers : HasRow(d) => log'[d] = log[d]
    BY <1>4, <2>2
  <2> QED
    BY <1>0, <1>1, <1>2, <2>2, <2>3, <2>4, NobodyComesOut DEF LogTypeOK
<1>5. CASE queue_left(c)
  <2>1. log' = [log EXCEPT ![c].left = @ \/ HasRow(c)] /\ entered' = entered
    BY <1>5 DEF queue_left
  <2>2. PICK b \in BOOLEAN : b = (log[c].left \/ HasRow(c))
    OBVIOUS
  <2>3. log[c] \in LogRow /\ [log[c] EXCEPT !.left = b] \in LogRow
    BY <1>0 DEF LogTypeOK, LogRow
  <2>4. log' = [log EXCEPT ![c] = [log[c] EXCEPT !.left = b]]
    BY <1>0, <2>1, <2>2 DEF LogTypeOK
  <2>5. log' \in [Callers -> LogRow] /\ \A d \in Callers : d # c => log'[d] = log[d]
    BY <1>0, <2>3, <2>4 DEF LogTypeOK
  <2>6. log'[c].reserved = log[c].reserved /\ log'[c].answered = log[c].answered
        /\ log'[c].left = b
    BY <1>0, <2>3, <2>4 DEF LogTypeOK, LogRow
  <2>7. \A d \in Callers : HasRow(d) =>
            /\ HasRow(d)'
            /\ log[d].reserved => log'[d].reserved
            /\ log[d].answered => log'[d].answered
            /\ log[d].left => log'[d].left
    BY <2>1, <2>2, <2>5, <2>6 DEF HasRow
  <2> QED
    BY <1>0, <1>1, <1>2, <2>1, <2>5, <2>7, NobodyComesOut DEF LogTypeOK
<1> QED
    BY <1>3, <1>4, <1>5
    DEF CallerStep, enqueue, caller_hangs_up, queue_wait, enter_or_get_log, logVars

\* What becomes of one pull leaves the others as they were.
LEMMA PullWritten ==
    ASSUME LogTypeOK, NEW p \in Pulls, NEW r \in Pull, pull' = [pull EXCEPT ![p] = r]
    PROVE  /\ pull' \in [Pulls -> Pull] /\ pull'[p] = r
           /\ \A q \in Pulls : q # p => pull'[q] = pull[q] /\ Out(q)' = Out(q)
           /\ Out(p)' <=> r.leg # "idle" /\ ~r.lost
  BY DEF LogTypeOK, Out

\* A pull that goes on, or ends, for the same caller, while the rows of the
\* others become no easier to pull.
LEMMA PullGoesOn ==
    ASSUME LogInv, NEW p \in Pulls, NEW r \in Pull, pull' = [pull EXCEPT ![p] = r],
           \/ r = IdlePull
           \/ r.caller = pull[p].caller /\ (r.lost \/ Out(p)),
           entered' = entered, log' \in [Callers -> LogRow],
           \A c \in Callers :
               /\ log[c].reserved => log'[c].reserved
               /\ log[c].answered => log'[c].answered
               /\ log[c].left => log'[c].left
    PROVE  LogInv'
<1>1. LogTypeOK
    BY DEF LogInv
<1>2. /\ pull' \in [Pulls -> Pull] /\ pull'[p] = r
      /\ \A q \in Pulls : q # p => pull'[q] = pull[q] /\ Out(q)' = Out(q)
      /\ Out(p)' <=> r.leg # "idle" /\ ~r.lost
    BY <1>1, PullWritten
<1>3. \A q \in Pulls : Out(q)' => Out(q) /\ pull'[q].caller = pull[q].caller
    BY <1>2 DEF IdlePull
<1>4. LogTypeOK' /\ \A c \in Callers : HasRow(c) => HasRow(c)'
    BY <1>1, <1>2 DEF LogTypeOK, HasRow
<1> QED
    BY <1>3, <1>4, NobodyComesOut

\* A pull finds a row that nobody has reserved, so that nobody is out for it.
LEMMA PullKeeps ==
    ASSUME LogInv, NEW p \in Pulls, NEW c \in Callers, pull_next_caller(p, c)
    PROVE  LogInv'
<1>0. LogTypeOK /\ ReservedOut /\ OneAgentPerCaller
    BY DEF LogInv
<1>1. Pullable(c) /\ HasRow(c)
    BY DEF pull_next_caller, Oldest, HasRow
<1>2. \A q \in Pulls : Out(q) => pull[q].caller # c
    BY <1>0, <1>1 DEF ReservedOut, Pullable, Unanswered, Open
<1> DEFINE r == [caller |-> c, leg |-> "reserved", lost |-> FALSE, met |-> {}]
<1>3. /\ log' = [log EXCEPT ![c].reserved = TRUE] /\ entered' = entered
      /\ pull' = [pull EXCEPT ![p] = r] /\ r \in Pull
    BY DEF pull_next_caller, Pull
<1>4. log[c] \in LogRow /\ [log[c] EXCEPT !.reserved = TRUE] \in LogRow
    BY <1>0 DEF LogTypeOK, LogRow
<1>5. /\ log' \in [Callers -> LogRow] /\ log'[c].reserved
      /\ \A d \in Callers : d # c => log'[d] = log[d]
    BY <1>0, <1>3, <1>4 DEF LogTypeOK, LogRow
<1>6. /\ pull' \in [Pulls -> Pull] /\ pull'[p] = r
      /\ \A q \in Pulls : q # p => pull'[q] = pull[q] /\ Out(q)' = Out(q)
    BY <1>0, <1>3, PullWritten
<1>7. pull'[p].caller = c
    BY <1>6
<1>8. LogTypeOK' /\ \A d \in Callers : HasRow(d) => HasRow(d)'
    BY <1>0, <1>3, <1>5, <1>6 DEF LogTypeOK, HasRow
<1>9. OneAgentPerCaller'
    BY <1>0, <1>2, <1>6, <1>7 DEF OneAgentPerCaller
<1>10. ReservedOut'
  <2> SUFFICES ASSUME NEW q \in Pulls, Out(q)'
               PROVE  \E d \in Callers :
                         /\ pull'[q].caller = d /\ HasRow(d)'
                         /\ log'[d].reserved \/ log'[d].answered \/ log'[d].left
    BY DEF ReservedOut
  <2>1. CASE q = p
    BY <1>1, <1>5, <1>7, <1>8, <2>1
  <2>2. CASE q # p
    BY <1>0, <1>2, <1>5, <1>6, <1>8, <2>2 DEF ReservedOut
  <2> QED
    BY <2>1, <2>2
<1> QED
    BY <1>8, <1>9, <1>10 DEF LogInv

\* A reservation that is given back was nobody else's.
LEMMA FailureKeeps ==
    ASSUME LogInv, NEW p \in Pulls, NEW taken \in BOOLEAN, pull_fails(p, taken),
           pull[p].lost = FALSE
    PROVE  LogInv'
<1>0. LogTypeOK /\ ReservedOut /\ OneAgentPerCaller
    BY DEF LogInv
<1> DEFINE c == pull[p].caller
           r == IF taken THEN [pull[p] EXCEPT !.leg = "ringing", !.lost = TRUE] ELSE IdlePull
<1>1. Out(p) /\ c \in Callers
    BY <1>0 DEF pull_fails, Out, ReservedOut
<1>2. /\ log' = [log EXCEPT ![c].reserved = FALSE] /\ entered' = entered
      /\ pull' = [pull EXCEPT ![p] = r]
    BY <1>0 DEF pull_fails, LogTypeOK
<1>3. r \in Pull /\ (r.leg = "idle" \/ r.lost)
    BY <1>0 DEF LogTypeOK, Pull, IdlePull
<1>4. log[c] \in LogRow /\ [log[c] EXCEPT !.reserved = FALSE] \in LogRow
    BY <1>0, <1>1 DEF LogTypeOK, LogRow
<1>5. log' \in [Callers -> LogRow] /\ \A d \in Callers : d # c => log'[d] = log[d]
    BY <1>0, <1>1, <1>2, <1>4 DEF LogTypeOK
<1>6. /\ pull' \in [Pulls -> Pull]
      /\ \A q \in Pulls : q # p => pull'[q] = pull[q] /\ Out(q)' = Out(q)
      /\ ~Out(p)'
    BY <1>0, <1>2, <1>3, PullWritten
<1>7. \A q \in Pulls : Out(q)' =>
          Out(q) /\ pull'[q].caller = pull[q].caller /\ pull[q].caller # c
    BY <1>0, <1>1, <1>6 DEF OneAgentPerCaller
<1>8. LogTypeOK' /\ \A d \in Callers : HasRow(d) => HasRow(d)'
    BY <1>0, <1>2, <1>5, <1>6 DEF LogTypeOK, HasRow
<1>9. OneAgentPerCaller'
    BY <1>0, <1>7 DEF OneAgentPerCaller
<1>10. ReservedOut'
    BY <1>0, <1>5, <1>7, <1>8 DEF ReservedOut
<1> QED
    BY <1>8, <1>9, <1>10 DEF LogInv

\* What mark_answered makes of the log: one row at most, and that is answered.
LEMMA AnsweredIs ==
    ASSUME LogTypeOK, NEW c \in Callers \cup {NoCaller}, mark_answered(c)
    PROVE  /\ log' \in [Callers -> LogRow]
           /\ \A d \in Callers :
                 /\ log[d].reserved => log'[d].reserved
                 /\ log[d].answered => log'[d].answered
                 /\ log[d].left => log'[d].left
<1>1. CASE log' = log
    BY <1>1 DEF LogTypeOK
<1>2. ASSUME NEW d \in Callers,
             log' = [log EXCEPT ![d] = [@ EXCEPT !.answered = TRUE, !.reserved = TRUE]]
      PROVE  /\ log' \in [Callers -> LogRow]
             /\ \A e \in Callers :
                   /\ log[e].reserved => log'[e].reserved
                   /\ log[e].answered => log'[e].answered
                   /\ log[e].left => log'[e].left
  <2> DEFINE r == [log[d] EXCEPT !.answered = TRUE, !.reserved = TRUE]
  <2>1. log[d] \in LogRow
    BY DEF LogTypeOK
  <2>2. r \in LogRow /\ r.reserved = TRUE /\ r.answered = TRUE /\ r.left = log[d].left
    BY <2>1 DEF LogRow
  <2>3. log' = [log EXCEPT ![d] = r]
    BY <1>2 DEF LogTypeOK
  <2> HIDE DEF r
  <2>4. log' \in [Callers -> LogRow] /\ log'[d] = r
        /\ \A e \in Callers : e # d => log'[e] = log[e]
    BY <2>2, <2>3 DEF LogTypeOK
  <2> QED
    BY <2>2, <2>4
<1> QED
    BY <1>1, <1>2 DEF mark_answered

\* A pull whose reservation is not committed or given back yet is not lost; only
\* the calls that ring, and what comes of them, can be.
NothingLostYet == \A p \in Pulls : pull[p].leg \in {"idle", "reserved"} => pull[p].lost = FALSE

\* A step of a pull takes no caller from another.
LEMMA AgentKeeps ==
    ASSUME LogInv, NothingLostYet, line \in Seq(Callers), NEW p \in Pulls, PullStep(p)
    PROVE  LogInv' /\ NothingLostYet'
<1>0. LogTypeOK /\ ReservedOut
    BY DEF LogInv
<1>1. pull[p] \in Pull /\ IdlePull \in Pull
    BY <1>0 DEF LogTypeOK, Pull, IdlePull
<1> DEFINE Moved(r) == pull' = [pull EXCEPT ![p] = r]
<1>2. \A x \in {"ringing", "dialing"} :
          /\ [pull[p] EXCEPT !.leg = x] \in Pull
          /\ [pull[p] EXCEPT !.leg = x].caller = pull[p].caller
          /\ [pull[p] EXCEPT !.leg = x].lost = pull[p].lost
          /\ [pull[p] EXCEPT !.leg = x].leg = x
    BY <1>1 DEF Pull
<1>3. ASSUME NEW r \in Pull, Moved(r), r.leg \in {"idle", "reserved"} => r.lost = FALSE
      PROVE  NothingLostYet'
    BY <1>0, <1>3, PullWritten DEF NothingLostYet
<1>4. ASSUME NEW c \in Callers, pull_next_caller(p, c)
      PROVE  LogInv' /\ NothingLostYet'
  <2> DEFINE r == [caller |-> c, leg |-> "reserved", lost |-> FALSE, met |-> {}]
  <2>1. Moved(r) /\ r \in Pull /\ r.lost = FALSE
    BY <1>4 DEF pull_next_caller, Pull
  <2> QED
    BY <1>3, <1>4, <2>1, PullKeeps
<1>5. CASE place_call(p)
  <2>1. Moved([pull[p] EXCEPT !.leg = "ringing"]) /\ log' = log /\ entered' = entered
    BY <1>0, <1>5 DEF place_call, logVars, LogTypeOK
  <2>2. Out(p)
    BY <1>5 DEF place_call, NothingLostYet, Out
  <2> QED
    BY <1>0, <1>2, <1>3, <2>1, <2>2, PullGoesOn DEF LogTypeOK
<1>6. CASE pull_dies(p) \/ queue_agent_call_ended(p)
  <2>1. Moved(IdlePull) /\ log' = log /\ entered' = entered
    BY <1>6 DEF pull_dies, queue_agent_call_ended, logVars
  <2> QED
    BY <1>0, <1>1, <1>3, <2>1, PullGoesOn DEF LogTypeOK, IdlePull
<1>7. ASSUME NEW taken \in BOOLEAN, pull_fails(p, taken)
      PROVE  LogInv' /\ NothingLostYet'
  <2> DEFINE r == IF taken THEN [pull[p] EXCEPT !.leg = "ringing", !.lost = TRUE] ELSE IdlePull
  <2>1. Moved(r)
    BY <1>0, <1>7 DEF pull_fails, LogTypeOK
  <2>2. r \in Pull /\ (r.leg \in {"idle", "reserved"} => r.lost = FALSE)
    BY <1>1 DEF Pull, IdlePull
  <2>3. pull[p].lost = FALSE
    BY <1>7 DEF pull_fails, NothingLostYet
  <2> QED
    BY <1>3, <1>7, <2>1, <2>2, <2>3, FailureKeeps
<1>8. CASE queue_agent_connect(p)
  <2>1. Moved([pull[p] EXCEPT !.leg = "dialing"]) /\ mark_answered(pull[p].caller)
        /\ entered' = entered /\ pull[p].leg = "ringing"
    BY <1>0, <1>8 DEF queue_agent_connect, LogTypeOK
  <2>2. pull[p].lost \/ Out(p)
    BY <2>1 DEF Out
  <2>3. pull[p].caller \in Callers \cup {NoCaller}
    BY <1>1 DEF Pull
  <2>4. /\ log' \in [Callers -> LogRow]
        /\ \A d \in Callers :
              /\ log[d].reserved => log'[d].reserved
              /\ log[d].answered => log'[d].answered
              /\ log[d].left => log'[d].left
    BY <1>0, <2>1, <2>3, AnsweredIs
  <2> QED
    BY <1>2, <1>3, <2>1, <2>2, <2>4, PullGoesOn
<1>9. CASE dial_queue(p)
  <2> DEFINE r == [pull[p] EXCEPT !.leg = "bridged", !.met = {Head(line)}]
  <2>1. /\ pull' = [pull EXCEPT ![p] = r]
        /\ log' = log /\ entered' = entered /\ pull[p].leg = "dialing"
    BY <1>0, <1>9 DEF dial_queue, logVars, LogTypeOK
  <2>2. Head(line) \in Callers
    BY <1>9 DEF dial_queue
  <2>3. /\ r \in Pull /\ r.leg = "bridged"
        /\ r.caller = pull[p].caller /\ r.lost = pull[p].lost
    BY <1>1, <2>2 DEF Pull
  <2>4. pull[p].lost \/ Out(p)
    BY <2>1 DEF Out
  <2> QED
    BY <1>0, <1>3, <2>1, <2>3, <2>4, PullGoesOn DEF LogTypeOK
<1> QED
    BY <1>4, <1>5, <1>6, <1>7, <1>8, <1>9 DEF PullStep

-----------------------------------------------------------------------------
(* Twilio's own line, and the theorems.                                    *)

\* A caller who leaves the line leaves a line of callers.
LEMMA LineShortened ==
    ASSUME line \in Seq(Callers), NEW i \in DOMAIN line
    PROVE  RemoveAt(line, i) \in Seq(Callers)
<1>1. Len(line) \in Nat /\ i \in 1..Len(line)
    OBVIOUS
<1>2. SubSeq(line, 1, i - 1) \in Seq(Callers)
    BY <1>1
<1>3. SubSeq(line, i + 1, Len(line)) \in Seq(Callers)
    BY <1>1
<1> QED
    BY <1>2, <1>3 DEF RemoveAt

CallTypeOK ==
    /\ line \in Seq(Callers)
    /\ side \in [Callers -> Sides]
    /\ polled \in SUBSET Callers
    /\ late \in SUBSET Callers

\* A step of the caller's call keeps the types of the call.
LEMMA CallerTypes ==
    ASSUME CallTypeOK, NEW c \in Callers, CallerStep(c)
    PROVE  CallTypeOK'
<1>0. /\ line \in Seq(Callers) /\ side \in [Callers -> Sides]
      /\ polled \in SUBSET Callers /\ late \in SUBSET Callers
    BY DEF CallTypeOK
<1>1. CASE enqueue(c)
    BY <1>0, <1>1 DEF enqueue, logVars, CallTypeOK, Sides
<1>2. ASSUME Leaves(c)
      PROVE  line' \in Seq(Callers) /\ side' \in [Callers -> Sides]
  <2>1. line' \in Seq(Callers)
    BY <1>0, <1>2, LineShortened DEF Leaves
  <2>2. side' \in [Callers -> Sides]
    BY <1>0, <1>2 DEF Leaves, Sides
  <2> QED
    BY <2>1, <2>2
<1>3. CASE caller_hangs_up(c)
    BY <1>0, <1>2, <1>3 DEF caller_hangs_up, QuestionMayBeOut, logVars, CallTypeOK
<1>4. ASSUME NEW exceeded \in BOOLEAN, queue_wait(c, exceeded)
      PROVE  CallTypeOK'
  <2>1. Leaves(c) \/ UNCHANGED callVars
    BY <1>4 DEF queue_wait, HoldOrLeave
  <2>2. line' \in Seq(Callers) /\ side' \in [Callers -> Sides]
    BY <1>0, <1>2, <2>1 DEF callVars
  <2>3. polled' \in SUBSET Callers /\ late' \in SUBSET Callers
    BY <1>0, <1>4 DEF queue_wait, enter_or_get_log, logVars
  <2> QED
    BY <2>2, <2>3 DEF CallTypeOK
<1>5. CASE queue_left(c)
    BY <1>0, <1>5 DEF queue_left, CallTypeOK, Sides
<1> QED
    BY <1>1, <1>3, <1>4, <1>5 DEF CallerStep

\* So does a step of an agent's.
LEMMA AgentTypes ==
    ASSUME CallTypeOK, NEW p \in Pulls, PullStep(p)
    PROVE  CallTypeOK'
<1>0. /\ line \in Seq(Callers) /\ side \in [Callers -> Sides]
      /\ polled \in SUBSET Callers /\ late \in SUBSET Callers
    BY DEF CallTypeOK
<1>1. CASE dial_queue(p)
  <2>1. Head(line) \in Callers /\ Tail(line) \in Seq(Callers)
    BY <1>0, <1>1 DEF dial_queue
  <2> QED
    BY <1>0, <1>1, <2>1 DEF dial_queue, QuestionMayBeOut, logVars, CallTypeOK, Sides
<1>2. CASE queue_agent_call_ended(p)
    BY <1>0, <1>2 DEF queue_agent_call_ended, logVars, CallTypeOK, Sides
<1>3. CASE UNCHANGED <<line, side, polled, late>>
    BY <1>3 DEF CallTypeOK
<1> QED
    BY <1>1, <1>2, <1>3
    DEF PullStep, pull_next_caller, place_call, pull_fails, pull_dies, queue_agent_connect,
        callVars, logVars

\* The invariant of the queue with the types of Twilio's own line and talks.
QueueInv == QueueTypeOK /\ LogInv /\ NothingLostYet

\* A step keeps it.
LEMMA QueueStep == QueueInv /\ [QueueNext]_queueVars => QueueInv'
<1> SUFFICES ASSUME QueueInv, [QueueNext]_queueVars PROVE QueueInv'
    OBVIOUS
<1>0. LogInv /\ NothingLostYet /\ CallTypeOK /\ line \in Seq(Callers)
    BY DEF QueueInv, QueueTypeOK, CallTypeOK
<1>1. LogInv' /\ NothingLostYet' /\ CallTypeOK' => QueueInv'
    BY DEF QueueInv, QueueTypeOK, LogInv, LogTypeOK, CallTypeOK
<1>2. CASE UNCHANGED queueVars
    BY <1>2 DEF queueVars, QueueInv, QueueTypeOK, LogInv, LogTypeOK, ReservedOut,
                OneAgentPerCaller, Out, HasRow, NothingLostYet
<1>3. ASSUME NEW c \in Callers, CallerStep(c)
      PROVE  QueueInv'
  <2>1. pull' = pull
    BY <1>3 DEF CallerStep, enqueue, caller_hangs_up, queue_wait, queue_left
  <2> QED
    BY <1>0, <1>1, <1>3, <2>1, CallerKeeps, CallerTypes DEF NothingLostYet
<1>4. ASSUME NEW p \in Pulls, PullStep(p)
      PROVE  QueueInv'
    BY <1>0, <1>1, <1>4, AgentKeeps, AgentTypes
<1> QED
    BY <1>2, <1>3, <1>4 DEF QueueNext

\* Nobody has called to begin with.
LEMMA QueueStarts == QueueInit => QueueInv
<1> SUFFICES ASSUME QueueInit PROVE QueueInv
    OBVIOUS
<1>1. NewRow \in LogRow /\ IdlePull \in Pull
    BY DEF NewRow, LogRow, IdlePull, Pull
<1>2. QueueTypeOK /\ LogTypeOK
    BY <1>1 DEF QueueInit, QueueTypeOK, LogTypeOK, Sides
<1>3. \A p \in Pulls : ~Out(p) /\ pull[p].lost = FALSE
    BY DEF QueueInit, IdlePull, Out
<1> QED
    BY <1>2, <1>3 DEF QueueInv, LogInv, ReservedOut, OneAgentPerCaller, NothingLostYet

\* No two pulls are out for the same caller, however many agents pull at once
\* and whatever becomes of their calls: the reservation sees to it as long as it
\* stands, and once it is given back the call, if Twilio took it all the same,
\* is marked as lost.
THEOREM NoSharedCaller == QueueSpec => []OneAgentPerCaller
<1>1. QueueInv => OneAgentPerCaller
    BY DEF QueueInv, LogInv
<1> QED
    BY <1>1, QueueStarts, QueueStep, PTL DEF QueueSpec

\* The types of Twilio's line, the log and the pulls.
THEOREM QueueTypeCorrect == QueueSpec => []QueueTypeOK
<1>1. QueueInv => QueueTypeOK
    BY DEF QueueInv
<1> QED
    BY <1>1, QueueStarts, QueueStep, PTL DEF QueueSpec
=============================================================================
