------------------------------- MODULE Outbox -------------------------------
(***************************************************************************)
(* Durable events on their way (events/service.py, events/consumer.py,     *)
(* integrations/eventbus/kafka.py): a row of the outbox, written with the  *)
(* change it tells of, is published by the flushes of the daily job and of *)
(* staff, which lock nothing; the consumer copies the topic to event_log   *)
(* and starts again from its committed offset whenever it has died.        *)
(***************************************************************************)
EXTENDS Integers, Sequences

CONSTANTS
    Events,
    Flushers,
    MAX_ATTEMPTS,
    MaxMessages  \* bound on the topic

ASSUME AttemptsAssumption == MAX_ATTEMPTS \in Nat \ {0}
ASSUME MessagesAssumption == MaxMessages \in Nat

VARIABLES
    outbox,   \* EventOutbox.published_at: no row, none, set
    flush,    \* the rows each flush has read and not come to yet
    topic,    \* the messages of the account's partition
    offset,   \* how many of them the consumer group has committed
    reading,  \* how many the consumer has taken, and its attempts at the last
    event_log,
    buried    \* what went to the dead-letter topic, or was refused even there

outboxVars == <<outbox, flush, topic, offset, reading, event_log, buried>>

OutboxTypeOK ==
    /\ outbox \in [Events -> {"none", "pending", "published"}]
    /\ flush \in [Flushers -> SUBSET Events]
    /\ topic \in Seq(Events)
    /\ offset \in 0..MaxMessages
    /\ reading \in [taken : 0..MaxMessages, attempts : 0..MAX_ATTEMPTS]
    /\ event_log \subseteq Events
    /\ buried \subseteq Events

OutboxInit ==
    /\ outbox = [e \in Events |-> "none"]
    /\ flush = [f \in Flushers |-> {}]
    /\ topic = <<>>
    /\ offset = 0
    /\ reading = [taken |-> 0, attempts |-> 0]
    /\ event_log = {}
    /\ buried = {}

-----------------------------------------------------------------------------
(* The producer.                                                           *)

\* The caller commits; had it rolled back there would be no row.
publish_event_durably(e) ==
    /\ outbox[e] = "none"
    /\ outbox' = [outbox EXCEPT ![e] = "pending"]
    /\ UNCHANGED <<flush, topic, offset, reading, event_log, buried>>

flush_pending_outbox_events(f) ==
    /\ flush[f] = {}
    /\ flush' = [flush EXCEPT ![f] = {e \in Events : outbox[e] = "pending"}]
    /\ UNCHANGED <<outbox, topic, offset, reading, event_log, buried>>

\* Handed to Kafka's sender and committed as published: whether the broker
\* gets it shows later, and to nobody.
outbox_row_published(f, e) ==
    /\ e \in flush[f]
    /\ Len(topic) < MaxMessages
    /\ topic' \in {topic, Append(topic, e)}
    /\ outbox' = [outbox EXCEPT ![e] = "published"]
    /\ flush' = [flush EXCEPT ![f] = @ \ {e}]
    /\ UNCHANGED <<offset, reading, event_log, buried>>

outbox_row_fails(f, e) ==
    /\ e \in flush[f]
    /\ flush' = [flush EXCEPT ![f] = @ \ {e}]
    /\ UNCHANGED <<outbox, topic, offset, reading, event_log, buried>>

\* Perhaps between the broker's getting it and the commit.
flush_dies(f, e) ==
    /\ e \in flush[f]
    /\ Len(topic) < MaxMessages
    /\ topic' \in {topic, Append(topic, e)}
    /\ flush' = [flush EXCEPT ![f] = {}]
    /\ UNCHANGED <<outbox, offset, reading, event_log, buried>>

-----------------------------------------------------------------------------
(* The consumer.                                                           *)

Current == topic[reading.taken]
Busy == reading.taken > offset

take_message ==
    /\ ~Busy
    /\ reading.taken < Len(topic)
    /\ reading' = [taken |-> reading.taken + 1, attempts |-> 0]
    /\ UNCHANGED <<outbox, flush, topic, offset, event_log, buried>>

Handled == reading.attempts = MAX_ATTEMPTS \/ Current \in event_log

persist_event ==
    /\ Busy
    /\ reading.attempts < MAX_ATTEMPTS
    /\ event_log' = event_log \cup {Current}
    /\ UNCHANGED <<outbox, flush, topic, offset, reading, buried>>

\* The last of the attempts sends it to the dead-letter topic, or, when that
\* fails too, to an error in the log of the process.
persist_fails ==
    /\ Busy
    /\ Current \notin event_log
    /\ reading.attempts < MAX_ATTEMPTS
    /\ reading' = [reading EXCEPT !.attempts = @ + 1]
    /\ buried' = IF reading.attempts + 1 = MAX_ATTEMPTS THEN buried \cup {Current} ELSE buried
    /\ UNCHANGED <<outbox, flush, topic, offset, event_log>>

\* Mutant: enable_auto_commit.
MayCommitTaken == Busy

MayCommit == Busy /\ Handled

commit_offset ==
    /\ MayCommit
    /\ offset' = reading.taken
    /\ UNCHANGED <<outbox, flush, topic, reading, event_log, buried>>

\* Or the group is rebalanced.
consumer_restarts ==
    /\ reading.taken > 0
    /\ reading' = [taken |-> offset, attempts |-> 0]
    /\ UNCHANGED <<outbox, flush, topic, offset, event_log, buried>>

OutboxNext ==
    \/ \E e \in Events : publish_event_durably(e)
    \/ \E f \in Flushers :
          \/ flush_pending_outbox_events(f)
          \/ \E e \in Events :
                outbox_row_published(f, e) \/ outbox_row_fails(f, e) \/ flush_dies(f, e)
    \/ take_message \/ persist_event \/ persist_fails \/ commit_offset \/ consumer_restarts

OutboxSpec == OutboxInit /\ [][OutboxNext]_outboxVars

-----------------------------------------------------------------------------
(* Properties.                                                             *)

\* An event is not skipped: what the committed offset has passed is in the
\* event log or was given up after MAX_ATTEMPTS ("a crash before this point
\* redelivers the message on restart instead of silently skipping it",
\* consumer.py), wherever the consumer dies and however often flushes that
\* overlap publish the same row.
NothingSkipped ==
    \A i \in 1..offset : topic[i] \in event_log \cup buried
=============================================================================
