--------------------------- MODULE CircuitBreaker ---------------------------
(***************************************************************************)
(* The breaker that guards a provider (integrations/_shared/               *)
(* circuit_breaker.py), shared by the threads of one process.  Each of its *)
(* methods holds its lock; the call it guards does not, so that an answer  *)
(* may belong to a time when the breaker, and the provider, were in        *)
(* another state.                                                          *)
(***************************************************************************)
EXTENDS Naturals

CONSTANTS Threads, FAILURE_THRESHOLD

ASSUME ThresholdAssumption == FAILURE_THRESHOLD \in Nat \ {0}

VARIABLES
    breaker,  \* its state, its failure count, and whether it has been open
              \* for reset_timeout_seconds
    attempt,  \* per thread, the health of the primary that its call has met
    up        \* whether the primary is healthy

breakerVars == <<breaker, attempt, up>>

BreakerTypeOK ==
    /\ breaker \in [state : {"closed", "open", "half_open"},
                    failures : 0..FAILURE_THRESHOLD,
                    rested : BOOLEAN]
    /\ attempt \in [Threads -> SUBSET BOOLEAN]
    /\ up \in BOOLEAN

Closed == [state |-> "closed", failures |-> 0, rested |-> FALSE]

BreakerInit ==
    /\ breaker = Closed
    /\ attempt = [t \in Threads |-> {}]
    /\ up = TRUE

\* Reading the state of a breaker that has rested half-opens it.
Read == IF breaker.state = "open" /\ breaker.rested
        THEN [breaker EXCEPT !.state = "half_open"]
        ELSE breaker

\* Mutant: a success resets the count and leaves the state.
Forgiven == [breaker EXCEPT !.failures = 0]

record_success == Closed

\* The count goes on above the threshold in the code, where nothing asks.
record_failure ==
    IF breaker.failures + 1 >= FAILURE_THRESHOLD
    THEN [state |-> "open", failures |-> FAILURE_THRESHOLD, rested |-> FALSE]
    ELSE [breaker EXCEPT !.failures = @ + 1]

\* An open breaker sends the call to the secondary, or refuses it.
with_failover(t) ==
    /\ attempt[t] = {}
    /\ breaker' = Read
    /\ attempt' = [attempt EXCEPT ![t] = IF Read.state = "open" THEN {} ELSE {up}]
    /\ UNCHANGED up

\* The status page reads it too.
state_shown ==
    /\ breaker' = Read
    /\ UNCHANGED <<attempt, up>>

primary_answers(t) ==
    /\ TRUE \in attempt[t]
    /\ breaker' = record_success
    /\ attempt' = [attempt EXCEPT ![t] = {}]
    /\ UNCHANGED up

primary_fails(t) ==
    /\ FALSE \in attempt[t]
    /\ breaker' = record_failure
    /\ attempt' = [attempt EXCEPT ![t] = {}]
    /\ UNCHANGED up

\* An error that says nothing of the provider is raised as it is.
primary_refuses(t) ==
    /\ attempt[t] # {}
    /\ attempt' = [attempt EXCEPT ![t] = {}]
    /\ UNCHANGED <<breaker, up>>

breaker_rests ==
    /\ breaker.state = "open"
    /\ ~breaker.rested
    /\ breaker' = [breaker EXCEPT !.rested = TRUE]
    /\ UNCHANGED <<attempt, up>>

health_changes ==
    /\ up' = ~up
    /\ attempt' = [t \in Threads |-> IF attempt[t] = {} THEN {} ELSE attempt[t] \cup {up'}]
    /\ UNCHANGED breaker

BreakerNext ==
    \/ \E t \in Threads :
          \/ with_failover(t) \/ primary_answers(t)
          \/ primary_fails(t) \/ primary_refuses(t)
    \/ state_shown
    \/ breaker_rests
    \/ health_changes

BreakerSpec == BreakerInit /\ [][BreakerNext]_breakerVars

\* Calls end, and time passes. (And a healthy provider does not refuse every
\* request there is: strong fairness of primary_answers, in MCPlatform.)
BreakerFair ==
    /\ WF_breakerVars(\E t \in Threads :
          primary_answers(t) \/ primary_fails(t) \/ primary_refuses(t))
    /\ WF_breakerVars(breaker_rests)

\* Where the breaker is in use, its customers go on calling.
customers_call == \E t \in Threads : with_failover(t)

-----------------------------------------------------------------------------
(* Properties.                                                             *)

\* A primary that stays healthy is used again, whatever late failures the calls
\* begun before still report, and whichever thread half-opened the breaker
\* (CircuitBreaker.state: "rather than staying open forever with nothing to
\* signal recovery").
HealthyIsUsed == <>[]up => <>[](breaker.state = "closed")
=============================================================================
