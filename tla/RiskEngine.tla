----------------------------- MODULE RiskEngine -----------------------------
(***************************************************************************)
(* The risk of one account (risk/service.py): signals that add up to a     *)
(* score, the suspension at one threshold and the review at a lower one,   *)
(* the staff's resolutions, and the step-ups an account earns.  A handler  *)
(* commits several times and locks neither the case nor the account: it    *)
(* goes by what it has read when it writes.                                *)
(***************************************************************************)
EXTENDS Naturals

CONSTANTS
    Signals,                \* signals that may be recorded, a bound
    Requests,               \* requests of staff, and step-ups, that may overlap
    Score,                  \* _decayed_score of every set of them
    AUTO_SUSPEND_THRESHOLD, REVIEW_THRESHOLD

\* The weights of get_signal_weight, decayed, summed up, rounded and capped: no
\* signal lowers the score.  (Staff set the weights, and the console takes none
\* below 0.)
ASSUME ScoreAssumption ==
    /\ Score \in [SUBSET Signals -> Nat]
    /\ Score[{}] = 0
    /\ \A W \in SUBSET Signals : \A V \in SUBSET W : Score[V] <= Score[W]
    /\ REVIEW_THRESHOLD \in Nat \ {0} /\ AUTO_SUSPEND_THRESHOLD \in Nat
    /\ REVIEW_THRESHOLD <= AUTO_SUSPEND_THRESHOLD

VARIABLES
    window,       \* the signals recorded in the trailing window
    handler,      \* how far the handler of each signal, and each request, is
    fraud_case,   \* the case each signal has opened
    risk_state,   \* of the account
    suspended,    \* whether its numbers are suspended by the system
    overruled,    \* history: staff have decided on the account since the last signal
    overwritten   \* history: an automatic transition has written over a later state

riskVars == <<window, handler, fraud_case, risk_state, suspended, overruled, overwritten>>

Rank == [TRIAL_LOW |-> 0, TRIAL_VERIFIED |-> 1, PAID_NORMAL |-> 2,
         REVIEW_REQUIRED |-> 3, SUSPENDED_FRAUD |-> 4]
States == DOMAIN Rank
Baseline == {"TRIAL_LOW", "TRIAL_VERIFIED", "PAID_NORMAL"}
Resolutions == {"confirmed", "cleared"}

\* The automatic transitions: after what step, to which state, and what follows.
Transitions ==
    [numbers   |-> [to |-> "SUSPENDED_FRAUD", next |-> "suspended"],
     opened    |-> [to |-> "REVIEW_REQUIRED", next |-> "done"],
     confirmed |-> [to |-> "SUSPENDED_FRAUD", next |-> "marked"],
     approved  |-> [to |-> "TRIAL_VERIFIED", next |-> "done"],
     purchased |-> [to |-> "PAID_NORMAL", next |-> "done"]]
Steps ==
    {"new", "recorded", "crossed", "suspended", "below", "unopened", "confirming", "clearing",
     "cleared", "marked", "done", "dead"} \cup DOMAIN Transitions

\* ahead: the handler has read a state that ranks lower than the one it moves to.
Handler == {j \in [step : Steps, ahead : BOOLEAN, cases : SUBSET Signals] :
           j.ahead => j.step \in DOMAIN Transitions}

RiskTypeOK ==
    /\ window \subseteq Signals
    /\ handler \in [Signals \cup Requests -> Handler]
    /\ fraud_case \in [Signals -> {"none", "open"} \cup Resolutions]
    /\ risk_state \in States
    /\ suspended \in BOOLEAN
    /\ overruled \in BOOLEAN
    /\ overwritten \in BOOLEAN

At(step) == [step |-> step, ahead |-> FALSE, cases |-> {}]

RiskInit ==
    /\ window = {}
    /\ handler = [a \in Signals \cup Requests |-> At(IF a \in Signals THEN "new" ELSE "done")]
    /\ fraud_case = [s \in Signals |-> "none"]
    /\ risk_state \in Baseline
    /\ suspended = FALSE
    /\ overruled = FALSE
    /\ overwritten = FALSE

\* A signal counts in full until it has aged out of the window.
compute_account_risk_score == Score[window]

OpenCases == {c \in Signals : fraud_case[c] = "open"}

Continues(a, now) == handler' = [handler EXCEPT ![a] = now]
Goes(a, from, to) == handler[a].step = from /\ Continues(a, At(to))
accountState == <<risk_state, suspended, overruled, overwritten>>

-----------------------------------------------------------------------------
(* The risk state of the account.                                          *)

Target(a) == Transitions[handler[a].step]

\* Reads the account and goes on to the write, or leaves a state as it is that
\* ranks no lower.
transition_risk_state(a) ==
    /\ handler[a].step \in DOMAIN Transitions
    /\ ~handler[a].ahead
    /\ Continues(a, IF Rank[Target(a).to] > Rank[risk_state]
                    THEN [handler[a] EXCEPT !.ahead = TRUE]
                    ELSE At(Target(a).next))
    /\ UNCHANGED <<window, fraud_case, accountState>>

\* _force_set_risk_state: the write compares nothing.
risk_state_written(a) ==
    /\ handler[a].ahead
    /\ risk_state' = Target(a).to
    /\ overwritten' = (\/ Rank[risk_state] > Rank[Target(a).to]
                       \/ overwritten /\ Target(a).to # "SUSPENDED_FRAUD")
    /\ Continues(a, At(Target(a).next))
    /\ UNCHANGED <<window, fraud_case, suspended, overruled>>

\* What staff decide is written over whatever there is.
ForceSet(states) ==
    /\ risk_state' \in states
    /\ overruled' = TRUE
    /\ overwritten' = FALSE

suspend_numbers_for_account_by_system(a) ==
    /\ Goes(a, "crossed", "numbers") \/ Goes(a, "marked", "done")
    /\ suspended' = TRUE
    /\ UNCHANGED <<window, fraud_case, risk_state, overruled, overwritten>>

-----------------------------------------------------------------------------
(* A signal.                                                               *)

\* One of the checks on a call, a login or a purchase fires; the signal is
\* committed before anything is made of it.
record_risk_signal(s) ==
    /\ Goes(s, "new", "recorded")
    /\ window' = window \cup {s}
    /\ overruled' = FALSE
    /\ UNCHANGED <<fraud_case, risk_state, suspended, overwritten>>

\* Mutant: the score as it was before this signal.
CrossedBefore(s) == Score[window \ {s}] >= AUTO_SUSPEND_THRESHOLD

Crossed(s) == compute_account_risk_score >= AUTO_SUSPEND_THRESHOLD

maybe_auto_suspend_for_risk(s) ==
    /\ Goes(s, "recorded", IF Crossed(s) THEN "crossed" ELSE "below")
    /\ UNCHANGED <<window, fraud_case, accountState>>

\* _auto_resolve_open_case_for_suspended_account: one of the open cases.
auto_resolve_open_case(s) ==
    /\ \/ OpenCases = {} /\ Goes(s, "suspended", "done")
       \/ /\ handler[s].step = "suspended"
          /\ \E c \in OpenCases : Continues(s, [At("confirming") EXCEPT !.cases = {c}])
    /\ UNCHANGED <<window, fraud_case, accountState>>

open_fraud_case_if_needed(s) ==
    /\ Goes(s, "below", IF compute_account_risk_score >= REVIEW_THRESHOLD /\ OpenCases = {}
                        THEN "unopened" ELSE "done")
    /\ UNCHANGED <<window, fraud_case, accountState>>

fraud_case_opened(s) ==
    /\ Goes(s, "unopened", "opened")
    /\ fraud_case' = [fraud_case EXCEPT ![s] = "open"]
    /\ UNCHANGED <<window, accountState>>

handler_dies(a) ==
    /\ handler[a].step \notin {"new", "done", "dead"}
    /\ Continues(a, At(IF a \in Signals THEN "dead" ELSE "done"))
    /\ UNCHANGED <<window, fraud_case, accountState>>

signal_ages(s) ==
    /\ s \in window
    /\ handler[s].step \in {"done", "dead"}
    /\ window' = window \ {s}
    /\ UNCHANGED <<handler, fraud_case, accountState>>

-----------------------------------------------------------------------------
(* The staff, and what an account earns.                                   *)

resolve_fraud_case(r, c, status) ==
    /\ handler[r].step = "done"
    /\ c \in OpenCases
    /\ Continues(r, [At(IF status = "confirmed" THEN "confirming" ELSE "clearing")
                      EXCEPT !.cases = {c}])
    /\ UNCHANGED <<window, fraud_case, accountState>>

CasesResolved(a, status) ==
    fraud_case' = [c \in Signals |-> IF c \in handler[a].cases THEN status ELSE fraud_case[c]]

\* Whoever has resolved the case meanwhile.
case_resolved(a) ==
    /\ \/ Goes(a, "confirming", "confirmed") /\ CasesResolved(a, "confirmed")
       \/ Goes(a, "clearing", "cleared") /\ CasesResolved(a, "cleared")
    /\ UNCHANGED <<window, accountState>>

reactivate_numbers_for_account_by_staff(r) ==
    /\ Goes(r, "done", "cleared")
    /\ suspended' = FALSE
    /\ overruled' = TRUE
    /\ UNCHANGED <<window, fraud_case, risk_state, overwritten>>

\* After a cleared case and after a reinstatement. The baseline is whatever
\* verification and purchases entitle the account to.
restore_risk_state(r) ==
    /\ Goes(r, "cleared", "done")
    /\ ForceSet(Baseline)
    /\ UNCHANGED <<window, fraud_case, suspended>>

set_account_risk_state(state) ==
    /\ ForceSet({state})
    /\ UNCHANGED <<window, handler, fraud_case, suspended>>

\* After a KYC approval; after a purchase or the change to a paid plan.
step_up_risk_state(r) ==
    /\ \E earned \in {"approved", "purchased"} : Goes(r, "done", earned)
    /\ UNCHANGED <<window, fraud_case, accountState>>

SignalStep(s) ==
    \/ record_risk_signal(s) \/ maybe_auto_suspend_for_risk(s)
    \/ auto_resolve_open_case(s) \/ open_fraud_case_if_needed(s) \/ fraud_case_opened(s)
    \/ signal_ages(s)

RequestStep(r) ==
    \/ \E c \in Signals, status \in Resolutions : resolve_fraud_case(r, c, status)
    \/ reactivate_numbers_for_account_by_staff(r) \/ restore_risk_state(r)
    \/ step_up_risk_state(r)

HandlerStep(a) ==
    \/ transition_risk_state(a) \/ risk_state_written(a)
    \/ suspend_numbers_for_account_by_system(a)
    \/ case_resolved(a) \/ handler_dies(a)

RiskNext ==
    \/ \E s \in Signals : SignalStep(s)
    \/ \E r \in Requests : RequestStep(r)
    \/ \E a \in Signals \cup Requests : HandlerStep(a)
    \/ \E state \in States : set_account_risk_state(state)

RiskSpec == RiskInit /\ [][RiskNext]_riskVars

-----------------------------------------------------------------------------
(* Properties.                                                             *)

SignalHandled == \A s \in Signals : handler[s].step \in {"new", "done"}

\* "Crossing the threshold suspends every active number on the account
\* immediately, without waiting for a human reviewer" (service.py on
\* maybe_auto_suspend_for_risk), also when it takes two signals at once, of
\* which neither would do, when cases are opened and resolved in between, and
\* when the account is stepping up: once every signal has been handled the
\* numbers of an account over the threshold are suspended, or staff have decided
\* otherwise since the last signal.  So is the account itself, unless a
\* transition that had read it earlier wrote its own, lower state afterwards.
ThresholdSuspends ==
    SignalHandled /\ ~overruled /\ compute_account_risk_score >= AUTO_SUSPEND_THRESHOLD
        => suspended /\ (risk_state = "SUSPENDED_FRAUD" \/ overwritten)
=============================================================================
