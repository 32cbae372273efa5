---------------------------- MODULE Subscription ----------------------------
(***************************************************************************)
(* The subscription of one account (billing/service.py), the Stripe        *)
(* subscriptions and events behind it, and the handlers that change it.    *)
(*                                                                         *)
(* None of the handlers locks the row.  Each reads it in one step and      *)
(* commits what it changes in another, of which SQLAlchemy writes the      *)
(* columns that differ from those read; one that commits twice or calls    *)
(* Stripe is split there as well.  Any other handler may run in between.   *)
(***************************************************************************)
EXTENDS Integers

CONSTANTS
    Plans,      \* plans, as their sort_order
    Default,    \* DEFAULT_PLAN_CODE: the plan of a new account
    Month, Year, Grace, Trial,  \* lengths of time, in ticks
    Horizon,    \* bound on the clock
    Checkouts,  \* Checkout Sessions, each with the Stripe subscription it pays
    OrderOf,    \* the plan and the period each session is for
    Notices,    \* ids of Stripe's payment events
    Workers,    \* the processes handling requests and webhooks
    Faults,     \* "crash": a worker dies; "zoikonex": ZoikoNex payment events
    None

ASSUME PlansAssumption == Plans \subseteq Nat /\ Default \in Plans
ASSUME TimesAssumption ==
    /\ Month \in Nat /\ Year \in Nat /\ Grace \in Nat /\ Trial \in Nat
    /\ Horizon \in Nat
ASSUME NoneAssumption == None \notin Checkouts \cup Nat \cup {"monthly", "annual"}
ASSUME OrdersAssumption ==
    OrderOf \in [Checkouts -> [plan : Plans, period : {"monthly", "annual"}]]
ASSUME FaultsAssumption == Faults \subseteq {"crash", "zoikonex"}

VARIABLES
    now,        \* the database clock
    sub,        \* the row of subscriptions
    checkout,   \* each session: paid at Stripe? its record COMPLETED?
    live,       \* is the session's Stripe subscription charging?
    mail,       \* payment events sent by Stripe: delivered in any order, often
    handled,    \* those that have been applied at least once
    job,        \* the handler each worker is in the middle of
    alerted,    \* Stripe subscriptions staff was told to cancel by hand
    calm        \* no handler has died, and none has begun amid another of several steps

vars == <<now, sub, checkout, live, mail, handled, job, alerted, calm>>

-----------------------------------------------------------------------------
Periods == {"monthly", "annual"}
Length(period) == IF period = "annual" THEN Year ELSE Month

Order  == [plan : Plans, period : Periods]
Ended  == {"CANCELED", "TERMINATED"}
Status == {"NONE", "TRIALING", "ACTIVE", "PAST_DUE"} \cup Ended

\* status is NONE while there is no row; end is current_period_end, grace
\* grace_period_ends_at; splan, speriod and due are the three scheduled_*.
Row == [status : Status, plan : Plans, period : Periods, end : Nat,
        trial : Nat \cup {None}, grace : Nat \cup {None},
        splan : Plans \cup {None}, speriod : Periods \cup {None}, due : Nat \cup {None},
        stripe : Checkouts \cup {None}]

Notice == [id : Notices, about : Checkouts,
           type : {"payment_failed", "payment_restored"}]

\* What a handler is about that has read the row and not committed yet.
Reading == {"update", "zoikonex", "paying"}

\* read: the row as the handler read it; new: as it is to be; event: the payment
\* event it applies.  c: the checkout it completes; prev: the one it supersedes.
Idle == [op |-> "idle"]
Job ==
    {Idle}
    \cup [op : {"update", "zoikonex"}, read : Row, new : Row, event : Notice \cup {None}]
    \cup [op : {"paying"}, read : Row, new : Row, c : Checkouts]
    \cup [op : {"applied"}, c : Checkouts, prev : Checkouts \cup {None}]
    \cup [op : {"handover"}, prev : Checkouts]

TypeOK ==
    /\ now \in 0..Horizon
    /\ sub \in Row
    /\ checkout \in [Checkouts -> {"none", "open", "paid", "completed"}]
    /\ live \in [Checkouts -> {"no", "yes", "ended"}]
    /\ mail \subseteq Notice
    /\ handled \subseteq mail
    /\ job \in [Workers -> Job]
    /\ alerted \subseteq Checkouts
    /\ calm \in BOOLEAN

NoRow == [status |-> "NONE", plan |-> Default, period |-> "monthly", end |-> 0,
          trial |-> None, grace |-> None,
          splan |-> None, speriod |-> None, due |-> None, stripe |-> None]

Init ==
    /\ now = 0
    /\ sub = NoRow
    /\ checkout = [c \in Checkouts |-> "none"]
    /\ live = [c \in Checkouts |-> "no"]
    /\ mail = {}
    /\ handled = {}
    /\ job = [w \in Workers |-> Idle]
    /\ alerted = {}
    /\ calm = TRUE

-----------------------------------------------------------------------------
(* What a handler does to the row.                                         *)

Begin(w, j) ==
    /\ job[w] = Idle
    /\ job' = [job EXCEPT ![w] = j]
    /\ calm' = (calm /\ \A v \in Workers : job[v] = Idle)

\* The handler reads the row and will commit it as new.
Update(w, new, event) ==
    /\ Begin(w, [op |-> "update", read |-> sub, new |-> new, event |-> event])
    /\ UNCHANGED <<now, sub, checkout, mail, handled, alerted>>

\* What the UPDATE leaves in the row s.
Merged(j, s) ==
    [column \in DOMAIN s |-> IF j.new[column] = j.read[column] THEN s[column]
                             ELSE j.new[column]]

\* account_id is unique: of two handlers that create the row one fails.
Commit(j) ==
    sub' = IF j.read.status = "NONE" /\ sub.status # "NONE" THEN sub ELSE Merged(j, sub)

Done(w) == job' = [job EXCEPT ![w] = Idle]

update_commits(w) ==
    LET j == job[w] IN
    /\ j.op \in {"update", "zoikonex"}
    /\ Commit(j)
    /\ handled' = handled \cup ({j.event} \ {None})
    /\ Done(w)
    /\ UNCHANGED <<now, checkout, live, mail, alerted, calm>>

-----------------------------------------------------------------------------
(* get_or_create_subscription: what a request does first.                  *)

Created(s) ==
    IF s.status # "NONE" THEN s
    ELSE [s EXCEPT !.status = IF Trial > 0 THEN "TRIALING" ELSE "ACTIVE",
                   !.trial = IF Trial > 0 THEN now + Trial ELSE None,
                   !.end = now + Month]

Unscheduled(s) == [s EXCEPT !.splan = None, !.speriod = None, !.due = None]

IsDue(s) == s.splan # None /\ s.due # None /\ s.due <= now

Downgraded(s) ==
    IF ~IsDue(s) THEN s
    ELSE [Unscheduled(s) EXCEPT !.plan = s.splan,
                                !.period = IF s.speriod = None THEN @ ELSE s.speriod]

RolledOver(s) ==
    IF s.end < now THEN [s EXCEPT !.end = now + Length(s.period)] ELSE s

TrialOver(s) ==
    IF s.status = "TRIALING" /\ s.trial # None /\ s.trial < now
    THEN [s EXCEPT !.status = "ACTIVE"] ELSE s

\* A row just created is returned as it is; on it the rest changes nothing.
Current(s) == TrialOver(RolledOver(Downgraded(Created(s))))

get_or_create_subscription(w) ==
    /\ Current(sub) # sub
    /\ Update(w, Current(sub), None)
    /\ UNCHANGED live

\* It returns the row once nothing is left to do.
Returned == Current(sub) = sub

-----------------------------------------------------------------------------
(* Plan changes.                                                           *)

WithPeriod(s, period) ==
    IF s.period = period THEN s
    ELSE [s EXCEPT !.period = period, !.end = now + Length(period)]

Chosen(s, o) ==
    LET r == [WithPeriod(s, o.period) EXCEPT !.plan = o.plan] IN
    IF s.status = "TRIALING" THEN [r EXCEPT !.status = "ACTIVE", !.trial = None] ELSE r

\* Staff and internal use, and confirm_plan_change towards a higher plan.
change_plan(w, o) ==
    /\ Returned
    /\ Update(w, Chosen(sub, o), None)
    /\ UNCHANGED live

confirm_plan_change(w, o) ==
    /\ Returned
    /\ o.plan < sub.plan
    /\ Update(w, [sub EXCEPT !.splan = o.plan, !.speriod = o.period, !.due = sub.end], None)
    /\ UNCHANGED live

cancel_scheduled_plan_change(w) ==
    /\ Returned
    /\ sub.splan # None
    /\ Update(w, Unscheduled(sub), None)
    /\ UNCHANGED live

\* Stripe changes the price of the subscription on the row; then change_plan
\* finds the row in the session as it was read.  A refusal changes nothing.
apply_plan_change_with_proration(w, o) ==
    /\ Returned
    /\ sub.stripe # None
    /\ live[sub.stripe] = "yes"
    /\ Update(w, Chosen(sub, o), None)
    /\ UNCHANGED live

-----------------------------------------------------------------------------
(* Checkout Sessions.                                                      *)

create_plan_change_checkout_session(c) ==
    /\ checkout[c] = "none"
    /\ checkout' = [checkout EXCEPT ![c] = "open"]
    /\ UNCHANGED <<now, sub, live, mail, handled, job, alerted, calm>>

Paying(w, c) ==
    Begin(w, [op |-> "paying", read |-> sub, new |-> Chosen(sub, OrderOf[c]), c |-> c])

\* Mutant: the record is COMPLETED before the plan is changed.
completed_before_the_plan(w, c) ==
    /\ Returned
    /\ checkout[c] = "paid"
    /\ checkout' = [checkout EXCEPT ![c] = "completed"]
    /\ Paying(w, c)
    /\ UNCHANGED <<now, sub, live, mail, handled, alerted>>

\* A record already COMPLETED is only read: get_or_create_subscription.
handle_stripe_checkout_completed(w, c) ==
    /\ Returned
    /\ checkout[c] = "paid"
    /\ Paying(w, c)
    /\ UNCHANGED <<now, sub, checkout, live, mail, handled, alerted>>

\* The first commit, change_plan's own.
checkout_applied(w) ==
    LET j == job[w] IN
    /\ j.op = "paying"
    /\ Commit(j)
    /\ job' = [job EXCEPT ![w] = [op |-> "applied", c |-> j.c, prev |-> j.read.stripe]]
    /\ UNCHANGED <<now, checkout, live, mail, handled, alerted, calm>>

\* Mutant: the superseded Stripe subscription is forgotten.
checkout_recorded_without_handover(w) ==
    LET j == job[w] IN
    /\ j.op = "applied"
    /\ sub' = [sub EXCEPT !.stripe = j.c]
    /\ checkout' = [checkout EXCEPT ![j.c] = "completed"]
    /\ Done(w)
    /\ UNCHANGED <<now, live, mail, handled, alerted, calm>>

\* Mutant: a first checkout supersedes as well.
checkout_recorded_always_supersedes(w) ==
    LET j == job[w] IN
    /\ j.op = "applied"
    /\ sub' = [sub EXCEPT !.stripe = j.c]
    /\ checkout' = [checkout EXCEPT ![j.c] = "completed"]
    /\ job' = [job EXCEPT ![w] = [op |-> "handover", prev |-> j.prev]]
    /\ UNCHANGED <<now, live, mail, handled, alerted, calm>>

\* The second commit, on the row read again: the Stripe subscription, and the
\* record COMPLETED.
checkout_recorded(w) ==
    LET j == job[w] IN
    /\ j.op = "applied"
    /\ sub' = [sub EXCEPT !.stripe = j.c]
    /\ checkout' = [checkout EXCEPT ![j.c] = "completed"]
    /\ job' = [job EXCEPT ![w] = IF j.prev \in {None, j.c} THEN Idle
                                 ELSE [op |-> "handover", prev |-> j.prev]]
    /\ UNCHANGED <<now, live, mail, handled, alerted, calm>>

checkout_supersedes(w) ==
    /\ job[w].op = "handover"
    /\ live[job[w].prev] = "yes"
    /\ live' = [live EXCEPT ![job[w].prev] = "ended"]
    /\ Done(w)
    /\ UNCHANGED <<now, sub, checkout, mail, handled, alerted, calm>>

checkout_supersede_fails(w) ==
    /\ job[w].op = "handover"
    /\ alerted' = alerted \cup {job[w].prev}
    /\ Done(w)
    /\ UNCHANGED <<now, sub, checkout, live, mail, handled, calm>>

-----------------------------------------------------------------------------
(* Cancellation and termination.                                           *)

cancel_subscription(w) ==
    /\ Returned
    /\ sub.status # "CANCELED"
    /\ sub.stripe = None
    /\ Update(w, [sub EXCEPT !.status = "CANCELED"], None)
    /\ UNCHANGED live

\* Mutant: Stripe is not told.
cancel_locally(w) ==
    /\ Returned
    /\ sub.status # "CANCELED"
    /\ sub.stripe # None
    /\ Update(w, [sub EXCEPT !.status = "CANCELED"], None)
    /\ UNCHANGED live

\* Stripe first; its refusal, also of a subscription it has ended, is raised.
cancel_at_stripe(w) ==
    /\ Returned
    /\ sub.status # "CANCELED"
    /\ sub.stripe # None
    /\ live[sub.stripe] = "yes"
    /\ live' = [live EXCEPT ![sub.stripe] = "ended"]
    /\ Update(w, [sub EXCEPT !.status = "CANCELED"], None)

\* The release of the numbers that follows is in NumberLifecycle.
terminate_subscription(w) ==
    /\ Returned
    /\ sub.status \in {"CANCELED", "PAST_DUE"}
    /\ Update(w, [sub EXCEPT !.status = "TERMINATED"], None)
    /\ UNCHANGED live

-----------------------------------------------------------------------------
(* Payment events.                                                         *)

Applied(s, type) ==
    IF type = "payment_failed"
    THEN [s EXCEPT !.status = "PAST_DUE", !.grace = now + Grace]
    ELSE [s EXCEPT !.status = "ACTIVE", !.grace = None]

\* Mutant: an event that comes after the end is applied as well.
LateWebhook(e) == e \in mail /\ e.about = sub.stripe

Deliverable(e) ==
    /\ e \in mail
    /\ e.about = sub.stripe
    /\ sub.status \notin Ended

\* _apply_payment_event looks for a delivery with the key of the event, and no
\* delivery is ever stored with one: a redelivered event is applied again.
handle_stripe_subscription_payment_webhook(w, e) ==
    /\ Deliverable(e)
    /\ Update(w, Applied(sub, e.type), e)
    /\ UNCHANGED live

handle_stripe_subscription_deleted_webhook(w) ==
    /\ sub.stripe # None
    /\ live[sub.stripe] = "ended"
    /\ sub.status # "CANCELED"
    /\ Update(w, [sub EXCEPT !.status = "CANCELED"], None)
    /\ UNCHANGED live

handle_zoikonex_payment_webhook(w, type) ==
    /\ "zoikonex" \in Faults
    /\ sub.status # "NONE"
    /\ Begin(w, [op |-> "zoikonex", read |-> sub, new |-> Applied(sub, type), event |-> None])
    /\ UNCHANGED <<now, sub, checkout, live, mail, handled, alerted>>

-----------------------------------------------------------------------------
(* Stripe, the customer's card, time and crashes.                          *)

customer_pays(c) ==
    /\ checkout[c] = "open"
    /\ checkout' = [checkout EXCEPT ![c] = "paid"]
    /\ live' = [live EXCEPT ![c] = "yes"]
    /\ UNCHANGED <<now, sub, mail, handled, job, alerted, calm>>

renewal_charged(e) ==
    /\ live[e.about] = "yes"
    /\ \A f \in mail : f.id # e.id
    /\ mail' = mail \cup {e}
    /\ UNCHANGED <<now, sub, checkout, live, handled, job, alerted, calm>>

\* Smart Retries exhausted, or ended in Stripe's dashboard.
stripe_ends(c) ==
    /\ live[c] = "yes"
    /\ live' = [live EXCEPT ![c] = "ended"]
    /\ UNCHANGED <<now, sub, checkout, mail, handled, job, alerted, calm>>

tick ==
    /\ now < Horizon
    /\ now' = now + 1
    /\ UNCHANGED <<sub, checkout, live, mail, handled, job, alerted, calm>>

worker_dies(w) ==
    /\ "crash" \in Faults
    /\ job[w] # Idle
    /\ Done(w)
    /\ calm' = FALSE
    /\ UNCHANGED <<now, sub, checkout, live, mail, handled, alerted>>

-----------------------------------------------------------------------------
Resume(w) ==
    \/ update_commits(w) \/ checkout_applied(w)
    \/ checkout_recorded(w) \/ checkout_supersedes(w) \/ checkout_supersede_fails(w)

\* A request or a webhook that worker w takes up.
TakeUp(w) ==
    \/ get_or_create_subscription(w) \/ cancel_scheduled_plan_change(w)
    \/ cancel_subscription(w) \/ cancel_at_stripe(w) \/ terminate_subscription(w)
    \/ handle_stripe_subscription_deleted_webhook(w)
    \/ \E o \in Order : \/ change_plan(w, o) \/ confirm_plan_change(w, o)
                        \/ apply_plan_change_with_proration(w, o)
    \/ \E c \in Checkouts : handle_stripe_checkout_completed(w, c)
    \/ \E e \in Notice : handle_stripe_subscription_payment_webhook(w, e)
    \/ \E type \in {"payment_failed", "payment_restored"} :
          handle_zoikonex_payment_webhook(w, type)

Next ==
    \/ \E w \in Workers : TakeUp(w) \/ Resume(w) \/ worker_dies(w)
    \/ \E c \in Checkouts : \/ create_plan_change_checkout_session(c)
                            \/ customer_pays(c)
                            \/ stripe_ends(c)
    \/ \E e \in Notice : renewal_charged(e)
    \/ tick

Spec == Init /\ [][Next]_vars

\* A worker goes on unless it dies; Stripe redelivers checkout.session.completed
\* until it is acknowledged, so that no step towards that is cut short for ever.
FairSpec ==
    /\ Spec
    /\ \A w \in Workers : WF_vars(Resume(w))
    /\ SF_vars(\E w \in Workers : get_or_create_subscription(w))
    /\ SF_vars(\E w \in Workers : update_commits(w))
    /\ \A c \in Checkouts :
          /\ SF_vars(\E w \in Workers : handle_stripe_checkout_completed(w, c))
          /\ SF_vars(\E w \in Workers : checkout_applied(w) /\ job[w].c = c)
          /\ SF_vars(\E w \in Workers : checkout_recorded(w) /\ job[w].c = c)

-----------------------------------------------------------------------------
(* Properties.                                                             *)

\* A handler that is about to commit over a row another has changed since.
Stale(w) == job[w].op \in Reading /\ job[w].read # sub

\* The steps the status may take, and no others, when a handler commits on the
\* row it has read: late, duplicated or reordered Stripe events never bring a
\* canceled or terminated subscription back
\* (handle_stripe_subscription_payment_webhook), and only a canceled or past due
\* account is terminated.  What ZoikoNex reports is taken as it is.  And
\* whatever runs beside it, no handler puts an account back on trial.
Flow == {<<"NONE", "TRIALING">>, <<"NONE", "ACTIVE">>,
         <<"TRIALING", "ACTIVE">>, <<"TRIALING", "CANCELED">>,
         <<"ACTIVE", "PAST_DUE">>, <<"ACTIVE", "CANCELED">>,
         <<"PAST_DUE", "ACTIVE">>, <<"PAST_DUE", "CANCELED">>,
         <<"PAST_DUE", "TERMINATED">>, <<"CANCELED", "TERMINATED">>,
         <<"TERMINATED", "CANCELED">>}
StatusFlow ==
    [][/\ (\A w \in Workers : job'[w] # job[w] => ~Stale(w) /\ job[w].op # "zoikonex") =>
             sub'.status = sub.status \/ <<sub.status, sub'.status>> \in Flow
       /\ sub'.status = "TRIALING" => sub.status \in {"NONE", "TRIALING"}]_vars

\* As long as handlers run one after the other and none dies, Stripe charges
\* the account for the subscription on its row and for no other, except a paid
\* session still to be processed, the one being superseded, and those staff
\* was told to cancel by hand (handle_stripe_checkout_completed).
OneBiller ==
    calm => \A c \in Checkouts : live[c] = "yes" =>
        \/ c = sub.stripe
        \/ checkout[c] = "paid"
        \/ c \in alerted
        \/ \E w \in Workers : job[w] = [op |-> "handover", prev |-> c]

\* A handler that commits on the row it has read sets it CANCELED only when
\* Stripe no longer charges for the subscription on it, whatever runs or dies
\* beside it (cancel_subscription: "canceled FIRST, before any local state
\* changes").
CancelEndsCharging ==
    [][(\A w \in Workers : job'[w] # job[w] => ~Stale(w)) /\
       sub.status # "CANCELED" /\ sub'.status = "CANCELED" =>
          \A c \in {sub.stripe} \ {None} : live[c] # "yes"]_vars

\* A session the customer paid for is honoured, whatever runs or dies beside
\* it: the plan is changed, the Stripe subscription recorded and only then the
\* session done with (handle_stripe_checkout_completed: not "permanently stuck
\* as "done" with the plan never actually changed").
PaidIsHonoured ==
    \A c \in Checkouts :
        checkout[c] = "paid" ~> checkout[c] = "completed" /\ sub.stripe = c

\* What the properties above rest on.  A row that has left its trial stays out
\* of it, and so does one with a Stripe subscription or about to have one.
PastTrial(s) == s.status \notin {"NONE", "TRIALING"}
TrialsEnd ==
    /\ sub.stripe # None => PastTrial(sub)
    /\ \A w \in Workers :
          /\ job[w].op = "applied" => PastTrial(sub)
          /\ job[w].op \in Reading =>
                /\ PastTrial(job[w].read) => PastTrial(sub)
                /\ job[w].new.status # "NONE"
                /\ job[w].new.status = "TRIALING" => ~PastTrial(job[w].read)
                /\ job[w].op = "paying" =>
                      PastTrial(job[w].new) /\ job[w].read.status # "NONE"

\* The steps that handlers have in mind are those of Flow, they leave the
\* Stripe subscription alone, and before CANCELED Stripe has been told.
Intended ==
    \A w \in Workers : job[w].op \in Reading =>
        LET r == job[w].read
            n == job[w].new IN
        /\ n.stripe = r.stripe
        /\ job[w].op = "zoikonex" \/ n.status = r.status \/ <<r.status, n.status>> \in Flow
        /\ n.status = "CANCELED" /\ r.status # "CANCELED" =>
              r.stripe = None \/ live[r.stripe] = "ended"

\* Stripe subscriptions begin, and sessions are recorded, with the payment; and
\* events that are being applied were sent.
PaidFor ==
    /\ \A c \in Checkouts : live[c] # "no" => checkout[c] \in {"paid", "completed"}
    /\ sub.stripe # None => checkout[sub.stripe] = "completed"
    /\ \A w \in Workers :
          /\ job[w].op \in {"paying", "applied"} => checkout[job[w].c] \in {"paid", "completed"}
          /\ job[w].op \in {"update", "zoikonex"} => job[w].event \in mail \cup {None}

\* As long as calm holds one handler at a time has the row as it read it.
Alone ==
    calm => \A v, w \in Workers : job[v] # Idle /\ job[w] # Idle => v = w
AsRead ==
    calm => \A w \in Workers :
        /\ job[w].op \in Reading => job[w].read = sub
        /\ job[w].op = "applied" => job[w].prev = sub.stripe

IndInv ==
    /\ TrialsEnd
    /\ Intended
    /\ PaidFor
    /\ Alone
    /\ AsRead
    /\ OneBiller

\* "So the customer isn't shown "canceled" while Stripe silently keeps charging
\* their card" (cancel_subscription), and a canceled account that pays for a
\* plan resumes (assert_billing_not_suspended: "resubscribe (change plan)").
CanceledIsNotCharged ==
    sub.status = "CANCELED" =>
        \A c \in Checkouts : c = sub.stripe => live[c] # "yes"

\* "If a delivery already exists for this exact key, this exact event was
\* already fully applied" (_apply_payment_event): only a failed payment that
\* was not applied before starts a grace period.
GraceStartsOnce ==
    [][sub'.grace # sub.grace /\ sub'.grace # None =>
          \E e \in handled' \ handled : e.type = "payment_failed"]_vars

\* A confirmed downgrade waits for "the end of the current paid period"
\* (confirm_plan_change).
DowngradeAtPeriodEnd ==
    [][sub.splan # None /\ sub'.splan = None /\ sub'.plan < sub.plan =>
          sub.end <= now]_vars
=============================================================================
