-------------------------- MODULE NumberLifecycle --------------------------
(***************************************************************************)
(* The life of a phone number: numbering/numbers/service.py.               *)
(*                                                                         *)
(* One row of phone_numbers per number, the row lock taken by SELECT ...   *)
(* FOR UPDATE, the telecom provider's own record of who holds the number,  *)
(* and the requests that act on it.  A step of a request is what it does   *)
(* between two commits (or between a commit and a provider call): the      *)
(* database is READ COMMITTED, and audit.log_event commits the caller's    *)
(* session, so nothing wider than that is atomic.                          *)
(***************************************************************************)
CONSTANTS
    Accounts,   \* customer accounts
    Numbers,    \* E.164 numbers
    Requests,   \* worker threads serving customer and staff requests
    Faults,     \* what the environment may do; see AllFaults
    None        \* no account, no number, no lock holder

(***************************************************************************)
(* crash           a worker dies between two steps of its request          *)
(* lost_reply      the provider sells or releases the number, the answer   *)
(*                 is lost and the code sees a TelecomError                *)
(* slow_buy        a provider call outlasts STUCK_PROVISIONING_THRESHOLD   *)
(* double_checkout a checkout runs beside another purchase of its number   *)
(* lazy_commit     the eligibility check commits (the lazy rollover in     *)
(*                 billing.get_or_create_subscription, or the opening of   *)
(*                 the number's eligibility case), losing the lock         *)
(***************************************************************************)
AllFaults == {"crash", "lost_reply", "slow_buy", "double_checkout", "lazy_commit"}

ASSUME FaultsAssumption == Faults \subseteq AllFaults
ASSUME NoneAssumption == None \notin Accounts \cup Requests \cup Numbers
ASSUME HoldersAssumption == Accounts \cap Requests = {}

VARIABLES
    (* the phone_numbers row of each number *)
    status,     \* "UNLISTED" when there is no row
    account,    \* account_id
    until,      \* reserved_until: in the future, in the past, or NULL
    by,         \* suspended_by
    age,        \* is provisioning_started_at (in flight) or cancelled_at
                \* (cancelled) within its threshold ("fresh") or not ("old")?
    (* the rest of the world *)
    held,       \* does the provider count the number as the platform's own?
    lock,       \* holder of the row lock: a request, a teardown's account, or None
    pc, req,    \* what each worker is doing, and for which account and number
    tear,       \* each account's teardown: numbers still to release, and those
                \* released but not yet committed as CANCELLED
    faultless   \* history: nobody has died and no answer was lost so far

rowVars == <<status, account, until, by, age>>
reqVars == <<pc, req>>
vars == <<rowVars, held, lock, reqVars, tear, faultless>>

-----------------------------------------------------------------------------
InFlight == {"PURCHASE_PENDING", "PROVISIONING"}
Served   == {"ACTIVE", "SUSPENDED"}
Ordered  == {"RESERVED", "COMPLIANCE_PENDING"}
Status   == {"UNLISTED", "CANCELLED"} \cup Ordered \cup InFlight \cup Served

\* A request past its PURCHASE_PENDING commit, and a request buying at all.
BuyingPc   == {"pending", "buying", "bought", "refused"}
PurchasePc == {"checkout", "eligible"} \cup BuyingPc
CancelPc   == {"cancelling", "released"}

\* seen: the row as a checkout's session first loaded it; "db" when the
\* session holds no stale copy and the next query reads the database.
Request == [acct : Accounts \cup {None},
            num  : Numbers \cup {None},
            seen : {"db", "live", "over", "open"}]

NoRequest == [acct |-> None, num |-> None, seen |-> "db"]

TypeOK ==
    /\ status  \in [Numbers -> Status]
    /\ account \in [Numbers -> Accounts \cup {None}]
    /\ until   \in [Numbers -> {"live", "over", "unset"}]
    /\ by      \in [Numbers -> {"none", "customer", "system"}]
    /\ age     \in [Numbers -> {"fresh", "old"}]
    /\ held    \in [Numbers -> BOOLEAN]
    /\ lock    \in [Numbers -> Requests \cup Accounts \cup {None}]
    /\ pc      \in [Requests -> {"idle"} \cup PurchasePc \cup CancelPc]
    /\ req     \in [Requests -> Request]
    /\ tear    \in [Accounts -> [todo : SUBSET Numbers, done : SUBSET Numbers]]
    /\ faultless \in BOOLEAN

Init ==
    /\ status  = [n \in Numbers |-> "UNLISTED"]
    /\ account = [n \in Numbers |-> None]
    /\ until   = [n \in Numbers |-> "unset"]
    /\ by      = [n \in Numbers |-> "none"]
    /\ age     = [n \in Numbers |-> "fresh"]
    /\ held    = [n \in Numbers |-> FALSE]
    /\ lock    = [n \in Numbers |-> None]
    /\ pc      = [r \in Requests |-> "idle"]
    /\ req     = [r \in Requests |-> NoRequest]
    /\ tear    = [a \in Accounts |-> [todo |-> {}, done |-> {}]]
    /\ faultless = TRUE

-----------------------------------------------------------------------------
(* Shared guards and updates.                                              *)

Free(n) == lock[n] = None

\* A write waits for any other holder of the row lock.
Writable(n, holder) == lock[n] \in {None, holder}

\* Mutant: a commit that keeps its row lock.
StillLocked(n, holder) == lock

\* The lock a request holds is dropped by its commit or rollback.
Unlocked(n, holder) == [lock EXCEPT ![n] = IF @ = holder THEN None ELSE @]

\* What the session of a request or a teardown held when it ended.
AllUnlocked(holder) == [n \in Numbers |-> IF lock[n] = holder THEN None ELSE lock[n]]

Buying(r, n)     == req[r].num = n /\ pc[r] \in BuyingPc
Purchasing(r, n) == req[r].num = n /\ pc[r] \in PurchasePc

\* Mutant: a purchase may be started again while one is in flight.
PurchasableInFlight(a, n) ==
    /\ account[n] = a
    /\ status[n] \in Ordered \cup InFlight

Purchasable(a, n) ==
    /\ account[n] = a
    /\ \/ status[n] = "COMPLIANCE_PENDING"
       \/ status[n] = "RESERVED" /\ until[n] # "over"

SetStatus(n, s) == status' = [status EXCEPT ![n] = s]
SetAge(n, d)    == age' = [age EXCEPT ![n] = d]

\* The session writes only an attribute that differs from its own copy.
HoldForCompliance(r, n) ==
    status' = IF req[r].seen = "open" THEN status
              ELSE [status EXCEPT ![n] = "COMPLIANCE_PENDING"]

Begin(r, at, a, n, seen) ==
    /\ pc[r] = "idle"
    /\ pc' = [pc EXCEPT ![r] = at]
    /\ req' = [req EXCEPT ![r] = [acct |-> a, num |-> n, seen |-> seen]]

Goto(r, at) == pc' = [pc EXCEPT ![r] = at] /\ req' = req

Finish(r) ==
    /\ pc' = [pc EXCEPT ![r] = "idle"]
    /\ req' = [req EXCEPT ![r] = NoRequest]

\* The assumption double_checkout lifts: a checkout has its number to itself.
MayCheckout(n) ==
    \/ "double_checkout" \in Faults
    \/ \A q \in Requests : ~Purchasing(q, n)
MayPurchase(n) ==
    \/ "double_checkout" \in Faults
    \/ \A q \in Requests : ~(req[q].num = n /\ req[q].seen # "db")

-----------------------------------------------------------------------------
(* reserve_number: one transaction under the row lock.                     *)

Reserve(a, n) ==
    /\ SetStatus(n, "RESERVED")
    /\ account' = [account EXCEPT ![n] = a]
    /\ until' = [until EXCEPT ![n] = "live"]
    /\ UNCHANGED <<by, age, held, lock, reqVars, tear>>

\* Mutant: the quarantine is not looked at.
reserve_number_unquarantined(a, n) ==
    /\ Free(n)
    /\ \/ status[n] \in {"UNLISTED", "CANCELLED"}
       \/ status[n] = "RESERVED" /\ (account[n] = a \/ until[n] # "live")
    /\ Reserve(a, n)

reserve_number(a, n) ==
    /\ Free(n)
    /\ \/ status[n] = "UNLISTED"
       \/ status[n] = "RESERVED" /\ (account[n] = a \/ until[n] # "live")
       \/ status[n] = "CANCELLED" /\ age[n] = "old"
    /\ Reserve(a, n)

-----------------------------------------------------------------------------
(* create_number_purchase_checkout_session: reads the row without a lock,  *)
(* checks eligibility, takes the account lock and calls purchase_number,   *)
(* whose FOR UPDATE query hands back the copy the session already holds.   *)

checkout_read(r, a, n) ==
    /\ MayCheckout(n)
    /\ Purchasable(a, n)
    /\ Begin(r, "checkout", a, n, IF status[n] = "RESERVED" THEN "live" ELSE "open")
    /\ UNCHANGED <<rowVars, held, lock, tear>>

\* A commit inside the eligibility check expires the session's copy.
checkout_refreshed(r) ==
    /\ "lazy_commit" \in Faults
    /\ pc[r] = "checkout"
    /\ req[r].seen # "db"
    /\ req' = [req EXCEPT ![r].seen = "db"]
    /\ UNCHANGED <<rowVars, held, lock, pc, tear>>

checkout_refused(r) ==
    /\ pc[r] = "checkout"
    /\ Finish(r)
    /\ UNCHANGED <<rowVars, held, lock, tear>>

checkout_compliance_pending(r) ==
    /\ pc[r] = "checkout"
    /\ Free(req[r].num)
    /\ HoldForCompliance(r, req[r].num)
    /\ Finish(r)
    /\ UNCHANGED <<account, until, by, age, held, lock, tear>>

checkout_purchase(r) ==
    LET n == req[r].num IN
    /\ pc[r] = "checkout"
    /\ Free(n)
    /\ req[r].seen # "over"
    /\ req[r].seen = "db" => Purchasable(req[r].acct, n)
    /\ lock' = [lock EXCEPT ![n] = r]
    /\ Goto(r, "eligible")
    /\ UNCHANGED <<rowVars, held, tear>>

-----------------------------------------------------------------------------
(* purchase_number.                                                        *)

purchase_number(r, a, n) ==
    /\ MayPurchase(n)
    /\ Free(n)
    /\ Purchasable(a, n)
    /\ lock' = [lock EXCEPT ![n] = r]
    /\ Begin(r, "eligible", a, n, "db")
    /\ UNCHANGED <<rowVars, held, tear>>

\* get_or_create_subscription or _get_or_open_eligibility_case commits inside
\* the eligibility check.
eligibility_commits(r) ==
    /\ "lazy_commit" \in Faults
    /\ pc[r] = "eligible"
    /\ lock[req[r].num] = r
    /\ lock' = Unlocked(req[r].num, r)
    /\ UNCHANGED <<rowVars, held, reqVars, tear>>

\* Mutant: the refusal does not roll back.
purchase_refused_without_rollback(r) ==
    /\ pc[r] = "eligible"
    /\ Finish(r)
    /\ UNCHANGED <<rowVars, held, lock, tear>>

purchase_refused(r) ==
    /\ pc[r] = "eligible"
    /\ lock' = Unlocked(req[r].num, r)
    /\ Finish(r)
    /\ UNCHANGED <<rowVars, held, tear>>

purchase_compliance_pending(r) ==
    LET n == req[r].num IN
    /\ pc[r] = "eligible"
    /\ Writable(n, r)
    /\ HoldForCompliance(r, n)
    /\ lock' = Unlocked(n, r)
    /\ Finish(r)
    /\ UNCHANGED <<account, until, by, age, held, tear>>

purchase_pending(r) ==
    LET n == req[r].num IN
    /\ pc[r] = "eligible"
    /\ Writable(n, r)
    /\ SetStatus(n, "PURCHASE_PENDING")
    /\ SetAge(n, "fresh")
    /\ lock' = Unlocked(n, r)
    /\ pc' = [pc EXCEPT ![r] = "pending"]
    /\ req' = [req EXCEPT ![r].seen = "db"]
    /\ UNCHANGED <<account, until, by, held, tear>>

purchase_provisioning(r) ==
    /\ pc[r] = "pending"
    /\ Free(req[r].num)
    /\ SetStatus(req[r].num, "PROVISIONING")
    /\ Goto(r, "buying")
    /\ UNCHANGED <<account, until, by, age, held, lock, tear>>

\* The tail: whatever the row holds by now is overwritten.
purchase_activate(r) ==
    LET n == req[r].num IN
    /\ pc[r] = "bought"
    /\ Free(n)
    /\ SetStatus(n, "ACTIVE")
    /\ until' = [until EXCEPT ![n] = "unset"]
    /\ Finish(r)
    /\ UNCHANGED <<account, by, age, held, lock, tear>>

\* Mutant: the failed purchase leaves its row in PROVISIONING.
purchase_failed_strands(r) ==
    /\ pc[r] = "refused"
    /\ Free(req[r].num)
    /\ Finish(r)
    /\ UNCHANGED <<rowVars, held, lock, tear>>

purchase_failed(r) ==
    /\ pc[r] = "refused"
    /\ Free(req[r].num)
    /\ SetStatus(req[r].num, "RESERVED")
    /\ Finish(r)
    /\ UNCHANGED <<account, until, by, age, held, lock, tear>>

-----------------------------------------------------------------------------
(* The provider.  It sells a number once and refuses one already sold.     *)

Sell(n) == ~held[n] /\ held' = [held EXCEPT ![n] = TRUE]
TakeBack(n) == held[n] /\ held' = [held EXCEPT ![n] = FALSE]

buy_number_sold(r) ==
    /\ pc[r] = "buying"
    /\ Sell(req[r].num)
    /\ Goto(r, "bought")
    /\ UNCHANGED <<rowVars, lock, tear>>

buy_number_refused(r) ==
    /\ pc[r] = "buying"
    /\ Goto(r, "refused")
    /\ UNCHANGED <<rowVars, held, lock, tear>>

buy_number_reply_lost(r) ==
    /\ "lost_reply" \in Faults
    /\ pc[r] = "buying"
    /\ Sell(req[r].num)
    /\ Goto(r, "refused")
    /\ UNCHANGED <<rowVars, lock, tear>>

\* A release may be done and its answer lost: the code sees it fail.
ReplyLost(n) == "lost_reply" \in Faults /\ TakeBack(n)

-----------------------------------------------------------------------------
(* Staff recovery of a purchase that died in flight.                       *)

\* Mutant: no threshold.
IsInFlight(n) == status[n] \in InFlight

IsStuck(n) == status[n] \in InFlight /\ age[n] = "old"

retry_provisioning(r, n) ==
    /\ Free(n)
    /\ IsStuck(n)
    /\ SetStatus(n, "PROVISIONING")
    /\ SetAge(n, "fresh")
    /\ Begin(r, "buying", account[n], n, "db")
    /\ UNCHANGED <<account, until, by, held, lock, tear>>

release_stuck_provisioning(n) ==
    /\ Free(n)
    /\ IsStuck(n)
    /\ SetStatus(n, "RESERVED")
    /\ until' = [until EXCEPT ![n] = "live"]
    /\ UNCHANGED <<account, by, age, held, lock, reqVars, tear>>

-----------------------------------------------------------------------------
(* Suspension and reinstatement: one transaction each, over one number or  *)
(* over every number of an account that qualifies.                         *)

Change(S, s, source) ==
    /\ \A n \in S : Free(n)
    /\ status' = [n \in Numbers |-> IF n \in S THEN s ELSE status[n]]
    /\ by' = [n \in Numbers |-> IF n \in S THEN source ELSE by[n]]
    /\ UNCHANGED <<account, until, age, held, lock, reqVars, tear>>

Owned(a, s) == {n \in Numbers : account[n] = a /\ status[n] = s}

suspend_number(a, n) ==
    /\ n \in Owned(a, "ACTIVE")
    /\ Change({n}, "SUSPENDED", "customer")

suspend_numbers_for_account_by_system(a) ==
    /\ Owned(a, "ACTIVE") # {}
    /\ Change(Owned(a, "ACTIVE"), "SUSPENDED", "system")

\* Mutant: the filter on suspended_by is missing.
reactivate_every_suspended_number(a) ==
    /\ Owned(a, "SUSPENDED") # {}
    /\ Change(Owned(a, "SUSPENDED"), "ACTIVE", "none")

reactivate_numbers_for_account_by_staff(a) ==
    LET targets == {n \in Owned(a, "SUSPENDED") : by[n] = "system"} IN
    /\ targets # {}
    /\ Change(targets, "ACTIVE", "none")

-----------------------------------------------------------------------------
(* cancel_number: the provider's release first, the row afterwards, under  *)
(* one row lock.                                                           *)

cancel_number(r, a, n) ==
    /\ Free(n)
    /\ account[n] = a
    /\ status[n] \in Served
    /\ lock' = [lock EXCEPT ![n] = r]
    /\ Begin(r, "cancelling", a, n, "db")
    /\ UNCHANGED <<rowVars, held, tear>>

cancel_release(r) ==
    /\ pc[r] = "cancelling"
    /\ TakeBack(req[r].num)
    /\ Goto(r, "released")
    /\ UNCHANGED <<rowVars, lock, tear>>

\* Mutant: the failed release is ignored and the row marked all the same.
cancel_release_ignored(r) ==
    LET n == req[r].num IN
    /\ pc[r] = "cancelling"
    /\ SetStatus(n, "CANCELLED")
    /\ SetAge(n, "fresh")
    /\ lock' = Unlocked(n, r)
    /\ Finish(r)
    /\ UNCHANGED <<account, until, by, held, tear>>

\* As a release always does for a number the provider no longer holds.
cancel_release_fails(r) ==
    /\ pc[r] = "cancelling"
    /\ lock' = Unlocked(req[r].num, r)
    /\ Finish(r)
    /\ UNCHANGED <<rowVars, held, tear>>

cancel_reply_lost(r) ==
    /\ pc[r] = "cancelling"
    /\ ReplyLost(req[r].num)
    /\ lock' = Unlocked(req[r].num, r)
    /\ Finish(r)
    /\ UNCHANGED <<rowVars, tear>>

\* Mutant: a status no other step knows.
cancel_commit_as_released(r) ==
    LET n == req[r].num IN
    /\ pc[r] = "released"
    /\ SetStatus(n, "RELEASED")
    /\ SetAge(n, "fresh")
    /\ lock' = Unlocked(n, r)
    /\ Finish(r)
    /\ UNCHANGED <<account, until, by, held, tear>>

cancel_commit(r) ==
    LET n == req[r].num IN
    /\ pc[r] = "released"
    /\ SetStatus(n, "CANCELLED")
    /\ SetAge(n, "fresh")
    /\ lock' = Unlocked(n, r)
    /\ Finish(r)
    /\ UNCHANGED <<account, until, by, held, tear>>

-----------------------------------------------------------------------------
(* release_numbers_for_account_by_system: every served number of a         *)
(* terminated account.  A failed release is logged, and log_event commits: *)
(* the CANCELLED rows so far are written and every lock is dropped.        *)

TearingDown(a) == tear[a].todo # {} \/ tear[a].done # {}

release_numbers_for_account_by_system(a) ==
    LET targets == Owned(a, "ACTIVE") \cup Owned(a, "SUSPENDED") IN
    /\ ~TearingDown(a)
    /\ targets # {}
    /\ \A n \in targets : Free(n)
    /\ lock' = [n \in Numbers |-> IF n \in targets THEN a ELSE lock[n]]
    /\ tear' = [tear EXCEPT ![a] = [todo |-> targets, done |-> {}]]
    /\ UNCHANGED <<rowVars, held, reqVars>>

teardown_release(a, n) ==
    /\ n \in tear[a].todo
    /\ TakeBack(n)
    /\ tear' = [tear EXCEPT ![a] = [todo |-> @.todo \ {n}, done |-> @.done \cup {n}]]
    /\ UNCHANGED <<rowVars, lock, reqVars>>

\* Mutant: a failure rolls the session back before it is logged.
teardown_rolls_back(a) ==
    /\ lock' = AllUnlocked(a)
    /\ UNCHANGED <<rowVars, reqVars>>

\* What the session's commit writes, and the locks it drops.
teardown_flush(a) ==
    LET done == tear[a].done IN
    /\ \A n \in done : Writable(n, a)
    /\ status' = [n \in Numbers |-> IF n \in done THEN "CANCELLED" ELSE status[n]]
    /\ age' = [n \in Numbers |-> IF n \in done THEN "fresh" ELSE age[n]]
    /\ lock' = AllUnlocked(a)
    /\ UNCHANGED <<account, until, by, reqVars>>

\* What a failed release of n leaves of a teardown.
GivenUp(a, n) ==
    /\ teardown_flush(a)
    /\ tear' = [tear EXCEPT ![a] = [todo |-> @.todo \ {n}, done |-> {}]]

teardown_release_fails(a, n) ==
    /\ n \in tear[a].todo
    /\ GivenUp(a, n)
    /\ UNCHANGED held

teardown_reply_lost(a, n) ==
    /\ n \in tear[a].todo
    /\ ReplyLost(n)
    /\ GivenUp(a, n)

teardown_commit(a) ==
    /\ TearingDown(a)
    /\ tear[a].todo = {}
    /\ teardown_flush(a)
    /\ tear' = [tear EXCEPT ![a] = [todo |-> {}, done |-> {}]]
    /\ UNCHANGED held

-----------------------------------------------------------------------------
(* Time and crashes.                                                       *)

\* RESERVATION_TTL_MINUTES pass; a stale copy is never younger than the row.
reservation_lapses(n) ==
    /\ until[n] = "live"
    /\ until' = [until EXCEPT ![n] = "over"]
    /\ req' = [r \in Requests |->
                 IF req[r].num = n /\ req[r].seen = "live"
                 THEN [req[r] EXCEPT !.seen = "over"] ELSE req[r]]
    /\ UNCHANGED <<status, account, by, age, held, lock, pc, tear>>

\* STUCK_PROVISIONING_THRESHOLD_MINUTES pass.
provisioning_ages(n) ==
    /\ status[n] \in InFlight
    /\ age[n] = "fresh"
    /\ "slow_buy" \in Faults \/ \A r \in Requests : ~Buying(r, n)
    /\ SetAge(n, "old")
    /\ UNCHANGED <<status, account, until, by, held, lock, reqVars, tear>>

\* QUARANTINE_DAYS pass: longer than any request or teardown lives.
quarantine_ends(n) ==
    /\ status[n] = "CANCELLED"
    /\ age[n] = "fresh"
    /\ \A r \in Requests : req[r].num # n
    /\ \A a \in Accounts : ~TearingDown(a)
    /\ SetAge(n, "old")
    /\ UNCHANGED <<status, account, until, by, held, lock, reqVars, tear>>

worker_dies(r) ==
    /\ "crash" \in Faults
    /\ pc[r] # "idle"
    /\ lock' = AllUnlocked(r)
    /\ Finish(r)
    /\ UNCHANGED <<rowVars, held, tear>>

teardown_dies(a) ==
    /\ "crash" \in Faults
    /\ TearingDown(a)
    /\ lock' = AllUnlocked(a)
    /\ tear' = [tear EXCEPT ![a] = [todo |-> {}, done |-> {}]]
    /\ UNCHANGED <<rowVars, held, reqVars>>

-----------------------------------------------------------------------------
\* The steps a running request or teardown takes on its own.
Step(r) ==
    /\ \/ checkout_refreshed(r) \/ checkout_refused(r)
       \/ checkout_compliance_pending(r) \/ checkout_purchase(r)
       \/ eligibility_commits(r) \/ purchase_refused(r)
       \/ purchase_compliance_pending(r) \/ purchase_pending(r)
       \/ purchase_provisioning(r) \/ purchase_activate(r) \/ purchase_failed(r)
       \/ buy_number_sold(r) \/ buy_number_refused(r)
       \/ cancel_release(r) \/ cancel_release_fails(r) \/ cancel_commit(r)
    /\ UNCHANGED faultless

Teardown(a) ==
    /\ \/ \E n \in Numbers : teardown_release(a, n) \/ teardown_release_fails(a, n)
       \/ teardown_commit(a)
    /\ UNCHANGED faultless

\* ... and those on which the provider's answer does not come.
AnswerLost(r) ==
    /\ buy_number_reply_lost(r) \/ cancel_reply_lost(r)
    /\ faultless' = FALSE

TeardownAnswerLost(a) ==
    /\ \E n \in Numbers : teardown_reply_lost(a, n)
    /\ faultless' = FALSE

Death ==
    /\ \/ \E r \in Requests : worker_dies(r)
       \/ \E a \in Accounts : teardown_dies(a)
    /\ faultless' = FALSE

\* What begins a request or is one transaction.
Arrival ==
    \/ \E r \in Requests, n \in Numbers :
          \/ \E a \in Accounts : \/ checkout_read(r, a, n)
                                 \/ purchase_number(r, a, n)
                                 \/ cancel_number(r, a, n)
          \/ retry_provisioning(r, n)
    \/ \E a \in Accounts, n \in Numbers : reserve_number(a, n) \/ suspend_number(a, n)
    \/ \E a \in Accounts : \/ suspend_numbers_for_account_by_system(a)
                           \/ reactivate_numbers_for_account_by_staff(a)
                           \/ release_numbers_for_account_by_system(a)
    \/ \E n \in Numbers : release_stuck_provisioning(n)

TimePasses ==
    \E n \in Numbers : reservation_lapses(n) \/ provisioning_ages(n) \/ quarantine_ends(n)

Next ==
    \/ \E r \in Requests : Step(r) \/ AnswerLost(r)
    \/ \E a \in Accounts : Teardown(a) \/ TeardownAnswerLost(a)
    \/ Death
    \/ (Arrival \/ TimePasses) /\ UNCHANGED faultless

Spec == Init /\ [][Next]_vars

\* Workers run, the provider answers every call, and PostgreSQL grants a row
\* lock to its waiters in turn: a step that keeps becoming possible is taken.
FairSpec ==
    /\ Spec
    /\ \A r \in Requests : SF_vars(Step(r) \/ AnswerLost(r))
    /\ \A a \in Accounts : SF_vars(Teardown(a) \/ TeardownAnswerLost(a))

-----------------------------------------------------------------------------
(* What the rows mean to customers: see NumberMarket.                      *)

MarketOf(n) ==
    CASE status[n] \in Served -> [phase |-> "serving", for |-> account[n]]
      [] status[n] = "CANCELLED" /\ age[n] = "fresh" -> [phase |-> "resting", for |-> None]
      [] \/ status[n] = "UNLISTED"
         \/ status[n] = "CANCELLED" /\ age[n] = "old"
         \/ status[n] = "RESERVED" /\ until[n] = "over" -> [phase |-> "open", for |-> None]
      [] OTHER -> [phase |-> "promised", for |-> account[n]]

Market == INSTANCE NumberMarket WITH market <- [n \in Numbers |-> MarketOf(n)]

-----------------------------------------------------------------------------
(* Properties.                                                             *)

\* The provider is being asked for a number by one request at most, and that
\* request works for the account that holds the row, in a state no staff
\* recovery touches (purchase_number, retry_provisioning, _assert_is_stuck).
SoleBuyer ==
    \A r \in Requests, n \in Numbers : Buying(r, n) =>
        /\ status[n] \in InFlight
        /\ age[n] = "fresh"
        /\ account[n] = req[r].acct
        /\ \A q \in Requests : Buying(q, n) => q = r

\* A number in service is never set back: whatever purchases, retries and
\* checkouts still run for it, it stays ACTIVE or SUSPENDED until a
\* cancellation or a teardown takes it to CANCELLED.
NoClobber ==
    [][\A n \in Numbers : status[n] \in Served =>
            status'[n] \in Served \cup {"CANCELLED"}]_vars

\* A purchase that finishes late and fails does not reset a number already
\* in service to RESERVED.
FailureNeverResets ==
    [][\A n \in Numbers : status[n] \in Served => status'[n] # "RESERVED"]_vars

\* A CANCELLED row is a number the provider no longer bills the platform for
\* (cancel_number releases before it marks the row).
CancelledIsReleased ==
    \A n \in Numbers : status[n] = "CANCELLED" => ~held[n]

\* A suspension the customer asked for is not lifted by the reversal of a
\* risk suspension, by a retry or by the tail of an old purchase
\* (PhoneNumberSuspensionSource): only a cancellation ends it.
CustomerSuspensionHolds ==
    [][\A n \in Numbers : status[n] = "SUSPENDED" /\ by[n] = "customer" =>
            \/ status'[n] = "SUSPENDED" /\ by'[n] = "customer"
            \/ status'[n] = "CANCELLED"]_vars

\* The numbers a cancellation or a teardown has given back to the provider
\* and not yet written as CANCELLED.
Releasing(n) ==
    \/ \E r \in Requests : req[r].num = n /\ pc[r] = "released"
    \/ \E a \in Accounts : n \in tear[a].done

\* The provider's record and the rows agree: the platform pays for exactly the
\* numbers that are in service, but for the one being activated and those
\* being given back.
ProviderAgrees ==
    \A n \in Numbers :
        held[n] <=> \/ status[n] \in Served /\ ~Releasing(n)
                    \/ \E r \in Requests : req[r].num = n /\ pc[r] = "bought"

\* As long as nobody has died and no answer was lost, ProviderAgrees
\* (buy_number, release_number and their commits).
RowsMatchProvider == faultless => ProviderAgrees

\* "It never returns to the caller with a number still sitting in
\* PURCHASE_PENDING/PROVISIONING" (service.py on purchase_number): as long as
\* nobody has died, a number in flight is one a request is still buying.
PurchasesSettle ==
    faultless =>
       \A n \in Numbers : status[n] \in InFlight => \E r \in Requests : Buying(r, n)

\* A lock is held by a request or a teardown that will drop it: one that has
\* died or ended holds none, and no request holds the lock of a number that
\* is not its own.
LocksAccounted ==
    \A n \in Numbers :
        /\ lock[n] \in Requests =>
              /\ req[lock[n]].num = n
              /\ pc[lock[n]] \in {"eligible"} \cup CancelPc
        /\ lock[n] \in Accounts => TearingDown(lock[n])

\* Whatever the faults, no request waits for ever and no teardown hangs.
RequestsFinish ==
    /\ \A r \in Requests : pc[r] # "idle" ~> pc[r] = "idle"
    /\ \A a \in Accounts : TearingDown(a) ~> ~TearingDown(a)

\* The rows implement the abstract market: no interleaving of reservations,
\* checkouts, purchases, staff recovery, suspensions, cancellations and
\* teardowns hands a number to a second account or skips a phase.
MarketSpec == Market!Spec
-----------------------------------------------------------------------------
(* The inductive invariant behind SoleBuyer, NoClobber and MarketSpec when *)
(* every purchase has its number to itself (see NumberLifecycle_proofs).   *)

\* A row belongs to an account from its first reservation on, a request works
\* for one account and one number, and an open order has a reserved_until.
Engaged ==
    /\ \A n \in Numbers : status[n] # "UNLISTED" => account[n] \in Accounts
    /\ \A n \in Numbers : status[n] \in Ordered \cup InFlight => until[n] # "unset"
    /\ \A r \in Requests : pc[r] # "idle" =>
            req[r].num \in Numbers /\ req[r].acct \in Accounts
    /\ \A r \in Requests : pc[r] = "idle" => req[r] = NoRequest

\* Eligibility checks and cancellations run under the row lock.
LocksHeld ==
    \A r \in Requests : pc[r] \in {"eligible"} \cup CancelPc => lock[req[r].num] = r

\* What each kind of request may count on while it runs.
CheckoutFresh ==
    \A r \in Requests : LET n == req[r].num IN
        /\ pc[r] = "checkout" =>
             /\ status[n] \in Ordered
             /\ req[r].seen # "db"
             /\ req[r].seen = "live" =>
                  account[n] = req[r].acct /\ status[n] = "RESERVED" /\ until[n] = "live"
             /\ req[r].seen = "open" =>
                  account[n] = req[r].acct /\ status[n] = "COMPLIANCE_PENDING"
        /\ pc[r] \in BuyingPc => req[r].seen = "db"
EligibleHolds ==
    \A r \in Requests : pc[r] = "eligible" =>
        status[req[r].num] \in Ordered /\ account[req[r].num] = req[r].acct
BuyerHolds ==
    \A r \in Requests : pc[r] \in BuyingPc =>
        /\ status[req[r].num] \in InFlight
        /\ age[req[r].num] = "fresh"
        /\ account[req[r].num] = req[r].acct
CancelHolds ==
    \A r \in Requests : pc[r] \in CancelPc => status[req[r].num] \in Served
TeardownHolds ==
    \A a \in Accounts : \A n \in tear[a].todo \cup tear[a].done :
        /\ account[n] = a
        /\ status[n] \in Served \/ (status[n] = "CANCELLED" /\ age[n] = "fresh")

OnePurchase ==
    \A q, r \in Requests : pc[q] \in PurchasePc /\ pc[r] \in PurchasePc
                            /\ req[q].num = req[r].num => q = r

IndInv ==
    /\ Engaged
    /\ LocksHeld
    /\ CheckoutFresh
    /\ EligibleHolds
    /\ BuyerHolds
    /\ CancelHolds
    /\ TeardownHolds
    /\ OnePurchase
=============================================================================
