# Zoiko Local: a verification project

TLA+ models of the backend under `src/backend/app`, checked with TLC on small
instances and, for what matters most, proved with TLAPS for every instance.
Three cores are modelled in most detail: the life of a phone number, the
subscription of an account, and the billing cycle with the staff actions that run
it. They are where money and telephone numbers can be lost or taken twice, and
where the code takes most trouble (row locks, call-before-commit, idempotency
keys, sweeps) to prevent it. Sixteen smaller modules model the components around
them. Paths below are relative to `src/backend/app`.

## The system

Zoiko Local is a FastAPI backend over PostgreSQL (READ COMMITTED, `core/database.py`)
with a Next.js frontend. It sells telephone numbers bought at a telecom provider
(Twilio, with a second provider behind a circuit breaker), routes calls to them,
charges for plans through Stripe, and writes invoices in an outside billing
service, ZoikoNex. Route handlers run in a thread pool; several worker processes
may serve one database; staff actions, cron endpoints and the webhooks of
Stripe, ZoikoNex and Twilio come in by the same routes. Nothing but the database
is shared between two requests (and per process, circuit breakers and caches).

Four facts about this code decide what is atomic, and every model is built on them:

1. A step of a handler is what lies between two commits, or between a commit and
   a provider call; and where a row is read without a lock and decided upon, the read
   and the write are two steps. `audit.log_event` **commits the session of its caller**, so a
   sequence of log entries is a sequence of commits.
2. A lock of `SELECT ... FOR UPDATE` lives to the end of the transaction: any
   commit drops it, whoever issued it, and so do a rollback and a dead worker.
3. A session keeps rows as it first read them; `with_for_update()` without
   `populate_existing` takes the lock and returns the old copy. Only attributes
   that were assigned are written back.
4. Provider calls are made between commits. A call that failed may have taken
   effect; its answer may be lost; the worker may die before it uses it.

### Components

| component | state | operations | how it interacts | what is hard | what makes it correct |
|---|---|---|---|---|---|
| **Numbers** `numbering/numbers` | `phone_numbers`: status, account, `reserved_until`, `suspended_by`, thresholds | search, reserve, checkout, purchase, retry and release of stuck numbers, suspend, reactivate, cancel, teardown, renewal | buys and releases at the provider; opens eligibility cases; charges through billing; suspended by risk and billing | two requests on one number, checks read before a lock, crashes around the sale, lost answers | one buyer at a time; a number in service is not set back; CANCELLED numbers are released; customer suspensions are kept; the market below |
| **Eligibility cases** `numbering/numbers` | case, documents, bundle at Twilio | open, submit evidence, document, bundle; webhook, button, daily sweep; staff | Twilio's reviewers; gates a purchase | lost or early callbacks, stale answers | what Twilio decides is noticed |
| **Subscriptions** `billing` | one row per account: status, plan, period, trial, grace, scheduled downgrade, Stripe id; checkout sessions | create, change plan, downgrade, rollover, proration, cancel, terminate, five kinds of webhook | charged by Stripe; teardown of numbers; gate of outbound calls | events lost, repeated, reordered; Stripe call and commit are two steps; no row lock | one Stripe subscription charges; the status takes only intended steps; one grace period per failure; what is paid is honoured |
| **Billing actions and cycle** `billing`, `integrations/billing/zoikonex` | action requests, pending charges; at ZoikoNex invoices, lines, notes | request, approve, reject; run the cycle; credit note, debit note, refund | calls ZoikoNex with idempotency keys | the lock of an approval is dropped half-way; crash between issue and commit | two staff members; nothing charged, noted or resolved twice; nothing INVOICED that is not billed |
| **Reconciliation** `billing`, `ops` | exceptions | daily run, resolution by staff | reads calls, usage events and the rest | rows that change between its reads, a run that dies | no completed call is forgotten |
| Quotas, AI add-on `billing` | flags | checks on read | read the above | stale counts | a quota is not exceeded by two purchases |
| **Event outbox and consumer** `events` | `event_outbox`, the topic, `event_log` | publish durably, flush, consume, commit offsets, dead-letter | every service publishes; Kafka | overlapping flushes, redelivery, death between store and commit | what the offset has passed is logged or buried |
| **Call queues** `queues` | call logs; Twilio's own queue | hold webhook, pull, place, answer, finish | Twilio webhooks; places calls | two records of the same callers, webhooks in any order, crash after a reservation | one agent per caller; no caller stranded |
| **Call flows** `routing` | versions: DRAFT, PUBLISHED, ARCHIVED; a call in a graph | save draft, publish, roll back; resolve a node | read on each inbound call | two publishers; a path nobody tried | one PUBLISHED version, one draft, no number twice; no missing node |
| **Porting** `porting` | requests, the number created | submit, approve, reject, cancel, complete | creates a number | decisions without a lock | a completed port owns its number |
| **Usage** `usage` | events, adjustments, disputes | record, rate, adjust, dispute, resolve | metered by calls; rated by ZoikoNex | commit of an adjustment before its dispute | the ledger explains the cost; a call is metered once |
| **Risk** `risk` | risk state, signals, fraud cases | signal, suspend, open, resolve, restore, step up | suspends numbers; fed by calls and purchases | concurrent signals; staff against engine | who is over the threshold is suspended |
| **Retention** `retention` | recordings, erasure requests, legal holds | sweep, erase, resolve, hold | deletes at Twilio | a hold set amid a sweep, failed deletions | a hold keeps the evidence |
| **Compliance and KYC** `compliance` | cases, verification sessions | open, upload, verify, decide, expire, reverify, KYC webhook | Stripe Identity; gates purchases | decision against expiry, restart and webhook | a session decides once |
| **Calls and video** `media` | call records; video sessions and egresses; voicemail, receptionist | place, receive, status webhooks, start and stop recordings, sweeps | meters usage, feeds risk; Twilio, LiveKit | webhooks late, lost, before the row; requests that wait for LiveKit | slots are freed; recordings settle |
| **Notifications** `notifications` | deliveries, preferences, suppressions | send, Resend's webhooks, unsubscribe; push, SMS, digest | called everywhere; **commits**; Resend | webhooks before, without or between the commits they need; a key that is never stored | an address that bounced is suppressed |
| Webhooks, messaging, CRM, contacts, careers, consent, API keys, analytics, intelligence, staff, ops, observability | one row per record | create, edit, read, one attempt to deliver | - | little | - |
| **Identities** `numbering/identity`, `core/deps.py` | users, and copies of their rows in Redis | sign-up, team, verification, password, second factor, phone | every route | a copy that is stale, or stored after it was dropped, and merged back | a copy catches up; a commit is not taken back |
| Authentication, configuration `core` | - | tokens, limits | every route | - | - |
| **Adapters** `integrations` | circuit breaker per process | calls, failover | providers | half-open trials, late answers | a healthy provider is used again |
| Frontend, migrations, deployment | - | - | - | - | - |

`PROJECT.json` lists every component with its status, and every hazard at its line.

## The modules

| module | what it is |
|---|---|
| `NumberMarket` | abstract: what the number service promises of a number (open, promised, serving, resting) |
| `NumberLifecycle` | the code of `numbering/numbers/service.py`; implements `NumberMarket` |
| `Subscription` | the subscription row, Stripe's side of it and its events |
| `BillingCycle` | billing action requests, pending charges, and ZoikoNex's invoices and notes |
| `CallQueue` | one hold queue: Twilio's line, the log, the agents' calls |
| `CallRecords` | the calls of an account: Twilio, the rows, webhooks, metering, the daily sweep |
| `FlowVersions` | the versions of a call flow under the locks of `_lock_flow_versions` |
| `FlowCall` | the validation of a flow's graph and a live call through it |
| `VideoRoom` | a video session and its recordings at LiveKit |
| `Porting` | requests for one number, read and written without locks |
| `UsageLedger` | a usage event, its adjustments, disputes and resolutions |
| `ComplianceCase` | a compliance case and its sessions at Stripe Identity |
| `EligibilityCase` | the eligibility case of a number and its bundles at Twilio |
| `RiskEngine` | the signals, the fraud cases and the risk state of an account |
| `Retention` | recordings, purges, erasure requests and the legal hold |
| `Outbox` | the event outbox, the topic and the consumer |
| `CircuitBreaker` | a breaker shared by threads |
| `Reconciliation` | the daily audit of `CallRecords`' calls (which it extends) and its queue of exceptions |
| `Identity` | users, their copies in Redis, and the requests that work on either |
| `Notifications` | the e-mails to an address, its preferences, bounces and suppressions |
| `MCNumberLifecycle`, `MCSubscription`, `MCBillingCycle`, `MCPlatform` | instances for TLC; `MCPlatform` composes the sixteen smaller modules |
| `NumberLifecycle_proofs`, `Subscription_proofs`, `BillingCycle_proofs`, `CallQueue_proofs` | theorems of these modules |
| `Routing_proofs` | theorems of `FlowVersions` and `FlowCall` |
| `Trust_proofs` | theorems of `ComplianceCase`, `RiskEngine` and `Retention` |
| `Records_proofs` | theorems of `Porting`, `UsageLedger`, `Outbox`, `CallRecords` and `Reconciliation` |
| `Platform_proofs` | theorems of `CircuitBreaker`, `EligibilityCase`, `VideoRoom`, `Notifications`, `Identity`, and of `MCPlatform`: all sixteen together |

Definitions keep the names of the code. Operators marked "Mutant" in a comment
are wrong on purpose: each is what a plausible bug would make of the definition
that follows it, `Next` uses none of them, and each has been checked to break
the property it is there for.

### NumberLifecycle

`status`, `account`, `until`, `by`, `age` are the columns of a row that decide
anything; times are kept as the answers to the comparisons the code makes
(`reserved_until` is set, live or past; a threshold has passed or not), and three
actions make time pass. `held` is the provider's own record. `lock` is the row
lock. `pc` and `req` say how far each request's handler has got, so
`create_number_purchase_checkout_session` followed by `purchase_number` is up to
eight steps: `checkout_read` (no lock), the eligibility check with its refusals,
`purchase_number` (the lock, and the copy the session may hold), `purchase_pending`
(commit, lock dropped), `purchase_provisioning`, one of `buy_number_sold`,
`buy_number_refused`, `buy_number_reply_lost`, and `purchase_activate` or
`purchase_failed`. `tear` is an account's teardown, which releases several numbers
with a flush after each. `faultless` is history: nobody has died and no answer has been
lost so far, which is as long as the provider's record and the rows can be expected to agree.

`Faults` says what the environment may do: `crash`, `lost_reply`, `slow_buy` (a
provider call outlasts the threshold after which staff may take a number for
stuck), `double_checkout`, `lazy_commit` (an eligibility check that commits and so
drops the lock). The last three are each a gap in the code's own exclusion: the
comments assume they do not happen. Theorems and the main run exclude them by name
(`Exclusive`), `number_faults` has them all, and `number_double_checkout` shows what
one of them does.

### Subscription

`sub` is the row, `checkout` and `live` the Checkout Sessions and whether their
Stripe subscription charges, `mail` the payment events Stripe has sent (delivered
in any order, any number of times), `handled` those that have been applied at
least once (no delivery ledger stops a second application: see
`subscription_redelivery`).

No handler locks the row, so each is two steps: it reads the row and decides
(`cancel_subscription`, `change_plan`, a webhook), and `update_commits` writes what it
decided over whatever the row has become. `job` keeps both the row as it was `read` and
as it is to be, `new`; as in SQLAlchemy only the columns that differ are written
(`Merged`), and of two handlers that create the row the unique key fails one (`Commit`).
`get_or_create_subscription`, which creates the row, rolls over a lapsed period, ends a
trial and applies a due downgrade, is such a read and commit of its own; a handler that
calls it goes on when there is nothing left to do (`Returned`). Handlers that call Stripe
or commit twice are split there too: `handle_stripe_checkout_completed`,
`checkout_applied`, `checkout_recorded`, then `checkout_supersedes` or
`checkout_supersede_fails`; `cancel_at_stripe` and `apply_plan_change_with_proration`
call Stripe in the step that reads. A worker may die between any two.

`calm` records that no handler has died and none has begun amid another; only
`OneBiller` is stated under it, because the hand-over from one Stripe subscription to
the next has nothing to fall back on. `StatusFlow` and `CancelEndsCharging` are about
whoever commits on the row he read (`Stale` says who does not), whatever runs or dies
beside him. What a commit over a changed row does is under "What the models show".

Left out: amounts, seats and the AI add-on, the texts of e-mails.

### BillingCycle

`request` and `charge` are rows, `lock` the row lock of a request, `invoice`,
`lines`, `notes` what ZoikoNex holds. `job` is the approval a worker is in the
middle of. `approve_billing_action` locks the request; `approve_billing_cycle` and
`approve_note` enter `_execute_billing_action`; the steps of `run_billing_cycle` are
`cycle_opens_invoice`, `add_invoice_line_item` per pending charge (marked INVOICED in
the session only), `issue_invoice`, `cycle_commits`, `collect_payment`. The lock is
dropped by the first commit: the rollover of a lapsed period, the sync of an unknown
subscription, `cycle_commits` or `note_commits`. A call that ZoikoNex refuses is
`approval_raises`; a dead worker or a lost answer is `approval_dies`. The idempotency
keys show in what repeats do: an invoice per period, a line per charge and invoice, and
a **new** note each time.

Credit notes, debit notes and refunds are one kind of request: the three functions
differ in the endpoint only. Plan fee, add-on and tax lines belong to the opening of
the invoice. A termination requested by staff is `terminate_subscription` of
`Subscription`.

### The smaller modules

They follow the same rules: one step per transaction or provider call, the
provider's state beside ours, a webhook as a member of a set until it is delivered
(perhaps again) or lost, a worker that may die between any two steps.

* **CallQueue.** `line` and `side` are Twilio's, `entered` and `log` ours; only
  webhooks bring them together, and `mark_answered` may answer another row than the
  one reserved. A `pull` is one agent's: `leg` and `met` follow its call from reservation
  to bridge, and `lost` says that the reservation was given back although Twilio had taken
  the call (`pull_fails`). `polled` are callers about whom Twilio has asked the wait URL
  and who have stopped to hold since: the question may be handled at any time after that,
  and `late` are those it then enters. It is assumed that Twilio asks about a call one question
  at a time.
* **CallRecords.** A call has an `origin` (placed by us, by a browser, inbound), a state
  at Twilio, a request that will write its row, `posts` under way, and a worker's `job`
  between the commit of a final status and its metering. `stale` is the list the sweep
  read at its start and visits later.
* **FlowVersions.** `edit` is what a transaction has read, `holder` who has the locks.
  A waiter that gets them re-reads, which is what `Lockable` and the begin actions say.
  `save_draft` takes no lock and writes the draft it has read.
* **FlowCall.** The graph is chosen among all graphs of two nodes; `validate_flow` lets
  some through; the call then goes from node to node. Recursion through an overflow is
  bounded by `RecursionLimit`, hops by the code's own `MAX_RESOLUTION_HOPS`.
* **VideoRoom.** `asks` is a request that awaits LiveKit, with others let in meanwhile;
  `found` are webhooks of ended egresses that have found their row and not written it.
  An egress that is over counts as stopped, as in `stop_room_recording`, and a url is
  cleared only if the request had seen one.
* **Porting, UsageLedger, ComplianceCase, EligibilityCase.** Rows read, an outside call
  or a commit in between, a decision written over whatever has become of the row. Only
  the columns assigned are written, and only if they differ from what was read.
  An adjustment reads the cost (`cost_read`) and writes it later; `overtaken` is history:
  a cost was written over one its writer had not read. A decision of a case finds it
  pending (`Decides`) and writes later (`approve_case`, `reject_case`), by as many
  `Deciders` at once as there are; `alone` is history: none began while another was under way.
* **RiskEngine.** A signal is recorded, scored, and acted upon in steps of their own;
  staff resolve cases and set states in between, in `Requests` with as many steps. An
  automatic transition reads the account (`transition_risk_state`) and writes without
  comparing again (`risk_state_written`). `overruled` and `overwritten` are history: staff
  have had the last word; a transition has written over a higher state. `Score` is the sum of weights of a set of signals, capped: of it the
  model assumes only what a sum of weights that are not negative gives (`ScoreAssumption`).
  The console takes no weight below 0 (`fraud/page.tsx:423`); the API behind it would
  (`risk/schemas.py:19`), and `ThresholdSuspends` says nothing of signals that count for an account.
* **Retention.** `purge` is what a sweep or an erasure has left to do, `evidence` is
  history: what there was, and in nobody's hands, when the hold was set.
* **Outbox.** `topic`, `offset` and `reading` are Kafka's; `event_log` and `buried` ours.
* **CircuitBreaker.** A method of the breaker is a step (it holds its lock), the call it
  guards is not: its answer tells of any health the provider has had since it began.

* **Reconciliation.** A run reads the open exceptions and the usage events, then the
  completed calls, each query with a snapshot of its own. Exceptions are rows that only
  staff close. Of its five legs the one about calls is modelled.
* **Identity.** `visit` is a request: it has the row it loaded, or the copy Redis gave it.
  `Merge` is SQLAlchemy's: a copy is laid over the row column by column, a row the session
  has loaded itself is written where it was changed. `Visits` bring a token, `Links` a
  link that was mailed and work on the row.
* **Notifications.** A send is prepared, leaves, and is committed, in this order; Resend's
  webhooks start when it has left. `Global` is a suppression without a domain.

`MCPlatform` composes them by `scene`, which no step changes: each behaviour is about one module, and
the other modules stay in an initial state. They share no rows, so a product of them
would show nothing more and could not be enumerated.

## The runs

Every run and its instance is in `PROJECT.json` and the `.cfg` of the same name.

| run | shows | instance |
|---|---|---|
| `number_races` | `SoleBuyer`, `NoClobber`, `CancelledIsReleased`, `CustomerSuspensionHolds`, the refinement `MarketSpec`; up to the first fault `RowsMatchProvider` and `PurchasesSettle`: rows and provider agree, and a number in flight is being bought | 2 accounts, 2 numbers, 2 requests, deaths and lost answers |
| `number_faults` | `LocksAccounted`, `RequestsFinish`: whatever the faults, locks are dropped and requests end | 1 account, 1 number, 2 requests, every fault |
| `number_double_checkout` | **violation** of `FailureNeverResets` | 1 account, 1 number, 2 requests |
| `subscription_serial` | `OneBiller` | 1 worker, 2 plans, 2 checkouts, trial and rollover within 2 ticks, ZoikoNex events |
| `subscription_redelivery` | **violation** of `GraceStartsOnce` | 1 worker, 1 event |
| `subscription_crashes` | `StatusFlow`, `CancelEndsCharging`, `PaidIsHonoured` with overlaps and deaths | 2 workers, 1 plan, 1 checkout, 1 event |
| `subscription_resubscribe` | **violation** of `CanceledIsNotCharged` | 1 worker, 1 checkout |
| `subscription_downgrade` | **violation** of `DowngradeAtPeriodEnd` | 1 worker, 2 plans, a year of 2 ticks |
| `billing_cycle` | `InvoicedIsBilled`, `ExecutedIsApproved`, `ChargedOnce`, `ResolvedOnce`, `ApprovalsEnd` | 2 workers, 2 staff, a cycle and a note, 1 charge, 2 periods, deaths |
| `billing_reinvoiced` | **violation** of `PendingIsNeverInvoiced` | 1 worker, 2 cycles, 1 charge |
| `platform` | the smaller modules, one at a time: `OneAgentPerCaller`, `CallersLeave` (queue), `MeteredOnce`, `SlotsAreFreed` (calls), `OnePublished`, `NoNodeIsMissing` (flows), `RecordingsSettle` (video), `CompletedOwnsNumber` (porting), `LedgerExplainsCost` (usage), `SessionDecidesOnce` (compliance), `DecisionIsNoticed` (eligibility), `ThresholdSuspends` (risk), `HoldKeepsEvidence` (retention), `NothingSkipped` (events), `HealthyIsUsed` (breaker), `CopiesCatchUp` (identities), `CallsStayAccountedFor` (reconciliation), `BouncesSuppress` (notifications) | two of each actor and of each thing, see below |
| `identity_writeback` | **violation** of `UpdatesStay` | 1 user, 2 requests, 1 link |

### What the violations show

Each is a property the code states of itself, in a comment or a docstring quoted in
`PROJECT.json`, and a trace of what it does instead.

* `number_double_checkout`. The second of two checkouts of one number works on the
  copy of the row its session loaded before the first committed. The provider refuses
  it, and its failure path writes RESERVED over the ACTIVE row of a number that the
  customer has bought.
* `subscription_resubscribe`. A CANCELED account pays for a plan. `change_plan` ends
  trials only, so the account stays CANCELED with a live Stripe subscription that no
  later event and no second cancellation reaches.
* `subscription_downgrade`. A downgrade scheduled for the end of a month is applied on
  that date although the account has since paid for a year.
* `subscription_redelivery`. A failed payment is delivered twice. The second delivery
  looks for a notification with the key of the event, which no notification has: the
  grace period starts again.
* `billing_reinvoiced`. The invoice is issued and its charges are not yet committed as
  INVOICED when the worker dies. They are PENDING on an issued invoice, are skipped by
  a retry in the same period, and billed again in the next.
* `identity_writeback`. A request is served its user from Redis, the user verifies the
  address, and the request merges its copy: the address is unverified again. The same
  path restores a password that was reset and inserts a team member who was removed.

### Bounds

Two requests (workers) are enough for every overlap of two handlers, and a row lock
excludes the third the same way as the second. Two accounts let a number pass from one
to the other; two numbers let a teardown fail half-way. Two checkouts are a
subscription and the one it supersedes; one event suffices for redelivery and
reordering, as delivery never consumes it. In `subscription_serial` trial, rollover and
grace expire within the `Horizon` of the clock. In `subscription_crashes` the clock stands
still and there is one plan: what two workers do to the row between read and commit is in
the status and the Stripe subscription, and time adds only the rollover, which is an update
like the others. Two periods are enough for a charge to be billed twice,
`MaxNotes = 2` for a note to be repeated. What does not depend on more than these is in
the theorems, which have no bounds but the ones that are part of the model
(`LastPeriod`, `MaxNotes`, `MaxVersions`, `MaxMessages`, `MaxAdjustments` and `Horizon`
are arbitrary numbers there).

In `platform` there are two of each: two callers and two pulls, so that an agent can
answer for another's caller, one of which at a time may be out although its reservation
was given back; two calls under a limit of one, with a web worker beside
the daily job; two admins, and four versions, so that each can publish once and roll
back once; graphs of two nodes, where every loop and every dangling reference exists
(a third node repeats a hop, and hops are limited to three); two video requests and two
egresses, and two requests or webhooks at a time amid their steps; two requests for one number and two handlers; two disputes, two resolvers and
two adjustments, one more than a dispute should have; two sessions, one more than a
restart needs, one customer and two decisions, of which two steps at a time are under way
(`CaseJobs`); two bundles, for the second submission; two signals of 60 points, neither
of which suspends and both of which do, and one request beside them, two handlers of the three at a
time (`UnderWay`); a purge of two recordings; two events, two
flushes and two attempts, with two messages in the topic; two threads and a threshold
of two failures; one user with a token and a mailed link (two tokens overlap in
`identity_writeback`); one call under the reconciliation, whose runs see calls one by
one; one e-mail, with two workers for its webhooks and a template with each of a
domain, an exemption, and neither. `Endings` is one outcome of a call: no code
distinguishes them.

`CHECK_DEADLOCK FALSE` is in the two `billing` configurations, in `platform` and in
`identity_writeback`: with each request resolved, each charge invoiced, each call over or
each user removed, a bounded instance has nothing left to do. All other runs check deadlock.

### Fairness

* `NumberLifecycle!FairSpec`: strong fairness of each request's own steps and of each
  teardown. A handler in a thread runs on; provider calls have timeouts, which are
  answers (refused, or lost); PostgreSQL queues the waiters for a row lock, so one that
  can repeatedly take it takes it. Nobody is obliged to call anything: starting a
  request is not fair, nor is any fault.
* `Subscription!FairSpec`: Stripe redelivers an event until it is answered
  with success, hence strong fairness of `handle_stripe_checkout_completed` for each
  session, by whatever worker, and of each step it takes to record the session: a worker
  may die there, but not each time, and the row is created, or brought up to date, some
  time by somebody (`get_or_create_subscription`, `update_commits`). A worker amid its
  steps goes on unless it dies (`Resume`, weakly). `PaidIsHonoured` needs all of them.
* `BillingCycle!FairSpec`: strong fairness of each worker's own steps, not of its death.
  An approval then ends, or has raised; that its request is ever executed is not claimed.

* `QueueFair`: Twilio asks the wait URL again, in the end with a time over the limit,
  and reports the end of calls. No agent is obliged to do anything.
* `RecordFair`: a request that is being handled writes its row or dies; Twilio repeats a
  webhook only so often, which is the fairness of losing it, none of delivering it; the
  daily job runs, and some day Twilio answers for each call. `VideoFair` and
  `EligibilityFair` say the same of their sweeps, and that a submission ends.
* `IdentityFair`: a request ends, somehow, and thirty seconds pass. `NoticeFair`: Resend
  repeats a webhook until it is answered. The reconciliation is begun every day.
* `BreakerFair`: calls end, time passes, customers go on calling, and a healthy provider
  does not refuse every request there is.

What is cut short or refused now and then, but not each time, is strongly fair: a sweep
that some day reaches Twilio, a half-open breaker whose trial is answered, a
reconciliation that is not killed between its reads, a suppression that follows its
bounce. TLC's work doubles with each such formula, and the scenes exclude each other, so
`MCPlatform` states them together: in each disjunction of `StronglyFair` one disjunct at
most can ever be enabled in a behaviour.

`CallersLeave`, `RecordingsSettle`, `DecisionIsNoticed`, `CallsStayAccountedFor` and
`BouncesSuppress` have the form `[]<>P`: a P that always comes back. `SlotsAreFreed`,
`HealthyIsUsed` and `CopiesCatchUp` end in `<>[]`: it then stays.

## The proofs

`tlapm` checks all eight proof modules to the last leaf. No theorem has a bound on the
number of accounts, numbers, requests, workers, sessions, events, charges or periods. Every
invariant and action property that a run checks, and the refinement, is a theorem; the
liveness properties are not.

**NumberLifecycle.** `TypeCorrect` and `LocksAreDropped` hold for any faults. The rest
assume `Exclusive`: none of `slow_buy`, `double_checkout`, `lazy_commit`; crashes and
lost answers stay in. `IndInv` is the argument: locks are with those who need them
(`LocksHeld`); whoever has committed PURCHASE_PENDING or PROVISIONING owns the row and
its `age` is fresh (`BuyerHolds`), which keeps staff recovery away; at most one purchase
per number is under way (`OnePurchase`), which for the steps without a lock is exactly
what the three excluded faults break; numbers being released are in service
(`CancelHolds`, `TeardownHolds`). From it follow `PurchaseIsExclusive`,
`NumbersAreNotClobbered`, `CustomerSuspensionIsKept`, `CancelledNumbersAreReleased`, and
`MarketImplemented`: each step is a step of `NumberMarket` or a stutter. Two more invariants
hold up to the first fault, `faultless`: a row in flight is the row of a request that is
buying it (`PurchasesSettle` itself is inductive beside `IndInv`), which is
`NumbersInFlightAreBought`; and what the provider holds is what the rows say, but for a sale
or a release that has been made and is not yet committed (`ProviderAgrees`), which is
`ProviderIsInStep`. A fault ends both for good, since nothing in the code compares the two.

**Subscription.** `IndInv` says what each handler means to do with the row it has read.
`Intended`: the step from `read` to `new` is one of `Flow`, leaves the Stripe subscription
alone, and if it is to CANCELED Stripe has been told. `TrialsEnd`: an account past its
trial stays past it, since a handler that read TRIALING does not write that column, and
one that read no row cannot create a second. `PaidFor`: a Stripe subscription,
live or on the row, belongs to a session that was paid for. These hold whatever overlaps and dies, and
give `EndedStaysEnded` and `CanceledAfterStripe`: on a row that is still as it was read,
a commit does exactly what was intended. `OneSubscriptionIsCharged` is stated under
`calm`, where one handler at a time is amid its steps (`Alone`) and the row is as it read
it (`AsRead`). ZoikoNex events carry neither order nor the payment they are about, and one
delivered late does revive a canceled account: `StatusFlow` leaves their commits out.

**BillingCycle.** `Underway` is the invariant: who is approving is not who requested,
what an approval has marked is on its invoice, an invoice once issued stays so. It needs
neither `calm` nor the lock, since lines, notes and issued invoices are never taken back
(`Grows`). `NoChargeIsLost` and `TwoStaffMembersAgreed` follow for any overlap and any
death. `NotesAreIssuedOnce` and `NoChargeIsBilledTwice` are stated under `calm`, and rest
on two more invariants: `Alone` (one approval is amid its steps and its request is still
PENDING) gives `NotesOnce` (a note that was issued belongs to a request that is EXECUTED,
or about to be), and `Ledger` says of each line of an invoice where its charge stands.

**The smaller modules.** Each proof rests on one invariant, named in its module.

* `Routing_proofs`: `FlowInv`. Versions are numbered by their place (`Numbered`),
  and who publishes or rolls back holds the locks and still has before it what it read
  under them (`LockedIn`). `OneLiveVersion` is its consequence for any number of admins;
  the lock is needed in exactly the two steps that write a status. `Routed`: wherever a call
  stands, waits or is queued, that node is in the graph, and every edge of a graph that
  validation let through leads to a node (`WellFormed`). Validation looks at each node and so
  does the proof: `CallsStayInTheFlow` needs no induction over paths.
* `CallQueue_proofs`: `LogInv`. Whoever has a call out for a caller, his reservation not
  given back, has its row, or the row can no longer be pulled (`ReservedOut`). Twilio's line plays no part, which is why
  the theorem holds however the two queues diverge; `QueueInv` adds the types of both.
* `Trust_proofs`: `CaseInv`. A session that has decided is no longer the inquiry
  of the case, or the case is not pending (`SpentSession`): a restart sets PENDING and a
  new inquiry in one commit. While no two decisions overlap (`alone`), who decides for a
  session is the only one, and the session has not decided before. `RiskInv`: an account
  over the threshold has a signal that is still to be scored, or is being acted upon, or died on the
  way; or its numbers are suspended already and so is its state, unless it was overwritten
  (`OverIsSuspended`); that a
  larger set of signals scores no less is all it takes, so weights and cap are arbitrary.
  `EvidenceAtRest`: under a hold nothing of the evidence comes into
  anybody's hands, since each item is checked anew before it is deleted.
* `Records_proofs`: `PortInv` (who is about to name a created number has created it, and
  an e164 changes hands only through a row that nobody deletes), `LedgerInv` (who is about
  to write "adjusted" has adjusted, and the first to write over a cost he had not read ends
  what is said of the chain),
  `OutboxInv` (the consumer is at most one message ahead of its offset, and gives up none
  that is not buried), `RecordInv` (what is metered, and what meters, is about a call that
  is over). `RowsTellTwiliosOutcome`: a final status on a row is Twilio's, since a final
  webhook is sent after the end and a call ends once; `AuditInv` carries this to the
  exceptions, which are opened from rows (`ExceptionsAreReal`).
* `Platform_proofs`: `OpensAtThreshold` of the breaker: the count and the state agree,
  however late an answer is counted. `NamesSubmittedBundle`: a row names a bundle only after
  Twilio took it for review, and bundles never go back. `RoomInv`: who is about to end a
  session has closed its room, where nothing can be started (`NothingRunsAfterTheEnd`).
  `FateIsOfSentMail`: Resend knows only what was handed to it, and so a webhook never finds
  a delivery that was suppressed (`SuppressedMailStays`). `CopiesKnowTheRole`: no handler
  changes a role, an owner is not removed, and a removed user's id is not used again; a copy
  merged back, which may revive a member (`identity_writeback`), then leaves all roles and
  owners as they are (`RolesAreKept`).
* `MCPlatform`: a step of a scene is a step of one component and a stutter of the others
  (`ScenesAreApart`), so the invariants above hold side by side: `PlatformTypeCorrect` and
  `PlatformIsSafe`.

**Only model-checked.** Liveness (`RequestsFinish`, `PaidIsHonoured`,
`ApprovalsEnd`, `CallersLeave`, `SlotsAreFreed`, `RecordingsSettle`, `DecisionIsNoticed`,
`HealthyIsUsed`, `CopiesCatchUp`, `CallsStayAccountedFor`, `BouncesSuppress`): temporal
properties under fairness are out of the prover's reach. So is what the six violated runs
show, which a counterexample settles.

## What the models show beside their properties

Behaviours of the code that are in the models, contradict no comment or only a general
one, and are worth knowing:

* No handler of a subscription locks its row, and each writes over whatever it has
  become since it was read. A payment event that read ACTIVE before a cancellation
  committed revives the account, although `handle_stripe_subscription_payment_webhook`
  checks the status because a late event "would resurrect a canceled subscription"
  (`billing/service.py:1713-1717`). A checkout recorded between the call of Stripe and the commit of
  a cancellation leaves a CANCELED row with a live Stripe subscription. Two checkouts completed at
  once leave two live ones, of which neither handler supersedes the other. Of two handlers that create the row one
  fails.
* A hold queue's log may name another agent than the one who talks (`mark_answered`
  answers the oldest row, Twilio bridges the head of its own queue). A dispatch that fails
  for us and succeeded at Twilio gives the reservation back while the agent's phone rings:
  a second agent is called for the same caller. A wait webhook handled after the hang-up
  was reported enters a row that nothing closes.
* A request for porting that was canceled under its completion owns a number.
* Two adjustments that read the same cost lose one update of it: both rows stay in the
  ledger, and the second starts from a cost that is gone. A rating that is written late
  does the same to an adjustment.
* Two deliveries of one event of Stripe Identity that both find the case pending both
  decide it, although "a second delivery of the same completed/failed event must not
  re-approve/re-reject" (`compliance/service.py:647-653`); so do a delivery and staff, and
  the second to commit has the last word.
* `_transition_risk_state` compares the new state with the one it read and then writes it:
  a step-up that read the account before a suspension committed sets it back to a state
  that may call, against its docstring ("Guards against, e.g., a KYC-approval step-up accidentally
  downgrading an account", `risk/service.py:877-880`). The numbers stay suspended.
* Two signals scored at once open two fraud cases.
* A compliance case that expired and is restarted keeps its old `expires_at`, so the next
  sweep expires it again; two uploads at once keep one document; the sweep expires a case
  approved after its query.
* A bundle submitted again leaves its eligibility case REJECTED, where the daily sweep does
  not look. Fresh evidence makes the case PENDING while its bundle is still the rejected
  one, and the sweep rejects it again. A stale answer written over a new bundle's status
  lets a third be submitted, and a death amid a submission leaves a bundle at Twilio that
  no row names.
* A recording whose deletion Twilio carried out without our seeing the answer is refused
  by every later purge, and keeps its link.
* A request that loaded its user itself merges only what it changes, but what it checks may
  be gone: `enable_mfa` after a `disable_mfa` leaves the second factor on without a secret.
* A customer who unsubscribes from an e-mail whose template has no domain
  (`video.guest_waiting`) is suppressed with a NULL domain, as if the address had bounced:
  security e-mails stop too, although the docstring of `unsubscribe_via_token` says "never
  account-wide".
* A send whose answer is lost is recorded as FAILED without Resend's id: its later webhooks
  find no delivery, though a bounce is suppressed all the same. Webhooks set the status in
  the order of arrival.
* A call metered between the two reads of a reconciliation is reported; the exception stays
  open until staff close it. One that staff close while the call is still unmetered is
  opened again the next day.
* A hundred outbox rows that cannot be published keep all later ones waiting; rows can be
  published twice and out of order.

## What is not modelled

`PROJECT.json` has every component with its status and the reason. In the modelled ones:
prices, taxes, currencies and wording; renewals; caller identities; the AI add-on;
voicemail, transcripts and guests; the settings, lists and reports of every component.
ZoikoNex, Stripe, Twilio, LiveKit and Kafka are modelled from how the code uses them.
Sessions that deadlock in PostgreSQL are not: a handler locks the rows of one number,
request, flow or case at a time, except the teardown, and with one number `RequestsFinish`
shows only that its waits end where no cycle of locks is possible.

Most of the repository by size is not the kind of code a model says anything about. About
half is the web frontend, the state of a browser page. Of the backend the larger part is
schema history, templates of e-mails, request and response shapes, lists, filters and
dashboards, adapters that turn a call into an HTTP request, and rows that are created,
edited and deleted by one caller with nothing in between. What has several actors, several
commits, an outside service or a lifecycle is modelled, but for these:

* SMS and push notifications, the digest and internal alerts: one row or request per
  message;
* the AI receptionist: a check, a slow call of a language model, and an insert under a
  unique key; a repeated request fails and changes nothing;
* staff members: the check that one administrator remains is made without a lock, so two
  deactivations at once can remove the last two; and a staff row cached as active is
  served for up to 30 s after its deactivation, which `staff/service.py:122-127` denies;
* `numbering/numbers` and `billing` together: a purchase that commits and dies before it
  records its charge is never billed.

## Plan

1. `NumberSale`: `NumberLifecycle` composed with `BillingCycle`, for the charge of a
   purchase that dies between the two.
2. `StaffDirectory`: deactivation and revocation under overlapping requests, with the cache
   of staff rows as in `Identity`; the remaining legs of `Reconciliation`.
3. Proofs that the safety halves of the liveness properties rest on: that what is left to a
   sweep (a row in progress, a pending case, an unmetered call) is always within its query.
4. One abstract specification, "decided once", that porting, disputes, compliance and
   eligibility cases refine as far as they do.
