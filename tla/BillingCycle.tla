---------------------------- MODULE BillingCycle ----------------------------
(***************************************************************************)
(* Staff billing actions (billing/service.py): one staff member requests a *)
(* billing cycle or a note, another approves it, and the approval runs it  *)
(* against ZoikoNex, which holds the invoices of the account.              *)
(*                                                                         *)
(* approve_billing_action locks the request, but the first commit of what  *)
(* it runs ends the transaction and with it the lock.  Terminations take   *)
(* the same path; what they do is in Subscription.                         *)
(***************************************************************************)
EXTENDS Integers, FiniteSets

CONSTANTS
    Requests,   \* rows of billing_action_requests
    KindOf,     \* what each asks for: "cycle" or "note"
    Staff,      \* staff members who may request and approve
    Charges,    \* rows of pending_account_charges
    LastPeriod, \* bound on the clock, in billing periods
    MaxNotes,   \* bound on the notes one request is executed for
    Workers,    \* the processes handling approvals
    Faults,     \* "crash": a worker dies, or an answer of ZoikoNex is lost
    None

ASSUME KindAssumption == KindOf \in [Requests -> {"cycle", "note"}]
ASSUME PeriodAssumption == LastPeriod \in Nat /\ MaxNotes \in Nat
ASSUME NoneAssumption == None \notin Requests \cup Staff \cup Workers \cup Nat
ASSUME FaultsAssumption == Faults \subseteq {"crash"}

VARIABLES
    now,        \* the billing period the clock is in
    period,     \* the one the subscription's row is in; None: not created yet, or
                \* not known to ZoikoNex
    request,    \* the requests
    lock,       \* the worker holding the row lock of each request
    charge,     \* the charges: their status and the period they are invoiced in
    invoice,    \* ZoikoNex: the invoice of each period
    lines,      \* ZoikoNex: the charges that are lines of it
    notes,      \* ZoikoNex: how many notes each request has issued
    job,        \* what each worker is in the middle of
    calm        \* no worker has died, and none has begun or rejected beside another

vars == <<now, period, request, lock, charge, invoice, lines, notes, job, calm>>
zoikonex == <<invoice, lines, notes>>

-----------------------------------------------------------------------------
Periods == 0..LastPeriod

\* The APPROVED of the enum is never written.
Request == [status : {"none", "PENDING", "EXECUTED", "REJECTED"},
            requested_by : Staff \cup {None}, approved_by : Staff \cup {None}]
Charge  == [status : {"none", "PENDING", "INVOICED"}, invoice : Periods \cup {None}]

\* op: where run_billing_cycle or the issue of a note has got to.  r, by: the
\* request and who approves it; p: the period the row was read in; todo: charges
\* read and still to be added; marked: those added, INVOICED in the session only.
Op  == {"idle", "cycle", "lines", "issued", "collect", "note", "noted", "executed"}
Job == [op : Op, r : Requests \cup {None}, by : Staff \cup {None}, p : Periods,
        todo : SUBSET Charges, marked : SUBSET Charges]

Idle == [op |-> "idle", r |-> None, by |-> None, p |-> 0, todo |-> {}, marked |-> {}]

TypeOK ==
    /\ now \in Periods
    /\ period \in Periods \cup {None}
    /\ request \in [Requests -> Request]
    /\ lock \in [Requests -> Workers \cup {None}]
    /\ charge \in [Charges -> Charge]
    /\ invoice \in [Periods -> {"none", "DRAFT", "ISSUED"}]
    /\ lines \in [Periods -> SUBSET Charges]
    /\ notes \in [Requests -> 0..MaxNotes]
    /\ job \in [Workers -> Job]
    /\ calm \in BOOLEAN

Init ==
    /\ now = 0
    /\ period \in {0, None}
    /\ request = [r \in Requests |->
                    [status |-> "none", requested_by |-> None, approved_by |-> None]]
    /\ lock = [r \in Requests |-> None]
    /\ charge = [c \in Charges |-> [status |-> "none", invoice |-> None]]
    /\ invoice = [p \in Periods |-> "none"]
    /\ lines = [p \in Periods |-> {}]
    /\ notes = [r \in Requests |-> 0]
    /\ job = [w \in Workers |-> Idle]
    /\ calm = TRUE

-----------------------------------------------------------------------------
request_billing_action(r, s) ==
    /\ request[r].status = "none"
    /\ request' = [request EXCEPT ![r].status = "PENDING", ![r].requested_by = s]
    /\ UNCHANGED <<now, period, lock, charge, job, calm, zoikonex>>

record_pending_number_charge(c) ==
    /\ charge[c].status = "none"
    /\ charge' = [charge EXCEPT ![c].status = "PENDING"]
    /\ UNCHANGED <<now, period, request, lock, job, calm, zoikonex>>

period_ends ==
    /\ now < LastPeriod
    /\ now' = now + 1
    /\ UNCHANGED <<period, request, lock, charge, job, calm, zoikonex>>

\* Mutant: the requester may resolve the request as well.
ResolvableByAnyone(r, s) ==
    /\ lock[r] = None
    /\ request[r].status = "PENDING"

\* Mutant: a request may be resolved again.
ResolvableAgain(r, s) ==
    /\ lock[r] = None
    /\ request[r].requested_by \notin {None, s}

\* The lock is the row lock of SELECT ... FOR UPDATE: another transaction waits.
Resolvable(r, s) ==
    /\ lock[r] = None
    /\ request[r].status = "PENDING"
    /\ request[r].requested_by # s

reject_billing_action(r, s) ==
    /\ Resolvable(r, s)
    /\ request' = [request EXCEPT ![r].status = "REJECTED", ![r].approved_by = s]
    /\ calm' = (calm /\ \A w \in Workers : job[w] = Idle)
    /\ UNCHANGED <<now, period, lock, charge, job, zoikonex>>

\* The request is locked and its action begins.
Begin(w, r, s, op, p) ==
    /\ job[w] = Idle
    /\ Resolvable(r, s)
    /\ job' = [job EXCEPT ![w] = [Idle EXCEPT !.op = op, !.r = r, !.by = s, !.p = p]]
    /\ calm' = (calm /\ \A v \in Workers : job[v] = Idle)

\* A period that has lapsed is rolled over first, and a subscription ZoikoNex does
\* not know is synced, by a commit of its own.
approve_billing_cycle(w, r, s) ==
    /\ KindOf[r] = "cycle"
    /\ Begin(w, r, s, "cycle", now)
    /\ period' = now
    /\ lock' = [lock EXCEPT ![r] = IF period = now THEN w ELSE None]
    /\ UNCHANGED <<now, request, charge, zoikonex>>

approve_note(w, r, s) ==
    /\ KindOf[r] = "note"
    /\ Begin(w, r, s, "note", 0)
    /\ lock' = [lock EXCEPT ![r] = w]
    /\ UNCHANGED <<now, period, request, charge, zoikonex>>

Goto(w, op) == job' = [job EXCEPT ![w].op = op]

\* What is held until the transaction ends.
Released(w) == [r \in Requests |-> IF lock[r] = w THEN None ELSE lock[r]]

-----------------------------------------------------------------------------
(* run_billing_cycle.                                                      *)

\* Nothing to bill: canceled, no price, and the action is done.
cycle_not_billed(w) ==
    /\ job[w].op = "cycle"
    /\ Goto(w, "executed")
    /\ UNCHANGED <<now, period, request, lock, charge, calm, zoikonex>>

Pending == {c \in Charges : charge[c].status = "PENDING"}

\* create_invoice and get_invoice: the first run of the period finds a DRAFT.
cycle_opens_invoice(w) ==
    LET p == job[w].p IN
    /\ job[w].op = "cycle"
    /\ invoice[p] # "ISSUED"
    /\ invoice' = [invoice EXCEPT ![p] = "DRAFT"]
    /\ job' = [job EXCEPT ![w].op = "lines", ![w].todo = Pending]
    /\ UNCHANGED <<now, period, request, lock, charge, lines, notes, calm>>

cycle_finds_it_issued(w) ==
    /\ job[w].op = "cycle"
    /\ invoice[job[w].p] = "ISSUED"
    /\ Goto(w, "collect")
    /\ lock' = Released(w)
    /\ UNCHANGED <<now, period, request, charge, calm, zoikonex>>

\* Mutant: each charge is committed with its line.
add_invoice_line_item_committed(w, c) ==
    LET p == job[w].p IN
    /\ job[w].op = "lines"
    /\ c \in job[w].todo
    /\ invoice[p] = "DRAFT" \/ c \in lines[p]
    /\ lines' = [lines EXCEPT ![p] = @ \cup {c}]
    /\ job' = [job EXCEPT ![w].todo = @ \ {c}]
    /\ charge' = [charge EXCEPT ![c] = [status |-> "INVOICED", invoice |-> p]]
    /\ UNCHANGED <<now, period, request, lock, invoice, notes, calm>>

\* A line of an ISSUED invoice is refused; one sent before is replayed.
add_invoice_line_item(w, c) ==
    LET p == job[w].p IN
    /\ job[w].op = "lines"
    /\ c \in job[w].todo
    /\ invoice[p] = "DRAFT" \/ c \in lines[p]
    /\ lines' = [lines EXCEPT ![p] = @ \cup {c}]
    /\ job' = [job EXCEPT ![w].todo = @ \ {c}, ![w].marked = @ \cup {c}]
    /\ UNCHANGED <<now, period, request, lock, charge, invoice, notes, calm>>

Invoiced(w) == [c \in Charges |->
    IF c \in job[w].marked THEN [status |-> "INVOICED", invoice |-> job[w].p]
    ELSE charge[c]]

issue_invoice(w) ==
    /\ job[w].op = "lines"
    /\ job[w].todo = {}
    /\ invoice' = [invoice EXCEPT ![job[w].p] = "ISSUED"]
    /\ Goto(w, "issued")
    /\ UNCHANGED <<now, period, request, lock, charge, lines, notes, calm>>

\* The commit of the charges, in the receipt's notification or right after it.
cycle_commits(w) ==
    /\ job[w].op = "issued"
    /\ charge' = Invoiced(w)
    /\ lock' = Released(w)
    /\ Goto(w, "collect")
    /\ UNCHANGED <<now, period, request, calm, zoikonex>>

\* One payment intent per invoice, whatever is repeated; a capture that fails is
\* authorised, and good enough.
collect_payment(w) ==
    /\ job[w].op = "collect"
    /\ Goto(w, "executed")
    /\ UNCHANGED <<now, period, request, lock, charge, calm, zoikonex>>

-----------------------------------------------------------------------------
(* Notes, and the end of an approval.                                      *)

\* issue_invoice_credit_note, issue_invoice_debit_note, refund_zoikonex_payment:
\* a fresh idempotency key every time.
issue_note(w) ==
    /\ job[w].op = "note"
    /\ notes[job[w].r] < MaxNotes
    /\ notes' = [notes EXCEPT ![job[w].r] = @ + 1]
    /\ Goto(w, "noted")
    /\ UNCHANGED <<now, period, request, lock, charge, invoice, lines, calm>>

note_commits(w) ==
    /\ job[w].op = "noted"
    /\ lock' = Released(w)
    /\ Goto(w, "executed")
    /\ UNCHANGED <<now, period, request, charge, calm, zoikonex>>

\* Mutant: the approval is recorded in a step of its own, and never executed.
approve_billing_action_only(w) ==
    LET j == job[w] IN
    /\ j.op = "executed"
    /\ lock[j.r] \in {None, w}
    /\ request' = [request EXCEPT ![j.r].status = "APPROVED", ![j.r].approved_by = j.by]
    /\ lock' = Released(w)
    /\ job' = [job EXCEPT ![w] = Idle]
    /\ UNCHANGED <<now, period, charge, calm, zoikonex>>

\* The request is written whatever has become of it, when its row is free.
approve_billing_action(w) ==
    LET j == job[w] IN
    /\ j.op = "executed"
    /\ lock[j.r] \in {None, w}
    /\ request' = [request EXCEPT ![j.r].status = "EXECUTED", ![j.r].approved_by = j.by]
    /\ lock' = Released(w)
    /\ job' = [job EXCEPT ![w] = Idle]
    /\ UNCHANGED <<now, period, charge, calm, zoikonex>>

\* Mutant: what is raised after ZoikoNex has answered aborts the approval too.
approval_raises_anywhere(w) ==
    /\ job[w] # Idle
    /\ job' = [job EXCEPT ![w] = Idle]
    /\ lock' = Released(w)
    /\ UNCHANGED <<now, period, request, charge, calm, zoikonex>>

\* Mutant: the transaction of an approval that fails is left open.
approval_raises_open(w) ==
    /\ job[w].op \in {"cycle", "lines", "collect", "note"}
    /\ job' = [job EXCEPT ![w] = Idle]
    /\ UNCHANGED <<now, period, request, lock, charge, calm, zoikonex>>

\* ZoikoNex refuses the next call: the session is rolled back, and the request
\* stays PENDING.
approval_raises(w) ==
    /\ job[w].op \in {"cycle", "lines", "collect", "note"}
    /\ job' = [job EXCEPT ![w] = Idle]
    /\ lock' = Released(w)
    /\ UNCHANGED <<now, period, request, charge, calm, zoikonex>>

\* The same for a worker that dies and for an answer that is lost.
approval_dies(w) ==
    /\ "crash" \in Faults
    /\ job[w] # Idle
    /\ job' = [job EXCEPT ![w] = Idle]
    /\ lock' = Released(w)
    /\ calm' = FALSE
    /\ UNCHANGED <<now, period, request, charge, zoikonex>>

-----------------------------------------------------------------------------
Cycle(w) ==
    \/ cycle_not_billed(w) \/ cycle_opens_invoice(w) \/ cycle_finds_it_issued(w)
    \/ \E c \in Charges : add_invoice_line_item(w, c)
    \/ issue_invoice(w) \/ cycle_commits(w) \/ collect_payment(w)

Approval(w) ==
    \/ Cycle(w)
    \/ issue_note(w) \/ note_commits(w) \/ approve_billing_action(w)
    \/ approval_raises(w)

Next ==
    \/ period_ends
    \/ \E c \in Charges : record_pending_number_charge(c)
    \/ \E r \in Requests, s \in Staff :
          \/ request_billing_action(r, s)
          \/ reject_billing_action(r, s)
          \/ \E w \in Workers : approve_billing_cycle(w, r, s) \/ approve_note(w, r, s)
    \/ \E w \in Workers : Approval(w) \/ approval_dies(w)

Spec == Init /\ [][Next]_vars

\* A call of ZoikoNex is answered or times out, and commits and the waits for
\* row locks end.
FairSpec == Spec /\ \A w \in Workers : SF_vars(Approval(w))

-----------------------------------------------------------------------------
(* Properties.                                                             *)

\* What is INVOICED here is a line of an invoice ISSUED there, whatever dies,
\* fails or overlaps: no charge is lost (run_billing_cycle commits after
\* issue_invoice).
InvoicedIsBilled ==
    \A c \in Charges : charge[c].status = "INVOICED" =>
        LET p == charge[c].invoice IN
        /\ p # None
        /\ c \in lines[p]
        /\ invoice[p] = "ISSUED"

\* "status == PENDING already means never invoiced" (run_billing_cycle), but
\* for a run that has just issued the invoice and is about to commit.
PendingIsNeverInvoiced ==
    \A c \in Charges, p \in Periods :
        charge[c].status = "PENDING" /\ c \in lines[p] /\ invoice[p] = "ISSUED" =>
            \E w \in Workers : job[w].op = "issued" /\ c \in job[w].marked

\* As long as approvals neither overlap nor die a charge is on one issued
\* invoice at most.
ChargedOnce ==
    calm => \A c \in Charges :
        Cardinality({p \in Periods : c \in lines[p] /\ invoice[p] = "ISSUED"}) <= 1

\* An action that was executed had the approval of somebody else than who
\* requested it, and did at ZoikoNex what it was for
\* (BillingActionRequest: "a second, distinct staff actor").
ExecutedIsApproved ==
    \A r \in Requests : request[r].status = "EXECUTED" =>
        /\ request[r].approved_by \notin {None, request[r].requested_by}
        /\ KindOf[r] = "note" => notes[r] > 0

\* As long as approvals neither overlap nor die, a request is resolved once
\* and a note issued once, however often its approval failed and was repeated.
ResolvedOnce ==
    calm => \A r \in Requests :
        /\ notes[r] <= 1
        /\ request[r].status = "REJECTED" => notes[r] = 0

\* What an approval relies on from one of its steps to the next, whoever
\* overlaps it: who approves is not who requested, a billing cycle is run for a
\* request of that kind, the charges it has marked are lines of its invoice, and
\* an invoice once ISSUED stays so (_execute_billing_action, run_billing_cycle).
UnderwayIn(w) ==
    LET j == job[w]
        p == job[w].p
    IN
    /\ j.op # "idle" =>
          /\ j.r \in Requests
          /\ j.by \in Staff
          /\ request[j.r].requested_by \in Staff \ {j.by}
          /\ request[j.r].status # "none"
    /\ j.op \in {"cycle", "lines", "issued", "collect"} => KindOf[j.r] = "cycle"
    /\ j.op = "noted" => notes[j.r] > 0
    /\ j.op = "cycle" => j.marked = {}
    /\ j.op = "executed" /\ KindOf[j.r] = "note" => notes[j.r] > 0
    /\ j.op = "lines" => invoice[p] # "none" /\ j.marked \subseteq lines[p]
    /\ j.op = "issued" => invoice[p] = "ISSUED" /\ j.marked \subseteq lines[p]

Requested ==
    \A r \in Requests :
        request[r].status # "none" => request[r].requested_by \in Staff

Underway == Requested /\ \A w \in Workers : UnderwayIn(w)

\* No approval waits for ever for the row of its request: whoever holds it
\* commits or is rolled back (approve_billing_action).
ApprovalsEnd ==
    \A w \in Workers : job[w] # Idle ~> job[w] = Idle
=============================================================================
