------------------------ MODULE BillingCycle_proofs ------------------------
(***************************************************************************)
(* What holds of every instance of BillingCycle: for any requests, staff,  *)
(* charges, workers and periods, and whatever dies.                        *)
(***************************************************************************)
EXTENDS BillingCycle, FiniteSetTheorems, TLAPS

\* A request that is written is a request.
LEMMA RequestWritten ==
    ASSUME TypeOK, NEW r \in Requests, NEW st \in {"PENDING", "EXECUTED", "REJECTED"},
           NEW q \in Staff \cup {None}, NEW a \in Staff \cup {None}
    PROVE  /\ [request EXCEPT ![r].status = st, ![r].approved_by = a]
                 \in [Requests -> Request]
           /\ [request EXCEPT ![r].status = st, ![r].requested_by = q]
                 \in [Requests -> Request]
  <1>1. request[r] \in Request /\ request \in [Requests -> Request]
    BY DEF TypeOK
  <1>2. /\ [request[r] EXCEPT !.status = st, !.approved_by = a] \in Request
        /\ [request[r] EXCEPT !.status = st, !.requested_by = q] \in Request
    BY <1>1 DEF Request
  <1> QED
    BY <1>1, <1>2

\* A job that goes on, or starts, or ends, is a job.
LEMMA JobWritten ==
    ASSUME TypeOK, NEW w \in Workers
    PROVE  /\ \A op \in Op : [job EXCEPT ![w].op = op] \in [Workers -> Job]
           /\ [job EXCEPT ![w] = Idle] \in [Workers -> Job]
           /\ \A C \in SUBSET Charges :
                 [job EXCEPT ![w].op = "lines", ![w].todo = C] \in [Workers -> Job]
           /\ \A c \in Charges :
                 [job EXCEPT ![w].todo = @ \ {c}, ![w].marked = @ \cup {c}]
                    \in [Workers -> Job]
           /\ \A op \in Op, r \in Requests, s \in Staff, p \in Periods :
                 [job EXCEPT ![w] = [Idle EXCEPT !.op = op, !.r = r, !.by = s, !.p = p]]
                    \in [Workers -> Job]
  <1>1. job \in [Workers -> Job] /\ job[w] \in Job
    BY DEF TypeOK
  <1>2. Idle \in Job
    BY PeriodAssumption DEF Idle, Job, Op, Periods
  <1>3. \A op \in Op : [job[w] EXCEPT !.op = op] \in Job
    BY <1>1 DEF Job
  <1>4. \A C \in SUBSET Charges : [job[w] EXCEPT !.op = "lines", !.todo = C] \in Job
    BY <1>1 DEF Job, Op
  <1>5. \A c \in Charges :
            [job[w] EXCEPT !.todo = @ \ {c}, !.marked = @ \cup {c}] \in Job
    BY <1>1 DEF Job
  <1>6. \A op \in Op, r \in Requests, s \in Staff, p \in Periods :
            [Idle EXCEPT !.op = op, !.r = r, !.by = s, !.p = p] \in Job
    BY <1>2 DEF Job
  <1> QED
    BY <1>1, <1>2, <1>3, <1>4, <1>5, <1>6

\* A lock that is taken or dropped is a lock.
LEMMA LockWritten ==
    ASSUME TypeOK, NEW w \in Workers
    PROVE  /\ Released(w) \in [Requests -> Workers \cup {None}]
           /\ \A r \in Requests, x \in Workers \cup {None} :
                 [lock EXCEPT ![r] = x] \in [Requests -> Workers \cup {None}]
  BY DEF TypeOK, Released

\* Only requests are approved, by staff.
LEMMA ApprovedBySomebody ==
    ASSUME TypeOK, Underway, NEW w \in Workers, job[w].op # "idle"
    PROVE  job[w].r \in Requests /\ job[w].by \in Staff
  BY DEF Underway, UnderwayIn

\* A step keeps the types.
LEMMA TypeStep ==
    ASSUME TypeOK, Underway, [Next]_vars
    PROVE  TypeOK'
<1>1. CASE period_ends
    BY <1>1, PeriodAssumption DEF period_ends, zoikonex, TypeOK, Periods
<1>2. ASSUME NEW c \in Charges, record_pending_number_charge(c)
      PROVE  TypeOK'
  <2>1. [charge[c] EXCEPT !.status = "PENDING"] \in Charge
    BY DEF TypeOK, Charge
  <2>2. charge' \in [Charges -> Charge]
    BY <1>2, <2>1 DEF record_pending_number_charge, TypeOK
  <2> QED
    BY <1>2, <2>2 DEF record_pending_number_charge, zoikonex, TypeOK
<1>3. ASSUME NEW r \in Requests, NEW s \in Staff, request_billing_action(r, s)
      PROVE  TypeOK'
  <2>1. request' \in [Requests -> Request]
    BY <1>3, RequestWritten DEF request_billing_action
  <2> QED
    BY <1>3, <2>1 DEF request_billing_action, zoikonex, TypeOK
<1>4. ASSUME NEW r \in Requests, NEW s \in Staff, reject_billing_action(r, s)
      PROVE  TypeOK'
  <2>1. request' \in [Requests -> Request]
    BY <1>4, RequestWritten DEF reject_billing_action
  <2>2. calm' \in BOOLEAN
    BY <1>4 DEF reject_billing_action
  <2> QED
    BY <1>4, <2>1, <2>2 DEF reject_billing_action, zoikonex, TypeOK
<1>5. ASSUME NEW r \in Requests, NEW s \in Staff, NEW w \in Workers,
             approve_billing_cycle(w, r, s)
      PROVE  TypeOK'
  <2>1. now \in Periods /\ "cycle" \in Op
    BY DEF TypeOK, Op
  <2>2. job' \in [Workers -> Job]
    BY <1>5, <2>1, JobWritten DEF approve_billing_cycle, Begin
  <2>3. lock' \in [Requests -> Workers \cup {None}]
    BY <1>5, LockWritten DEF approve_billing_cycle
  <2>4. calm' \in BOOLEAN
    BY <1>5 DEF approve_billing_cycle, Begin
  <2> QED
    BY <1>5, <2>1, <2>2, <2>3, <2>4 DEF approve_billing_cycle, zoikonex, TypeOK
<1>6. ASSUME NEW r \in Requests, NEW s \in Staff, NEW w \in Workers, approve_note(w, r, s)
      PROVE  TypeOK'
  <2>1. 0 \in Periods /\ "note" \in Op
    BY PeriodAssumption DEF Periods, Op
  <2>2. job' \in [Workers -> Job]
    BY <1>6, <2>1, JobWritten DEF approve_note, Begin
  <2>3. lock' \in [Requests -> Workers \cup {None}]
    BY <1>6, LockWritten DEF approve_note
  <2>4. calm' \in BOOLEAN
    BY <1>6 DEF approve_note, Begin
  <2> QED
    BY <1>6, <2>2, <2>3, <2>4 DEF approve_note, zoikonex, TypeOK
<1>7. ASSUME NEW w \in Workers, Cycle(w)
      PROVE  TypeOK'
  <2>0. job[w].p \in Periods
    BY DEF TypeOK, Job
  <2>1. CASE cycle_not_billed(w)
    <3>1. job' \in [Workers -> Job]
      BY <2>1, JobWritten DEF cycle_not_billed, Goto, Op
    <3> QED
      BY <2>1, <3>1 DEF cycle_not_billed, zoikonex, TypeOK
  <2>2. CASE cycle_opens_invoice(w)
    <3>1. job' \in [Workers -> Job]
      BY <2>2, JobWritten DEF cycle_opens_invoice, Pending
    <3> QED
      BY <2>0, <2>2, <3>1 DEF cycle_opens_invoice, TypeOK
  <2>3. CASE cycle_finds_it_issued(w)
    <3>1. job' \in [Workers -> Job]
      BY <2>3, JobWritten DEF cycle_finds_it_issued, Goto, Op
    <3> QED
      BY <2>3, <3>1, LockWritten DEF cycle_finds_it_issued, zoikonex, TypeOK
  <2>4. ASSUME NEW c \in Charges, add_invoice_line_item(w, c)
        PROVE  TypeOK'
    <3>1. job' \in [Workers -> Job]
      BY <2>4, JobWritten DEF add_invoice_line_item
    <3>2. lines' \in [Periods -> SUBSET Charges]
      BY <2>0, <2>4 DEF add_invoice_line_item, TypeOK
    <3> QED
      BY <2>4, <3>1, <3>2 DEF add_invoice_line_item, TypeOK
  <2>5. CASE issue_invoice(w)
    <3>1. job' \in [Workers -> Job]
      BY <2>5, JobWritten DEF issue_invoice, Goto, Op
    <3> QED
      BY <2>0, <2>5, <3>1 DEF issue_invoice, TypeOK
  <2>6. CASE cycle_commits(w)
    <3>1. job' \in [Workers -> Job]
      BY <2>6, JobWritten DEF cycle_commits, Goto, Op
    <3>2. [status |-> "INVOICED", invoice |-> job[w].p] \in Charge
      BY <2>0 DEF Charge
    <3>3. charge' \in [Charges -> Charge]
      BY <2>6, <3>2 DEF cycle_commits, Invoiced, TypeOK
    <3> QED
      BY <2>6, <3>1, <3>3, LockWritten DEF cycle_commits, zoikonex, TypeOK
  <2>7. CASE collect_payment(w)
    <3>1. job' \in [Workers -> Job]
      BY <2>7, JobWritten DEF collect_payment, Goto, Op
    <3> QED
      BY <2>7, <3>1 DEF collect_payment, zoikonex, TypeOK
  <2> QED
    BY <1>7, <2>1, <2>2, <2>3, <2>4, <2>5, <2>6, <2>7 DEF Cycle
<1>8. ASSUME NEW w \in Workers, issue_note(w)
      PROVE  TypeOK'
  <2>1. job' \in [Workers -> Job]
    BY <1>8, JobWritten DEF issue_note, Goto, Op
  <2>2. job[w].r \in Requests
    BY <1>8, ApprovedBySomebody DEF issue_note
  <2>3. notes' \in [Requests -> 0..MaxNotes]
    BY <1>8, <2>2, PeriodAssumption DEF issue_note, TypeOK
  <2> QED
    BY <1>8, <2>1, <2>3 DEF issue_note, TypeOK
<1>9. ASSUME NEW w \in Workers, note_commits(w)
      PROVE  TypeOK'
  <2>1. job' \in [Workers -> Job]
    BY <1>9, JobWritten DEF note_commits, Goto, Op
  <2> QED
    BY <1>9, <2>1, LockWritten DEF note_commits, zoikonex, TypeOK
<1>10. ASSUME NEW w \in Workers, approve_billing_action(w)
       PROVE  TypeOK'
  <2>1. job' \in [Workers -> Job]
    BY <1>10, JobWritten DEF approve_billing_action
  <2>2. job[w].r \in Requests /\ job[w].by \in Staff
    BY <1>10, ApprovedBySomebody DEF approve_billing_action
  <2>3. request' \in [Requests -> Request]
    <3>1. PICK r \in Requests, s \in Staff : r = job[w].r /\ s = job[w].by
      BY <2>2
    <3>2. request' = [request EXCEPT ![r].status = "EXECUTED", ![r].approved_by = s]
      BY <1>10, <3>1 DEF approve_billing_action
    <3> QED
      BY <3>2, RequestWritten
  <2> QED
    BY <1>10, <2>1, <2>3, LockWritten DEF approve_billing_action, zoikonex, TypeOK
<1>11. ASSUME NEW w \in Workers, approval_raises(w) \/ approval_dies(w)
       PROVE  TypeOK'
  <2>1. job' \in [Workers -> Job]
    <3>1. job' = [job EXCEPT ![w] = Idle]
      BY <1>11 DEF approval_raises, approval_dies
    <3> QED
      BY <3>1, JobWritten
  <2>2. lock' \in [Requests -> Workers \cup {None}]
    BY <1>11, LockWritten DEF approval_raises, approval_dies
  <2> QED
    BY <1>11, <2>1, <2>2 DEF approval_raises, approval_dies, zoikonex, TypeOK
<1>12. CASE UNCHANGED vars
  BY <1>12 DEF vars, TypeOK
<1> QED
  BY <1>1, <1>2, <1>3, <1>4, <1>5, <1>6, <1>7, <1>8, <1>9, <1>10, <1>11, <1>12
     DEF Next, Approval

-----------------------------------------------------------------------------
\* An approval that goes on changes the place it is at and nothing else of its job.
LEMMA GoesOn ==
    ASSUME TypeOK, NEW w \in Workers, NEW op \in Op, Goto(w, op)
    PROVE  /\ job'[w].op = op
           /\ job'[w].r = job[w].r /\ job'[w].by = job[w].by /\ job'[w].p = job[w].p
           /\ job'[w].todo = job[w].todo /\ job'[w].marked = job[w].marked
<1>1. job \in [Workers -> Job] /\ job[w] \in Job
  BY DEF TypeOK
<1>2. job' = [job EXCEPT ![w] = [job[w] EXCEPT !.op = op]]
  BY DEF Goto
<1>3. job'[w] = [job[w] EXCEPT !.op = op]
  BY <1>1, <1>2
<1> QED
  BY <1>1, <1>3 DEF Job

\* Each step of a billing cycle stays with its request and its period, and leads
\* to the lines, the issue, the collection or the end.
LEMMA CycleGoesOn ==
    ASSUME TypeOK, NEW w \in Workers, Cycle(w)
    PROVE  /\ UNCHANGED <<request, notes>>
           /\ job[w].op \in {"cycle", "lines", "issued", "collect"}
           /\ job'[w].op \in {"lines", "issued", "collect", "executed"}
           /\ job'[w].r = job[w].r /\ job'[w].by = job[w].by /\ job'[w].p = job[w].p
           /\ job'[w].op \in {"lines", "issued"} =>
                 \/ cycle_opens_invoice(w) \/ issue_invoice(w)
                 \/ \E c \in Charges : add_invoice_line_item(w, c)
<1>0. job \in [Workers -> Job] /\ job[w] \in Job
  BY DEF TypeOK
<1>1. CASE cycle_not_billed(w)
  BY <1>1, GoesOn DEF cycle_not_billed, zoikonex, Op
<1>2. CASE cycle_opens_invoice(w)
  <2>1. job'[w] = [job[w] EXCEPT !.op = "lines", !.todo = Pending]
    BY <1>0, <1>2 DEF cycle_opens_invoice
  <2> QED
    BY <1>0, <1>2, <2>1 DEF cycle_opens_invoice, Job
<1>3. CASE cycle_finds_it_issued(w)
  BY <1>3, GoesOn DEF cycle_finds_it_issued, zoikonex, Op
<1>4. ASSUME NEW c \in Charges, add_invoice_line_item(w, c)
      PROVE  /\ UNCHANGED <<request, notes>>
             /\ job[w].op = "lines" /\ job'[w].op = "lines"
             /\ job'[w].r = job[w].r /\ job'[w].by = job[w].by /\ job'[w].p = job[w].p
  <2>1. job'[w] = [job[w] EXCEPT !.todo = @ \ {c}, !.marked = @ \cup {c}]
    BY <1>0, <1>4 DEF add_invoice_line_item
  <2> QED
    BY <1>0, <1>4, <2>1 DEF add_invoice_line_item, Job
<1>5. CASE issue_invoice(w)
  BY <1>5, GoesOn DEF issue_invoice, Op
<1>6. CASE cycle_commits(w)
  BY <1>6, GoesOn DEF cycle_commits, zoikonex, Op
<1>7. CASE collect_payment(w)
  BY <1>7, GoesOn DEF collect_payment, zoikonex, Op
<1> QED
  BY <1>1, <1>2, <1>3, <1>4, <1>5, <1>6, <1>7 DEF Cycle

\* What a step leaves of the requests and of ZoikoNex.
Grows ==
    /\ \A r \in Requests :
          /\ request[r].status # "none" =>
                /\ request'[r].status # "none"
                /\ request'[r].requested_by = request[r].requested_by
          /\ notes'[r] >= notes[r]
    /\ \A p \in Periods :
          /\ invoice[p] # "none" => invoice'[p] # "none"
          /\ invoice[p] = "ISSUED" => invoice'[p] = "ISSUED"
          /\ lines[p] \subseteq lines'[p]

\* Requests are never withdrawn, notes and lines never taken back, and invoices
\* never reopened.
LEMMA StepGrows ==
    ASSUME TypeOK, Underway, [Next]_vars
    PROVE  Grows
<1>0. /\ request \in [Requests -> Request]
      /\ notes \in [Requests -> Nat]
      /\ \A w \in Workers : job[w].p \in Periods
  BY PeriodAssumption DEF TypeOK, Job
<1>1. CASE period_ends
  BY <1>0, <1>1 DEF period_ends, zoikonex, Grows
<1>2. ASSUME NEW c \in Charges, record_pending_number_charge(c)
      PROVE  Grows
  BY <1>0, <1>2 DEF record_pending_number_charge, zoikonex, Grows
<1>3. ASSUME NEW r \in Requests, NEW s \in Staff, request_billing_action(r, s)
      PROVE  Grows
  BY <1>0, <1>3 DEF request_billing_action, zoikonex, Grows, Request
<1>4. ASSUME NEW r \in Requests, NEW s \in Staff, reject_billing_action(r, s)
      PROVE  Grows
  BY <1>0, <1>4 DEF reject_billing_action, zoikonex, Grows, Request
<1>5. ASSUME NEW r \in Requests, NEW s \in Staff, NEW w \in Workers,
             approve_billing_cycle(w, r, s) \/ approve_note(w, r, s)
      PROVE  Grows
  BY <1>0, <1>5 DEF approve_billing_cycle, approve_note, zoikonex, Grows
<1>6. ASSUME NEW w \in Workers, Cycle(w)
      PROVE  Grows
  <2>1. UNCHANGED <<request, notes>>
    BY <1>6, CycleGoesOn
  <2>2. \A p \in Periods :
           /\ invoice[p] # "none" => invoice'[p] # "none"
           /\ invoice[p] = "ISSUED" => invoice'[p] = "ISSUED"
    BY <1>0, <1>6 DEF Cycle, cycle_not_billed, cycle_opens_invoice,
         cycle_finds_it_issued, add_invoice_line_item, issue_invoice, cycle_commits,
         collect_payment, zoikonex, TypeOK
  <2>3. \A p \in Periods : lines[p] \subseteq lines'[p]
    <3>1. ASSUME NEW c \in Charges, add_invoice_line_item(w, c)
          PROVE  \A p \in Periods : lines[p] \subseteq lines'[p]
      <4>1. lines' = [lines EXCEPT ![job[w].p] = lines[job[w].p] \cup {c}]
        BY <3>1 DEF add_invoice_line_item
      <4> QED
        BY <1>0, <4>1 DEF TypeOK
    <3>2. (\A c \in Charges : ~ add_invoice_line_item(w, c)) => UNCHANGED lines
      BY <1>6 DEF Cycle, cycle_not_billed, cycle_opens_invoice, cycle_finds_it_issued,
           issue_invoice, cycle_commits, collect_payment, zoikonex
    <3> QED
      BY <3>1, <3>2
  <2>4. \A r \in Requests :
           /\ request[r].status # "none" =>
                 /\ request'[r].status # "none"
                 /\ request'[r].requested_by = request[r].requested_by
           /\ notes'[r] >= notes[r]
    BY <1>0, <2>1
  <2>5. \A p \in Periods :
           /\ invoice[p] # "none" => invoice'[p] # "none"
           /\ invoice[p] = "ISSUED" => invoice'[p] = "ISSUED"
           /\ lines[p] \subseteq lines'[p]
    BY <2>2, <2>3
  <2> QED
    BY <2>4, <2>5 DEF Grows
<1>7. ASSUME NEW w \in Workers, issue_note(w)
      PROVE  Grows
  <2>1. \A r \in Requests : notes'[r] >= notes[r]
    BY <1>0, <1>7 DEF issue_note
  <2> QED
    BY <1>7, <2>1 DEF issue_note, Grows
<1>8. ASSUME NEW w \in Workers, approve_billing_action(w)
      PROVE  Grows
  BY <1>0, <1>8 DEF approve_billing_action, zoikonex, Grows, Request
<1>9. ASSUME NEW w \in Workers, note_commits(w) \/ approval_raises(w) \/ approval_dies(w)
      PROVE  Grows
  BY <1>0, <1>9 DEF note_commits, approval_raises, approval_dies, zoikonex, Grows
<1>10. CASE UNCHANGED vars
  BY <1>0, <1>10 DEF vars, Grows
<1> QED
  BY <1>1, <1>2, <1>3, <1>4, <1>5, <1>6, <1>7, <1>8, <1>9, <1>10 DEF Next, Approval

\* An approval that takes no step finds what it relies on.
LEMMA OthersKeepIt ==
    ASSUME TypeOK, TypeOK', NEW v \in Workers, UnderwayIn(v), Grows, job'[v] = job[v]
    PROVE  UnderwayIn(v)'
<1>1. job[v].p \in Periods
  BY DEF TypeOK, Job
<1>2. \A r \in Requests : notes[r] \in Nat /\ notes'[r] \in Nat
  BY PeriodAssumption DEF TypeOK
<1>3. CASE job[v].op = "idle"
  BY <1>3 DEF UnderwayIn
<1>4. CASE job[v].op # "idle"
  <2>1. job[v].r \in Requests
    BY <1>4 DEF UnderwayIn
  <2> QED
    BY <1>1, <1>2, <1>4, <2>1 DEF UnderwayIn, Grows
<1> QED
  BY <1>3, <1>4

\* An approval hands what it relies on from each of its steps to the next.
LEMMA OwnStepKeepsIt ==
    ASSUME TypeOK, TypeOK', Grows, NEW v \in Workers, UnderwayIn(v), Requested,
           \/ Approval(v) \/ approval_dies(v)
           \/ \E r \in Requests, s \in Staff :
                 approve_billing_cycle(v, r, s) \/ approve_note(v, r, s)
    PROVE  UnderwayIn(v)'
<1>0. /\ job[v].p \in Periods /\ job \in [Workers -> Job] /\ job[v] \in Job
      /\ \A r \in Requests : notes[r] \in Nat /\ notes'[r] \in Nat
  BY PeriodAssumption DEF TypeOK, Job
<1>1. CASE job'[v] = Idle
  BY <1>1 DEF UnderwayIn, Idle
<1>2. ASSUME NEW r \in Requests, NEW s \in Staff,
             approve_billing_cycle(v, r, s) \/ approve_note(v, r, s)
      PROVE  UnderwayIn(v)'
  <2>1. /\ job'[v].op \in {"cycle", "note"} /\ job'[v].r = r /\ job'[v].by = s
        /\ job'[v].op = "cycle" => KindOf[r] = "cycle" /\ job'[v].marked = {}
    <3>1. ASSUME NEW op, NEW p, Begin(v, r, s, op, p)
          PROVE  /\ job'[v].op = op /\ job'[v].r = r /\ job'[v].by = s
                 /\ job'[v].marked = {}
      <4>1. job'[v] = [Idle EXCEPT !.op = op, !.r = r, !.by = s, !.p = p]
        BY <1>0, <3>1 DEF Begin
      <4> QED
        BY <4>1 DEF Idle
    <3> QED
      BY <1>2, <3>1 DEF approve_billing_cycle, approve_note
  <2>2. request[r].status # "none" /\ request[r].requested_by \in Staff \ {s}
    BY <1>2 DEF approve_billing_cycle, approve_note, Begin, Resolvable, Requested
  <2> QED
    BY <2>1, <2>2 DEF UnderwayIn, Grows
<1>3. CASE Approval(v) /\ job'[v] # Idle
  <2>0. \/ Cycle(v)
        \/ issue_note(v)
        \/ note_commits(v)
    <3>1. ~ approve_billing_action(v) /\ ~ approval_raises(v)
      BY <1>0, <1>3 DEF approve_billing_action, approval_raises
    <3> QED
      BY <1>3, <3>1 DEF Approval
  <2>1. /\ job[v].op # "idle"
        /\ job'[v].r = job[v].r /\ job'[v].by = job[v].by /\ job'[v].p = job[v].p
    BY <2>0, CycleGoesOn, GoesOn DEF issue_note, note_commits, Op
  <2>2. /\ job[v].r \in Requests /\ job[v].by \in Staff
        /\ request'[job[v].r].requested_by \in Staff \ {job[v].by}
        /\ request'[job[v].r].status # "none"
    BY <2>1 DEF UnderwayIn, Grows
  <2>3. job'[v].op \in {"cycle", "lines", "issued", "collect"} => KindOf[job[v].r] = "cycle"
    <3>1. issue_note(v) \/ note_commits(v) => job'[v].op \in {"noted", "executed"}
      BY GoesOn DEF issue_note, note_commits, Op
    <3> QED
      BY <2>0, <3>1, CycleGoesOn DEF UnderwayIn
  <2>4. /\ job'[v].op = "noted" => notes'[job[v].r] > 0
        /\ job'[v].op = "executed" /\ KindOf[job[v].r] = "note" => notes'[job[v].r] > 0
    <3>1. CASE issue_note(v)
      BY <1>0, <2>2, <3>1 DEF issue_note, TypeOK
    <3>2. CASE note_commits(v)
      BY <1>0, <2>2, <3>2 DEF note_commits, UnderwayIn, zoikonex
    <3>3. CASE Cycle(v)
      BY <3>3, CycleGoesOn DEF UnderwayIn
    <3> QED
      BY <2>0, <3>1, <3>2, <3>3
  <2>5. job'[v].op = "lines" =>
              invoice'[job[v].p] # "none" /\ job'[v].marked \subseteq lines'[job[v].p]
    <3>1. CASE cycle_opens_invoice(v)
      <4>1. job'[v] = [job[v] EXCEPT !.op = "lines", !.todo = Pending]
        BY <1>0, <3>1 DEF cycle_opens_invoice
      <4>2. job'[v].marked = job[v].marked /\ invoice'[job[v].p] = "DRAFT"
        BY <1>0, <3>1, <4>1 DEF cycle_opens_invoice, TypeOK, Job
      <4> QED
        BY <1>0, <3>1, <4>2 DEF cycle_opens_invoice, UnderwayIn
    <3>2. ASSUME NEW c \in Charges, add_invoice_line_item(v, c)
          PROVE  invoice'[job[v].p] # "none" /\ job'[v].marked \subseteq lines'[job[v].p]
      <4>1. job'[v] = [job[v] EXCEPT !.todo = @ \ {c}, !.marked = @ \cup {c}]
        BY <1>0, <3>2 DEF add_invoice_line_item
      <4>2. job'[v].marked = job[v].marked \cup {c}
        BY <1>0, <4>1 DEF Job
      <4>3. lines'[job[v].p] = lines[job[v].p] \cup {c}
        BY <1>0, <3>2 DEF add_invoice_line_item, TypeOK
      <4> QED
        BY <3>2, <4>2, <4>3 DEF add_invoice_line_item, UnderwayIn
    <3>3. CASE issue_invoice(v)
      BY <3>3, GoesOn DEF issue_invoice, Op
    <3>4. CASE issue_note(v) \/ note_commits(v)
      BY <3>4, GoesOn DEF issue_note, note_commits, Op
    <3> QED
      BY <2>0, <3>1, <3>2, <3>3, <3>4, CycleGoesOn
  <2>6. job'[v].op = "issued" =>
              invoice'[job[v].p] = "ISSUED" /\ job'[v].marked \subseteq lines'[job[v].p]
    <3>1. CASE issue_invoice(v)
      <4>1. job'[v].marked = job[v].marked
        BY <3>1, GoesOn DEF issue_invoice, Op
      <4> QED
        BY <1>0, <3>1, <4>1 DEF issue_invoice, TypeOK, UnderwayIn
    <3>2. CASE issue_note(v) \/ note_commits(v)
      BY <3>2, GoesOn DEF issue_note, note_commits, Op
    <3>3. CASE cycle_opens_invoice(v) \/ \E c \in Charges : add_invoice_line_item(v, c)
      <4>1. job'[v].op = "lines"
        BY ZenonT(60), <1>0, <3>3 DEF cycle_opens_invoice, add_invoice_line_item, Job
      <4> QED
        BY <4>1
    <3> QED
      BY <2>0, <3>1, <3>2, <3>3, CycleGoesOn
  <2>7. job'[v].op # "cycle"
    BY <2>0, CycleGoesOn, GoesOn DEF issue_note, note_commits, Op
  <2> QED
    BY <2>1, <2>2, <2>3, <2>4, <2>5, <2>6, <2>7 DEF UnderwayIn
<1>4. CASE approval_dies(v)
  BY <1>0, <1>1, <1>4 DEF approval_dies
<1> QED
  BY <1>1, <1>2, <1>3, <1>4

\* The invariant is kept by every step.
LEMMA UnderwayStep ==
    ASSUME TypeOK, Underway, [Next]_vars
    PROVE  Underway'
<1>1. TypeOK' /\ Grows
  BY TypeStep, StepGrows
<1>2. Requested'
  <2>1. ASSUME NEW r \in Requests, request[r].status = "none", request'[r].status # "none"
        PROVE  request'[r].requested_by \in Staff
    <3>1. request # request' /\ request \in [Requests -> Request]
      BY <2>1 DEF TypeOK
    <3>2. \A w \in Workers : ~ Cycle(w) /\ ~ issue_note(w) /\ ~ note_commits(w)
                             /\ ~ approval_raises(w) /\ ~ approval_dies(w)
      BY <3>1 DEF Cycle, cycle_not_billed, cycle_opens_invoice, cycle_finds_it_issued,
           add_invoice_line_item, issue_invoice, cycle_commits, collect_payment,
           issue_note, note_commits, approval_raises, approval_dies
    <3>3. \A w \in Workers : ~ approve_billing_action(w)
      <4> SUFFICES ASSUME NEW w \in Workers, approve_billing_action(w) PROVE FALSE
        OBVIOUS
      <4>1. job[w].r # r
        BY <2>1 DEF approve_billing_action, Underway, UnderwayIn
      <4> QED
        BY <2>1, <3>1, <4>1 DEF approve_billing_action
    <3>4. PICK q \in Requests, s \in Staff :
                 request_billing_action(q, s) \/ reject_billing_action(q, s)
      BY <3>1, <3>2, <3>3 DEF Next, Approval, vars, period_ends,
           record_pending_number_charge, approve_billing_cycle, approve_note
    <3> QED
      BY <2>1, <3>1, <3>4
         DEF request_billing_action, reject_billing_action, Resolvable, Request
  <2> QED
    BY <1>1, <2>1 DEF Requested, Underway, Grows
<1>3. ASSUME NEW v \in Workers
      PROVE  UnderwayIn(v)'
  <2>1. UnderwayIn(v) /\ Requested
    BY DEF Underway
  <2>2. CASE job'[v] = job[v]
    BY <1>1, <2>1, <2>2, OthersKeepIt
  <2>3. CASE job'[v] # job[v]
    <3>1. job \in [Workers -> Job]
      BY DEF TypeOK
    <3>2. ASSUME NEW w \in Workers, w # v
          PROVE  ~ Approval(w) /\ ~ approval_dies(w)
      <4>1. ~ Cycle(w)
        BY <2>3, <3>1, <3>2 DEF Cycle, cycle_not_billed, cycle_opens_invoice,
           cycle_finds_it_issued, add_invoice_line_item, issue_invoice, cycle_commits,
           collect_payment, Goto
      <4>2. /\ ~ issue_note(w) /\ ~ note_commits(w) /\ ~ approve_billing_action(w)
            /\ ~ approval_raises(w) /\ ~ approval_dies(w)
        BY <2>3, <3>1, <3>2 DEF issue_note, note_commits, approve_billing_action,
           approval_raises, approval_dies, Goto
      <4> QED
        BY <4>1, <4>2 DEF Approval
    <3>3. \A w \in Workers, r \in Requests, s \in Staff :
             w # v => ~ approve_billing_cycle(w, r, s) /\ ~ approve_note(w, r, s)
      BY <2>3, <3>1 DEF approve_billing_cycle, approve_note, Begin
    <3>4. \/ Approval(v) \/ approval_dies(v)
          \/ \E r \in Requests, s \in Staff :
                approve_billing_cycle(v, r, s) \/ approve_note(v, r, s)
      BY <2>3, <3>2, <3>3 DEF Next, vars, period_ends, record_pending_number_charge,
           request_billing_action, reject_billing_action
    <3> QED
      BY <1>1, <2>1, <3>4, OwnStepKeepsIt
  <2> QED
    BY <2>2, <2>3
<1> QED
  BY <1>2, <1>3 DEF Underway

\* Nothing is under way at the start.
LEMMA Initially == Init => TypeOK /\ Underway
<1> SUFFICES ASSUME Init PROVE TypeOK /\ Underway
  OBVIOUS
<1>1. Idle \in Job /\ 0 \in Periods
  BY PeriodAssumption DEF Idle, Job, Op, Periods
<1>2. TypeOK
  BY <1>1, PeriodAssumption DEF Init, TypeOK, Request, Charge
<1>3. Underway
  BY DEF Init, Underway, UnderwayIn, Requested, Idle
<1> QED
  BY <1>2, <1>3

\* Every variable keeps its type.
THEOREM TypeCorrect == Spec => []TypeOK
<1>1. TypeOK /\ Underway /\ [Next]_vars => (TypeOK /\ Underway)'
  BY TypeStep, UnderwayStep
<1> QED
  BY Initially, <1>1, PTL DEF Spec

\* An approval finds, at each of its steps, what the ones before it did, whoever
\* overlaps it and whatever dies.
THEOREM ApprovalsAreKept == Spec => []Underway
<1>1. TypeOK /\ Underway /\ [Next]_vars => (TypeOK /\ Underway)'
  BY TypeStep, UnderwayStep
<1> QED
  BY Initially, <1>1, PTL DEF Spec

-----------------------------------------------------------------------------
\* Charges become INVOICED by the commit that follows the issue, and an issued
\* invoice keeps its lines.
LEMMA InvoicedStep ==
    ASSUME TypeOK, Underway, [Next]_vars, InvoicedIsBilled
    PROVE  InvoicedIsBilled'
<1>1. Grows /\ TypeOK'
  BY TypeStep, StepGrows
<1> SUFFICES ASSUME NEW c \in Charges, charge'[c].status = "INVOICED"
             PROVE  /\ charge'[c].invoice # None
                    /\ c \in lines'[charge'[c].invoice]
                    /\ invoice'[charge'[c].invoice] = "ISSUED"
  BY DEF InvoicedIsBilled
<1>2. charge \in [Charges -> Charge]
  BY DEF TypeOK
<1>3. CASE charge'[c] = charge[c]
  <2>1. /\ charge[c].invoice # None
        /\ c \in lines[charge[c].invoice]
        /\ invoice[charge[c].invoice] = "ISSUED"
    BY <1>3 DEF InvoicedIsBilled
  <2>2. charge[c].invoice \in Periods
    BY <1>2, <2>1 DEF Charge
  <2> QED
    BY <1>1, <1>3, <2>1, <2>2 DEF Grows
<1>4. CASE charge'[c] # charge[c]
  <2>1. \A d \in Charges : ~ record_pending_number_charge(d)
    BY <1>2, <1>4 DEF record_pending_number_charge, Charge
  <2>2. PICK w \in Workers : cycle_commits(w)
    BY <1>4, <2>1 DEF Next, Approval, Cycle, vars, period_ends, request_billing_action,
         reject_billing_action, approve_billing_cycle, approve_note, cycle_not_billed,
         cycle_opens_invoice, cycle_finds_it_issued, add_invoice_line_item,
         issue_invoice, collect_payment, issue_note, note_commits,
         approve_billing_action, approval_raises, approval_dies
  <2>3. c \in job[w].marked /\ charge'[c].invoice = job[w].p
    BY <1>4, <2>2 DEF cycle_commits, Invoiced
  <2>4. /\ job[w].p \in Periods /\ job[w].p # None
        /\ c \in lines[job[w].p] /\ invoice[job[w].p] = "ISSUED"
    BY <2>2, <2>3, NoneAssumption
       DEF cycle_commits, Underway, UnderwayIn, TypeOK, Job, Periods
  <2> QED
    BY <1>1, <2>3, <2>4 DEF Grows
<1> QED
  BY <1>3, <1>4

\* No charge is lost: one that is INVOICED is a line of an issued invoice, whoever
\* overlaps and whatever dies.
THEOREM NoChargeIsLost == Spec => []InvoicedIsBilled
<1>1. Init => TypeOK /\ Underway /\ InvoicedIsBilled
  BY Initially DEF Init, InvoicedIsBilled
<1>2. TypeOK /\ Underway /\ InvoicedIsBilled /\ [Next]_vars
        => (TypeOK /\ Underway /\ InvoicedIsBilled)'
  BY TypeStep, UnderwayStep, InvoicedStep
<1> QED
  BY <1>1, <1>2, PTL DEF Spec

\* A request is executed by approve_billing_action, for an approval that was not
\* its requester's and has done what it was for.
LEMMA ExecutedStep ==
    ASSUME TypeOK, Underway, [Next]_vars, ExecutedIsApproved
    PROVE  ExecutedIsApproved'
<1>1. Grows /\ request \in [Requests -> Request]
      /\ \A r \in Requests : notes[r] \in Nat /\ notes'[r] \in Nat
  BY TypeStep, StepGrows, PeriodAssumption DEF TypeOK
<1> SUFFICES ASSUME NEW r \in Requests, request'[r].status = "EXECUTED"
             PROVE  /\ request'[r].approved_by \notin {None, request'[r].requested_by}
                    /\ KindOf[r] = "note" => notes'[r] > 0
  BY DEF ExecutedIsApproved
<1>2. CASE request'[r] = request[r]
  BY <1>1, <1>2 DEF ExecutedIsApproved, Grows
<1>3. CASE request'[r] # request[r]
  <2>1. \A q \in Requests, s \in Staff :
           ~ request_billing_action(q, s) /\ ~ reject_billing_action(q, s)
    BY <1>1, <1>3 DEF request_billing_action, reject_billing_action, Request
  <2>2. PICK w \in Workers : approve_billing_action(w)
    <3>1. \A v \in Workers : Cycle(v) => UNCHANGED request
      BY CycleGoesOn
    <3> QED
      BY <1>3, <2>1, <3>1 DEF Next, Approval, vars, period_ends,
         record_pending_number_charge, approve_billing_cycle, approve_note,
         issue_note, note_commits, approval_raises, approval_dies
  <2>3. /\ job[w].r = r /\ job[w].op = "executed" /\ job[w].op # "idle"
        /\ request' = [request EXCEPT ![r] =
                         [request[r] EXCEPT !.status = "EXECUTED", !.approved_by = job[w].by]]
    BY <1>1, <1>3, <2>2 DEF approve_billing_action
  <2>4. /\ request'[r].approved_by = job[w].by
        /\ request'[r].requested_by = request[r].requested_by
    BY <1>1, <2>3 DEF Request
  <2>5. /\ job[w].by \in Staff /\ request[r].requested_by # job[w].by
        /\ KindOf[r] = "note" => notes[r] > 0
    BY <2>3 DEF Underway, UnderwayIn
  <2> QED
    BY <1>1, <2>4, <2>5, NoneAssumption DEF Grows
<1> QED
  BY <1>2, <1>3

\* Nothing is executed on one staff member's say-so, and no note is recorded that
\* ZoikoNex did not issue.
THEOREM TwoStaffMembersAgreed == Spec => []ExecutedIsApproved
<1>1. Init => TypeOK /\ Underway /\ ExecutedIsApproved
  BY Initially DEF Init, ExecutedIsApproved
<1>2. TypeOK /\ Underway /\ ExecutedIsApproved /\ [Next]_vars
        => (TypeOK /\ Underway /\ ExecutedIsApproved)'
  BY TypeStep, UnderwayStep, ExecutedStep
<1> QED
  BY <1>1, <1>2, PTL DEF Spec

-----------------------------------------------------------------------------
(* What holds while approvals neither overlap nor die.                     *)

\* One approval is under way at most, and its request is still to be resolved.
Alone ==
    /\ \A v, w \in Workers : job[v] # Idle /\ job[w] # Idle => v = w
    /\ \A w \in Workers : job[w].op # "idle" => request[job[w].r].status = "PENDING"

\* A note is issued once, and its request is executed or about to be.
NotesOnce ==
    \A r \in Requests : notes[r] # 0 =>
        /\ notes[r] = 1
        /\ \/ request[r].status = "EXECUTED"
           \/ \E w \in Workers : job[w].r = r /\ job[w].op \in {"noted", "executed"}

\* All the other workers are and stay idle.
Others(w) == \A v \in Workers \ {w} : job[v] = Idle /\ job'[v] = Idle

\* A step is that of the one approval under way, or touches none.
LEMMA OneMoves ==
    ASSUME TypeOK, Underway, [Next]_vars, calm', calm => Alone
    PROVE  /\ calm
           /\ \/ job' = job
              \/ \E w \in Workers :
                    /\ Others(w)
                    /\ \/ Approval(w) /\ job[w] # Idle
                       \/ \E r \in Requests, s \in Staff :
                             approve_billing_cycle(w, r, s) \/ approve_note(w, r, s)
<1>0. job \in [Workers -> Job]
  BY DEF TypeOK
<1>1. ASSUME NEW w \in Workers, NEW r \in Requests, NEW s \in Staff,
             approve_billing_cycle(w, r, s) \/ approve_note(w, r, s)
      PROVE  calm /\ Others(w)
  BY <1>0, <1>1 DEF approve_billing_cycle, approve_note, Begin, Others
<1>2. ASSUME NEW w \in Workers, Approval(w)
      PROVE  calm /\ Others(w) /\ job[w] # Idle
  <2>1. job[w] # Idle
    <3>1. job[w].op # "idle"
      BY <1>2, CycleGoesOn DEF Approval, issue_note, note_commits,
         approve_billing_action, approval_raises
    <3> QED
      BY <3>1 DEF Idle
  <2>2. calm
    BY <1>2 DEF Approval, Cycle, cycle_not_billed, cycle_opens_invoice,
       cycle_finds_it_issued, add_invoice_line_item, issue_invoice, cycle_commits,
       collect_payment, issue_note, note_commits, approve_billing_action,
       approval_raises
  <2>3. \A v \in Workers \ {w} : job[v] = Idle
    BY <2>1, <2>2 DEF Alone
  <2>4. \A v \in Workers \ {w} : job'[v] = job[v]
    BY <1>0, <1>2 DEF Approval, Cycle, cycle_not_billed, cycle_opens_invoice,
       cycle_finds_it_issued, add_invoice_line_item, issue_invoice, cycle_commits,
       collect_payment, issue_note, note_commits, approve_billing_action,
       approval_raises, Goto
  <2> QED
    BY <2>1, <2>2, <2>3, <2>4 DEF Others
<1>3. \A w \in Workers : ~ approval_dies(w)
  BY DEF approval_dies
<1>4. CASE UNCHANGED vars
  BY <1>4 DEF vars
<1>5. CASE period_ends \/ \E c \in Charges : record_pending_number_charge(c)
  BY <1>5 DEF period_ends, record_pending_number_charge
<1>6. ASSUME NEW r \in Requests, NEW s \in Staff,
             request_billing_action(r, s) \/ reject_billing_action(r, s)
      PROVE  calm /\ job' = job
  BY <1>6 DEF request_billing_action, reject_billing_action
<1> QED
  BY <1>1, <1>2, <1>3, <1>4, <1>5, <1>6 DEF Next

\* An approval that is not over stays with its request, which is not written.
LEMMA Continues ==
    ASSUME TypeOK, NEW w \in Workers, Approval(w), job'[w].op # "idle"
    PROVE  /\ Cycle(w) \/ issue_note(w) \/ note_commits(w)
           /\ job[w].op # "idle" /\ job'[w].r = job[w].r /\ request' = request
<1>1. job \in [Workers -> Job]
  BY DEF TypeOK
<1>2. ~ approve_billing_action(w) /\ ~ approval_raises(w)
  BY <1>1 DEF approve_billing_action, approval_raises, Idle
<1>3. CASE Cycle(w)
  BY <1>3, CycleGoesOn
<1>4. CASE issue_note(w) \/ note_commits(w)
  BY <1>4, GoesOn DEF issue_note, note_commits, Op
<1> QED
  BY <1>2, <1>3, <1>4 DEF Approval

\* What an approval begins with.
LEMMA Begins ==
    ASSUME TypeOK, NEW w \in Workers, NEW r \in Requests, NEW s \in Staff,
           approve_billing_cycle(w, r, s) \/ approve_note(w, r, s)
    PROVE  /\ job'[w].op \in {"cycle", "note"} /\ job'[w].r = r
           /\ job'[w].op = "cycle" => job'[w].p = now
           /\ request[r].status = "PENDING"
           /\ UNCHANGED <<now, request, charge, invoice, lines, notes>>
<1>1. ASSUME NEW op, NEW p, Begin(w, r, s, op, p)
      PROVE  job'[w].op = op /\ job'[w].r = r /\ job'[w].p = p
  <2>1. job'[w] = [Idle EXCEPT !.op = op, !.r = r, !.by = s, !.p = p]
    BY <1>1 DEF Begin, TypeOK
  <2> QED
    BY <2>1 DEF Idle
<1>2. \A op, p : Begin(w, r, s, op, p) => request[r].status = "PENDING"
  BY DEF Begin, Resolvable
<1>3. CASE approve_billing_cycle(w, r, s)
  BY <1>1, <1>2, <1>3 DEF approve_billing_cycle, zoikonex
<1>4. CASE approve_note(w, r, s)
  BY <1>1, <1>2, <1>4 DEF approve_note, zoikonex
<1> QED
  BY <1>3, <1>4

\* No approval begins beside another, and none is left with a request resolved.
LEMMA AloneStep ==
    ASSUME TypeOK, Underway, [Next]_vars, calm', calm => Alone
    PROVE  Alone'
<1>0. /\ calm /\ Alone
      /\ job \in [Workers -> Job] /\ request \in [Requests -> Request]
      /\ \A w \in Workers : job[w].op # "idle" => job[w].r \in Requests
  BY OneMoves DEF TypeOK, Underway, UnderwayIn
<1>1. CASE job' = job
  <2> SUFFICES ASSUME NEW w \in Workers, job[w].op # "idle"
               PROVE  request'[job[w].r].status = "PENDING"
    BY <1>0, <1>1 DEF Alone
  <2>1. request[job[w].r].status = "PENDING" /\ job[w] # Idle
    BY <1>0 DEF Alone, Idle
  <2>2. ASSUME NEW v \in Workers, Approval(v)
        PROVE  request' = request
    <3>1. CASE job'[v].op # "idle"
      BY <2>2, <3>1, Continues
    <3>2. CASE job'[v].op = "idle"
      <4>1. ~ approve_billing_action(v)
        BY <1>1, <3>2 DEF approve_billing_action
      <4>2. ~ Cycle(v) /\ ~ issue_note(v) /\ ~ note_commits(v)
        BY <1>1, <3>2, CycleGoesOn DEF issue_note, note_commits
      <4> QED
        BY <2>2, <4>1, <4>2 DEF Approval, approval_raises
    <3> QED
      BY <3>1, <3>2
  <2>3. ASSUME NEW r \in Requests, NEW s \in Staff, request_billing_action(r, s)
        PROVE  request'[job[w].r].status = "PENDING"
    BY <1>0, <2>1, <2>3 DEF request_billing_action, Request
  <2>4. \A r \in Requests, s \in Staff : ~ reject_billing_action(r, s)
    BY <2>1 DEF reject_billing_action
  <2>5. \A v \in Workers : ~ approval_dies(v)
    BY DEF approval_dies
  <2> QED
    BY <2>1, <2>2, <2>3, <2>4, <2>5 DEF Next, vars, period_ends,
       record_pending_number_charge, approve_billing_cycle, approve_note
<1>2. ASSUME NEW w \in Workers, Others(w), Approval(w)
      PROVE  Alone'
  <2>1. job'[w].op # "idle" => request'[job'[w].r].status = "PENDING"
    BY <1>0, <1>2, Continues DEF Alone
  <2> QED
    BY <1>2, <2>1 DEF Alone, Others, Idle
<1>3. ASSUME NEW w \in Workers, Others(w), NEW r \in Requests, NEW s \in Staff,
             approve_billing_cycle(w, r, s) \/ approve_note(w, r, s)
      PROVE  Alone'
  BY <1>3, Begins DEF Alone, Others, Idle
<1> QED
  BY <1>1, <1>2, <1>3, OneMoves

\* A note is issued for a request that is alone and PENDING: the first of it.
LEMMA NotesStep ==
    ASSUME TypeOK, Underway, [Next]_vars, calm', calm => Alone /\ NotesOnce
    PROVE  NotesOnce'
<1>0. /\ calm /\ Alone /\ NotesOnce
      /\ job \in [Workers -> Job] /\ request \in [Requests -> Request]
      /\ notes \in [Requests -> Nat]
      /\ \A w \in Workers : job[w].op # "idle" => job[w].r \in Requests
  BY OneMoves, PeriodAssumption DEF TypeOK, Underway, UnderwayIn
<1> SUFFICES ASSUME NEW r \in Requests, notes'[r] # 0
             PROVE  /\ notes'[r] = 1
                    /\ \/ request'[r].status = "EXECUTED"
                       \/ \E w \in Workers :
                             job'[w].r = r /\ job'[w].op \in {"noted", "executed"}
  BY DEF NotesOnce
<1>1. ASSUME NEW w \in Workers, issue_note(w), job[w].r = r
      PROVE  notes'[r] = 1 /\ job'[w].r = r /\ job'[w].op = "noted"
  <2>1. job[w].op = "note" /\ job[w] # Idle /\ request[r].status = "PENDING"
    BY <1>0, <1>1 DEF issue_note, Alone, Idle
  <2>2. \A v \in Workers : job[v].op \in {"noted", "executed"} => v = w
    BY <1>0, <2>1 DEF Alone, Idle
  <2>3. notes[r] = 0
    BY <1>0, <2>1, <2>2 DEF NotesOnce
  <2>4. notes'[r] = 1
    BY <1>0, <1>1, <2>3 DEF issue_note
  <2> QED
    BY <1>1, <2>4, GoesOn DEF issue_note, Op
<1>2. CASE notes'[r] = notes[r]
  <2>1. /\ notes[r] = 1
        /\ \/ request[r].status = "EXECUTED"
           \/ \E w \in Workers : job[w].r = r /\ job[w].op \in {"noted", "executed"}
    BY <1>0, <1>2 DEF NotesOnce
  <2>2. CASE request[r].status = "EXECUTED"
    <3>1. \A q \in Requests, s \in Staff :
             request_billing_action(q, s) \/ reject_billing_action(q, s) => q # r
      BY <2>2 DEF request_billing_action, reject_billing_action, Resolvable
    <3>2. request'[r].status = "EXECUTED"
      <4>1. ASSUME NEW v \in Workers, approve_billing_action(v)
            PROVE  request'[r].status = "EXECUTED"
        BY <1>0, <2>2, <4>1 DEF approve_billing_action, Request
      <4>2. ASSUME NEW v \in Workers, Cycle(v)
            PROVE  request' = request
        BY <4>2, CycleGoesOn
      <4>3. ASSUME NEW q \in Requests, NEW s \in Staff,
                   request_billing_action(q, s) \/ reject_billing_action(q, s)
            PROVE  request'[r] = request[r]
        BY <1>0, <3>1, <4>3 DEF request_billing_action, reject_billing_action
      <4> QED
        BY <2>2, <4>1, <4>2, <4>3 DEF Next, Approval, vars, period_ends,
           record_pending_number_charge, approve_billing_cycle, approve_note,
           issue_note, note_commits, approval_raises, approval_dies
    <3> QED
      BY <1>2, <2>1, <3>2
  <2>3. ASSUME NEW w \in Workers, job[w].r = r, job[w].op \in {"noted", "executed"}
        PROVE  \/ request'[r].status = "EXECUTED"
               \/ job'[w].r = r /\ job'[w].op \in {"noted", "executed"}
    <3>1. CASE job' = job
      BY <2>3, <3>1
    <3>2. ASSUME NEW v \in Workers, Others(v), Approval(v)
          PROVE  \/ request'[r].status = "EXECUTED"
                 \/ job'[w].r = r /\ job'[w].op \in {"noted", "executed"}
      <4>1. v = w
        BY <2>3, <3>2 DEF Others, Idle
      <4>2. note_commits(w) \/ approve_billing_action(w)
        <5>1. ~ Cycle(w)
          BY <2>3, CycleGoesOn
        <5> QED
          BY <2>3, <3>2, <4>1, <5>1 DEF Approval, issue_note, approval_raises
      <4>3. CASE note_commits(w)
        BY <2>3, <4>3, GoesOn DEF note_commits, Op
      <4>4. CASE approve_billing_action(w)
        BY <1>0, <2>3, <4>4 DEF approve_billing_action, Request
      <4> QED
        BY <4>2, <4>3, <4>4
    <3>3. ASSUME NEW v \in Workers, NEW q \in Requests, NEW s \in Staff, Others(v),
                 approve_billing_cycle(v, q, s) \/ approve_note(v, q, s)
          PROVE  FALSE
      <4>1. job[v] = Idle
        BY <3>3 DEF approve_billing_cycle, approve_note, Begin
      <4>2. job[w] # Idle
        BY <2>3 DEF Idle
      <4> QED
        BY <3>3, <4>1, <4>2 DEF Others
    <3> QED
      BY <3>1, <3>2, <3>3, OneMoves
  <2> QED
    BY <1>2, <2>1, <2>2, <2>3
<1>3. CASE notes'[r] # notes[r]
  <2>1. \A w \in Workers : ~ Cycle(w)
    BY <1>3, CycleGoesOn
  <2>2. PICK w \in Workers : issue_note(w)
    BY <1>3, <2>1 DEF Next, Approval, vars, zoikonex, period_ends,
       record_pending_number_charge, request_billing_action, reject_billing_action,
       approve_billing_cycle, approve_note, note_commits, approve_billing_action,
       approval_raises, approval_dies
  <2>3. job[w].r = r
    BY <1>0, <1>3, <2>2 DEF issue_note
  <2> QED
    BY <1>1, <2>2, <2>3
<1> QED
  BY <1>2, <1>3

\* While approvals neither overlap nor die, a request is resolved once and a note
\* issued once.
THEOREM NotesAreIssuedOnce == Spec => []ResolvedOnce
<1>1. Init => TypeOK /\ Underway /\ (calm => Alone /\ NotesOnce)
  BY Initially DEF Init, Alone, NotesOnce, Idle
<1>2. TypeOK /\ Underway /\ (calm => Alone /\ NotesOnce) /\ [Next]_vars
        => (TypeOK /\ Underway /\ (calm => Alone /\ NotesOnce))'
  BY TypeStep, UnderwayStep, AloneStep, NotesStep
<1>3. TypeOK /\ (calm => Alone /\ NotesOnce) => ResolvedOnce
  <2> SUFFICES ASSUME TypeOK, calm, Alone, NotesOnce, NEW r \in Requests
               PROVE  /\ notes[r] <= 1
                      /\ request[r].status = "REJECTED" => notes[r] = 0
    BY DEF ResolvedOnce
  <2>1. notes[r] \in Nat
    BY PeriodAssumption DEF TypeOK
  <2> QED
    BY <2>1 DEF NotesOnce, Alone
<1> QED
  BY <1>1, <1>2, <1>3, PTL DEF Spec

-----------------------------------------------------------------------------
\* The invoices are those of periods that have begun, and a cycle that runs alone
\* is that of the last one.
InTime ==
    /\ \A p \in Periods : invoice[p] # "none" => p <= now
    /\ \A p \in Periods : invoice[p] = "none" => lines[p] = {}
    /\ \A w \in Workers : job[w].op \in {"cycle", "lines", "issued"} =>
          /\ job[w].p <= now
          /\ \A p \in Periods : invoice[p] # "none" => p <= job[w].p

\* A cycle that runs alone adds PENDING charges to a DRAFT, and has or will have
\* added those an earlier attempt left on it.
Gathered ==
    \A w \in Workers :
        /\ job[w].op \in {"lines", "issued"} =>
              \A c \in job[w].todo \cup job[w].marked : charge[c].status = "PENDING"
        /\ job[w].op = "lines" =>
              /\ invoice[job[w].p] = "DRAFT"
              /\ lines[job[w].p] \subseteq job[w].todo \cup job[w].marked

\* A line of an issued invoice is INVOICED there or about to be; a line that was
\* left on a DRAFT may have been invoiced in a later period.
Settles(c, p) ==
    /\ invoice[p] = "DRAFT" =>
          \/ charge[c].status = "PENDING"
          \/ charge[c].status = "INVOICED" /\ p < charge[c].invoice
    /\ invoice[p] = "ISSUED" =>
          \/ charge[c].status = "INVOICED" /\ charge[c].invoice = p
          \/ \E w \in Workers :
                job[w].op = "issued" /\ job[w].p = p /\ c \in job[w].marked

Ledger ==
    Alone /\ InTime /\ Gathered /\ \A p \in Periods : \A c \in lines[p] : Settles(c, p)

\* What opening the invoice does to it and to the job.
LEMMA Opens ==
    ASSUME TypeOK, NEW w \in Workers, cycle_opens_invoice(w)
    PROVE  /\ job'[w].op = "lines" /\ job'[w].p = job[w].p
           /\ job'[w].todo = Pending /\ job'[w].marked = job[w].marked
           /\ invoice'[job[w].p] = "DRAFT"
           /\ \A p \in Periods : p # job[w].p => invoice'[p] = invoice[p]
           /\ UNCHANGED <<now, charge, lines>>
<1>1. job'[w] = [job[w] EXCEPT !.op = "lines", !.todo = Pending]
  BY DEF cycle_opens_invoice, TypeOK
<1>2. job[w] \in Job
  BY DEF TypeOK
<1> QED
  BY <1>1, <1>2 DEF cycle_opens_invoice, TypeOK, Job

\* What adding a line does to the invoice and to the job.
LEMMA Adds ==
    ASSUME TypeOK, NEW w \in Workers, NEW c \in Charges, add_invoice_line_item(w, c)
    PROVE  /\ job[w].op = "lines" /\ c \in job[w].todo
           /\ job'[w].op = "lines" /\ job'[w].p = job[w].p
           /\ job'[w].todo = job[w].todo \ {c} /\ job'[w].marked = job[w].marked \cup {c}
           /\ lines'[job[w].p] = lines[job[w].p] \cup {c}
           /\ \A p \in Periods : p # job[w].p => lines'[p] = lines[p]
           /\ UNCHANGED <<now, charge, invoice>>
<1>1. job'[w] = [job[w] EXCEPT !.todo = @ \ {c}, !.marked = @ \cup {c}]
  BY DEF add_invoice_line_item, TypeOK
<1>2. job[w] \in Job
  BY DEF TypeOK
<1> QED
  BY <1>1, <1>2 DEF add_invoice_line_item, TypeOK, Job

\* What issuing the invoice does.
LEMMA Issues ==
    ASSUME TypeOK, NEW w \in Workers, issue_invoice(w)
    PROVE  /\ job[w].op = "lines" /\ job[w].todo = {}
           /\ job'[w].op = "issued" /\ job'[w].p = job[w].p
           /\ job'[w].todo = job[w].todo /\ job'[w].marked = job[w].marked
           /\ invoice'[job[w].p] = "ISSUED"
           /\ \A p \in Periods : p # job[w].p => invoice'[p] = invoice[p]
           /\ UNCHANGED <<now, charge, lines>>
  BY GoesOn DEF issue_invoice, TypeOK, Job, Op

\* The steps that touch neither the ledger nor the lines of a job under way.
Aside(w) ==
    /\ job'[w].op \notin {"cycle", "lines", "issued"}
    /\ UNCHANGED <<now, charge, invoice, lines>>

\* A step of an approval is one of the billing cycle's four, or leaves the ledger.
LEMMA CycleOrAside ==
    ASSUME TypeOK, NEW w \in Workers, Approval(w)
    PROVE  \/ cycle_opens_invoice(w) \/ issue_invoice(w) \/ cycle_commits(w)
           \/ \E c \in Charges : add_invoice_line_item(w, c)
           \/ Aside(w) /\ job[w].op # "issued"
<1>1. job \in [Workers -> Job]
  BY DEF TypeOK
<1>2. CASE cycle_not_billed(w)
  BY <1>2, GoesOn DEF cycle_not_billed, zoikonex, Op, Aside
<1>3. CASE cycle_finds_it_issued(w)
  BY <1>3, GoesOn DEF cycle_finds_it_issued, zoikonex, Op, Aside
<1>4. CASE collect_payment(w)
  BY <1>4, GoesOn DEF collect_payment, zoikonex, Op, Aside
<1>5. CASE issue_note(w)
  BY <1>5, GoesOn DEF issue_note, Op, Aside
<1>6. CASE note_commits(w)
  BY <1>6, GoesOn DEF note_commits, zoikonex, Op, Aside
<1>7. CASE approve_billing_action(w)
  BY <1>1, <1>7 DEF approve_billing_action, zoikonex, Idle, Aside
<1>8. CASE approval_raises(w)
  BY <1>1, <1>8 DEF approval_raises, zoikonex, Idle, Aside
<1> QED
  BY <1>2, <1>3, <1>4, <1>5, <1>6, <1>7, <1>8 DEF Approval, Cycle

\* The clock ticks, or nothing moves at all.
LEMMA LedgerWaits ==
    ASSUME TypeOK, TypeOK', Ledger, Alone', now' >= now,
           UNCHANGED <<charge, invoice, lines, job>>
    PROVE  Ledger'
<1>1. /\ now \in Int /\ now' \in Int /\ \A p \in Periods : p \in Int
      /\ \A w \in Workers : job[w].p \in Int
  BY PeriodAssumption DEF TypeOK, Periods, Job
<1>2. InTime'
  <2>1. \A p \in Periods : p <= now => p <= now'
    BY <1>1
  <2>2. \A w \in Workers : job[w].p <= now => job[w].p <= now'
    BY <1>1
  <2> QED
    BY <2>1, <2>2 DEF Ledger, InTime
<1>3. Gathered'
  BY DEF Ledger, Gathered
<1>4. \A p \in Periods : \A c \in lines'[p] : Settles(c, p)'
  BY DEF Ledger, Settles
<1> QED
  BY <1>2, <1>3, <1>4 DEF Ledger

\* A charge that is recorded is on no invoice yet.
LEMMA LedgerRecords ==
    ASSUME TypeOK, TypeOK', Ledger, Alone', NEW c \in Charges,
           record_pending_number_charge(c)
    PROVE  Ledger'
<1>1. /\ UNCHANGED <<now, invoice, lines, job>>
      /\ charge[c].status = "none"
      /\ \A d \in Charges : d # c => charge'[d] = charge[d]
  BY DEF record_pending_number_charge, zoikonex, TypeOK
<1>2. \A w \in Workers : job[w].op \in {"lines", "issued"} =>
           c \notin job[w].todo \cup job[w].marked
  BY <1>1 DEF Ledger, Gathered
<1>3. \A p \in Periods : c \notin lines[p]
  <2> SUFFICES ASSUME NEW p \in Periods, c \in lines[p] PROVE FALSE
    OBVIOUS
  <2>1. Settles(c, p) /\ invoice[p] # "none"
    BY DEF Ledger, InTime
  <2>2. invoice[p] \in {"DRAFT", "ISSUED"}
    BY <2>1 DEF TypeOK
  <2> QED
    BY <1>1, <1>2, <2>1, <2>2 DEF Settles
<1>4. /\ \A w \in Workers : job[w].todo \cup job[w].marked \subseteq Charges
      /\ \A p \in Periods : lines[p] \subseteq Charges
  BY DEF TypeOK, Job
<1>5. InTime'
  BY <1>1 DEF Ledger, InTime
<1>6. Gathered'
  BY <1>1, <1>2, <1>4 DEF Ledger, Gathered
<1>7. \A p \in Periods : \A d \in lines'[p] : Settles(d, p)'
  <2> SUFFICES ASSUME NEW p \in Periods, NEW d \in lines[p] PROVE Settles(d, p)'
    BY <1>1
  <2>1. Settles(d, p) /\ charge'[d] = charge[d]
    BY <1>1, <1>3, <1>4 DEF Ledger
  <2> QED
    BY <1>1, <2>1 DEF Settles
<1> QED
  BY <1>5, <1>6, <1>7 DEF Ledger

\* Beside the billing cycle the ledger stays as it is.
LEMMA LedgerAside ==
    ASSUME TypeOK, TypeOK', Ledger, Alone', NEW w \in Workers, Others(w), Aside(w),
           job[w].op # "issued"
    PROVE  Ledger'
<1>1. \A v \in Workers :
          /\ job[v].op # "issued"
          /\ job'[v].op \notin {"cycle", "lines", "issued"}
  BY DEF Others, Aside, Idle
<1>2. InTime' /\ Gathered'
  BY <1>1 DEF Ledger, InTime, Gathered, Aside
<1>3. \A p \in Periods : \A c \in lines'[p] : Settles(c, p)'
  BY <1>1 DEF Ledger, Settles, Aside
<1> QED
  BY <1>2, <1>3 DEF Ledger

\* A cycle that begins is that of the current period.
LEMMA LedgerBegins ==
    ASSUME TypeOK, TypeOK', Ledger, Alone', NEW w \in Workers, Others(w), job[w] = Idle,
           job'[w].op = "cycle", job'[w].p = now,
           UNCHANGED <<now, charge, invoice, lines>>
    PROVE  Ledger'
<1>0. now \in Nat
  BY PeriodAssumption DEF TypeOK, Periods
<1>1. \A v \in Workers :
          /\ job[v].op = "idle"
          /\ job'[v].op \notin {"lines", "issued"}
          /\ v # w => job'[v].op = "idle"
  BY DEF Others, Idle
<1>2. InTime'
  BY <1>0, <1>1 DEF Ledger, InTime
<1>3. Gathered'
  BY <1>1 DEF Gathered
<1>4. \A p \in Periods : \A c \in lines'[p] : Settles(c, p)'
  BY <1>1 DEF Ledger, Settles
<1> QED
  BY <1>2, <1>3, <1>4 DEF Ledger

\* The charges left on the DRAFT are PENDING still: nothing was invoiced later.
LEMMA LedgerOpens ==
    ASSUME TypeOK, TypeOK', Underway, Ledger, InvoicedIsBilled, Alone',
           NEW w \in Workers, Others(w), cycle_opens_invoice(w)
    PROVE  Ledger'
<1>0. /\ job[w].p \in Periods /\ job[w].p \in Int
      /\ job[w].op = "cycle" /\ job[w].marked = {} /\ invoice[job[w].p] # "ISSUED"
      /\ lines[job[w].p] \subseteq Charges
  BY PeriodAssumption DEF TypeOK, Periods, Job, cycle_opens_invoice, Underway, UnderwayIn
<1>1. \A v \in Workers : v # w => job[v].op = "idle" /\ job'[v].op = "idle"
  BY DEF Others, Idle
<1>2. InTime'
  <2>1. /\ job[w].p <= now /\ job[w].p <= job[w].p
        /\ \A p \in Periods : invoice[p] # "none" => p <= job[w].p
    BY <1>0 DEF Ledger, InTime
  <2>2. \A p \in Periods : invoice'[p] # "none" => p <= now' /\ p <= job'[w].p
    BY <1>0, <2>1, Opens DEF Ledger, InTime
  <2>3. \A p \in Periods : invoice'[p] = "none" => lines'[p] = {}
    BY <1>0, Opens DEF Ledger, InTime
  <2>4. \A v \in Workers : job'[v].op \in {"cycle", "lines", "issued"} => v = w
    BY <1>1
  <2> QED
    BY <2>1, <2>2, <2>3, <2>4, Opens DEF InTime
<1>3. lines[job[w].p] \subseteq Pending
  <2> SUFFICES ASSUME NEW c \in lines[job[w].p], charge[c].status # "PENDING"
               PROVE  FALSE
    BY <1>0 DEF Pending
  <2>1. invoice[job[w].p] = "DRAFT"
    BY <1>0 DEF Ledger, InTime, TypeOK
  <2>2. /\ charge[c].status = "INVOICED" /\ job[w].p < charge[c].invoice
        /\ c \in Charges
    BY <1>0, <2>1 DEF Ledger, Settles
  <2>3. charge[c].invoice \in Periods /\ invoice[charge[c].invoice] = "ISSUED"
    BY <2>2 DEF InvoicedIsBilled, TypeOK, Charge
  <2>4. charge[c].invoice <= job[w].p
    BY <1>0, <2>3 DEF Ledger, InTime
  <2>5. job[w].p \in Int /\ charge[c].invoice \in Int
    BY <2>3, PeriodAssumption DEF Periods, TypeOK, Job
  <2> QED
    BY <2>2, <2>4, <2>5
<1>4. Gathered'
  BY <1>0, <1>1, <1>3, Opens DEF Gathered, Pending
<1>5. \A p \in Periods : \A c \in lines'[p] : Settles(c, p)'
  <2> SUFFICES ASSUME NEW p \in Periods, NEW c \in lines[p] PROVE Settles(c, p)'
    BY Opens
  <2>1. CASE p = job[w].p
    BY <1>0, <1>3, <2>1, Opens DEF Settles, Pending
  <2>2. CASE p # job[w].p
    BY <1>0, <1>1, <2>2, Opens DEF Ledger, Settles
  <2> QED
    BY <2>1, <2>2
<1> QED
  BY <1>2, <1>4, <1>5 DEF Ledger

\* The line that is added is of a PENDING charge.
LEMMA LedgerAdds ==
    ASSUME TypeOK, TypeOK', Ledger, Alone', NEW w \in Workers, Others(w),
           NEW d \in Charges, add_invoice_line_item(w, d)
    PROVE  Ledger'
<1>0. /\ job[w].p \in Periods /\ job[w].op = "lines" /\ invoice[job[w].p] = "DRAFT"
      /\ charge[d].status = "PENDING"
  BY Adds DEF TypeOK, Job, Ledger, Gathered
<1>1. \A v \in Workers : v # w => job[v].op = "idle" /\ job'[v].op = "idle"
  BY DEF Others, Idle
<1>2. InTime'
  BY <1>0, <1>1, Adds DEF Ledger, InTime
<1>3. Gathered'
  BY <1>0, <1>1, Adds DEF Ledger, Gathered
<1>4. \A p \in Periods : \A c \in lines'[p] : Settles(c, p)'
  <2> SUFFICES ASSUME NEW p \in Periods, NEW c \in lines'[p] PROVE Settles(c, p)'
    OBVIOUS
  <2>1. CASE c \in lines[p]
    BY <1>0, <1>1, <2>1, Adds DEF Ledger, Settles
  <2>2. CASE c \notin lines[p]
    <3>1. c = d /\ p = job[w].p
      BY <2>2, Adds
    <3> QED
      BY <1>0, <3>1, Adds DEF Settles
  <2> QED
    BY <2>1, <2>2
<1> QED
  BY <1>2, <1>3, <1>4 DEF Ledger

\* All the lines of the invoice that is issued are marked.
LEMMA LedgerIssues ==
    ASSUME TypeOK, TypeOK', Ledger, Alone', NEW w \in Workers, Others(w), issue_invoice(w)
    PROVE  Ledger'
<1>0. /\ job[w].p \in Periods /\ job[w].op = "lines" /\ invoice[job[w].p] = "DRAFT"
      /\ lines[job[w].p] \subseteq job[w].marked
  BY Issues DEF TypeOK, Job, Ledger, Gathered
<1>1. \A v \in Workers : v # w => job[v].op = "idle" /\ job'[v].op = "idle"
  BY DEF Others, Idle
<1>2. InTime'
  BY <1>0, <1>1, Issues DEF Ledger, InTime
<1>3. Gathered'
  BY <1>0, <1>1, Issues DEF Ledger, Gathered
<1>4. \A p \in Periods : \A c \in lines'[p] : Settles(c, p)'
  <2> SUFFICES ASSUME NEW p \in Periods, NEW c \in lines[p] PROVE Settles(c, p)'
    BY Issues
  <2>1. CASE p = job[w].p
    BY <1>0, <2>1, Issues DEF Settles
  <2>2. CASE p # job[w].p
    BY <1>0, <1>1, <2>2, Issues DEF Ledger, Settles
  <2> QED
    BY <2>1, <2>2
<1> QED
  BY <1>2, <1>3, <1>4 DEF Ledger

\* The charges that are committed were PENDING, and every earlier DRAFT that has
\* a line of one is of an earlier period.
LEMMA LedgerCommits ==
    ASSUME TypeOK, TypeOK', Underway, Ledger, Alone', NEW w \in Workers, Others(w),
           cycle_commits(w)
    PROVE  Ledger'
<1>0. /\ job[w].p \in Periods /\ job[w].p \in Int
      /\ job[w].op = "issued" /\ UNCHANGED <<now, invoice, lines>>
      /\ job'[w].op = "collect"
      /\ \A p \in Periods : lines[p] \subseteq Charges
  BY GoesOn, PeriodAssumption DEF TypeOK, Periods, Job, cycle_commits, zoikonex, Op
<1>1. \A v \in Workers : v # w => job[v].op = "idle" /\ job'[v].op = "idle"
  BY DEF Others, Idle
<1>2. InTime'
  BY <1>0, <1>1 DEF Ledger, InTime
<1>3. Gathered'
  BY <1>0, <1>1 DEF Gathered
<1>4. \A p \in Periods : \A c \in lines'[p] : Settles(c, p)'
  <2> SUFFICES ASSUME NEW p \in Periods, NEW c \in lines[p] PROVE Settles(c, p)'
    BY <1>0
  <2>1. Settles(c, p) /\ c \in Charges
    BY <1>0 DEF Ledger
  <2>2. CASE c \in job[w].marked
    <3>1. charge'[c].status = "INVOICED" /\ charge'[c].invoice = job[w].p
      BY <2>1, <2>2 DEF cycle_commits, Invoiced
    <3>2. charge[c].status = "PENDING"
      BY <1>0, <2>2 DEF Ledger, Gathered
    <3>3. invoice[p] = "DRAFT" => p < job[w].p
      <4>1. invoice[job[w].p] # "DRAFT"
        BY <1>0 DEF Underway, UnderwayIn
      <4>2. invoice[p] = "DRAFT" => p <= job[w].p
        BY <1>0 DEF Ledger, InTime
      <4>3. job[w].p \in Int /\ p \in Int
        BY <1>0, PeriodAssumption DEF Periods
      <4> QED
        BY <4>1, <4>2, <4>3
    <3>4. invoice[p] = "ISSUED" => p = job[w].p
      BY <1>1, <2>1, <3>2 DEF Settles
    <3> QED
      BY <1>0, <3>1, <3>3, <3>4 DEF Settles
  <2>3. CASE c \notin job[w].marked
    <3>1. charge'[c] = charge[c]
      BY <2>1, <2>3 DEF cycle_commits, Invoiced
    <3> QED
      BY <1>0, <1>1, <2>1, <2>3, <3>1 DEF Settles
  <2> QED
    BY <2>2, <2>3
<1> QED
  BY <1>2, <1>3, <1>4 DEF Ledger

\* Each step of the one approval under way keeps the ledger, and so does what goes
\* on around it.
LEMMA LedgerStep ==
    ASSUME TypeOK, Underway, [Next]_vars, InvoicedIsBilled, calm', calm => Ledger
    PROVE  Ledger'
<1>0. TypeOK' /\ Ledger /\ Alone' /\ now \in Int /\ job \in [Workers -> Job]
  BY OneMoves, AloneStep, TypeStep, PeriodAssumption DEF Ledger, TypeOK, Periods
<1>1. CASE job' = job
  <2>1. CASE period_ends
    BY <1>0, <2>1, LedgerWaits DEF period_ends, zoikonex
  <2>2. ASSUME NEW c \in Charges, record_pending_number_charge(c)
        PROVE  Ledger'
    BY <1>0, <2>2, LedgerRecords
  <2>3. ASSUME NEW w \in Workers, Approval(w)
        PROVE  UNCHANGED <<now, charge, invoice, lines>>
    <3>1. ~ cycle_opens_invoice(w) /\ ~ issue_invoice(w) /\ ~ cycle_commits(w)
      BY <1>1, Opens, Issues, GoesOn DEF cycle_opens_invoice, cycle_commits, Op
    <3>2. \A c \in Charges : ~ add_invoice_line_item(w, c)
      BY <1>1, Adds
    <3> QED
      BY <2>3, <3>1, <3>2, CycleOrAside DEF Aside
  <2>4. ASSUME NEW w \in Workers, NEW r \in Requests, NEW s \in Staff,
               approve_billing_cycle(w, r, s) \/ approve_note(w, r, s)
        PROVE  UNCHANGED <<now, charge, invoice, lines>>
    BY <2>4, Begins
  <2>5. \A w \in Workers : ~ approval_dies(w)
    BY DEF approval_dies
  <2>6. UNCHANGED <<now, charge, invoice, lines>> => Ledger'
    BY <1>0, <1>1, LedgerWaits
  <2> QED
    BY <2>1, <2>2, <2>3, <2>4, <2>5, <2>6 DEF Next, vars, request_billing_action,
       reject_billing_action, zoikonex
<1>2. ASSUME NEW w \in Workers, Others(w), Approval(w)
      PROVE  Ledger'
  <2>1. \/ cycle_opens_invoice(w) \/ issue_invoice(w) \/ cycle_commits(w)
        \/ \E c \in Charges : add_invoice_line_item(w, c)
        \/ Aside(w) /\ job[w].op # "issued"
    BY <1>2, CycleOrAside
  <2> QED
    BY <1>0, <1>2, <2>1, LedgerOpens, LedgerIssues, LedgerCommits, LedgerAdds, LedgerAside
<1>3. ASSUME NEW w \in Workers, Others(w), NEW r \in Requests, NEW s \in Staff,
             approve_billing_cycle(w, r, s) \/ approve_note(w, r, s)
      PROVE  Ledger'
  <2>1. job[w] = Idle
    BY <1>3 DEF approve_billing_cycle, approve_note, Begin
  <2>2. job[w].op # "issued"
    BY <2>1 DEF Idle
  <2>3. CASE job'[w].op = "cycle"
    BY <1>0, <1>3, <2>1, <2>3, Begins, LedgerBegins
  <2>4. CASE job'[w].op = "note"
    BY <1>0, <1>3, <2>2, <2>4, Begins, LedgerAside DEF Aside
  <2> QED
    BY <1>3, <2>3, <2>4, Begins
<1>4. calm => Alone
  BY <1>0 DEF Ledger
<1> QED
  BY <1>1, <1>2, <1>3, <1>4, OneMoves

\* While approvals neither overlap nor die no charge is on two issued invoices.
THEOREM NoChargeIsBilledTwice == Spec => []ChargedOnce
<1> DEFINE Inv == TypeOK /\ Underway /\ InvoicedIsBilled /\ (calm => Ledger)
<1>1. Init => Inv
  <2> SUFFICES ASSUME Init PROVE Inv
    OBVIOUS
  <2>1. TypeOK /\ Underway /\ InvoicedIsBilled
    BY Initially DEF Init, InvoicedIsBilled
  <2>2. Ledger
    BY DEF Init, Ledger, Alone, InTime, Gathered, Idle
  <2> QED
    BY <2>1, <2>2
<1>2. Inv /\ [Next]_vars => Inv'
  BY TypeStep, UnderwayStep, InvoicedStep, LedgerStep
<1>3. Inv => ChargedOnce
  <2> SUFFICES ASSUME TypeOK, calm, Ledger, NEW c \in Charges
               PROVE  Cardinality({p \in Periods : c \in lines[p] /\ invoice[p] = "ISSUED"})
                         <= 1
    BY DEF ChargedOnce
  <2> DEFINE Issued == {p \in Periods : c \in lines[p] /\ invoice[p] = "ISSUED"}
  <2>1. \A p, q \in Issued : p = q
    <3> SUFFICES ASSUME NEW p \in Issued, NEW q \in Issued PROVE p = q
      OBVIOUS
    <3>1. \A v, w \in Workers : job[v].op = "issued" /\ job[w].op = "issued" => v = w
      BY DEF Ledger, Alone, Idle
    <3>2. \A w \in Workers : job[w].op = "issued" /\ c \in job[w].marked =>
                                charge[c].status = "PENDING"
      BY DEF Ledger, Gathered
    <3>3. Settles(c, p) /\ Settles(c, q) /\ invoice[p] = "ISSUED" /\ invoice[q] = "ISSUED"
      BY DEF Ledger
    <3> QED
      BY <3>1, <3>2, <3>3 DEF Settles
  <2>2. CASE Issued = {}
    BY <2>2, FS_EmptySet
  <2>3. CASE Issued # {}
    <3>1. PICK p : Issued = {p}
      BY <2>1, <2>3
    <3>2. Cardinality(Issued) = 1
      BY <3>1, FS_Singleton
    <3> QED
      BY <3>2
  <2> QED
    BY <2>2, <2>3
<1> QED
  BY <1>1, <1>2, <1>3, PTL DEF Spec
=============================================================================
