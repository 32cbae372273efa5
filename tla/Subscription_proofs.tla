------------------------ MODULE Subscription_proofs ------------------------
(* Proofs about Subscription. *)
EXTENDS Subscription, TLAPS

-----------------------------------------------------------------------------
(* What the operators on the row do.                                       *)

\* The length of a period is a number.
LEMMA LengthIsNat ==
    ASSUME NEW period PROVE Length(period) \in Nat
  BY TimesAssumption DEF Length

\* A lazily created row is a row without a Stripe subscription of its own.
LEMMA CreatedRow ==
    ASSUME NEW s \in Row, now \in Nat
    PROVE  /\ Created(s) \in Row
           /\ Created(s).stripe = s.stripe
           /\ s.status # "NONE" => Created(s) = s
           /\ s.status = "NONE" => Created(s).status \in {"TRIALING", "ACTIVE"}
  <1>1. CASE s.status # "NONE"
    BY <1>1 DEF Created
  <1>2. CASE s.status = "NONE"
    <2> DEFINE st == IF Trial > 0 THEN "TRIALING" ELSE "ACTIVE"
               tr == IF Trial > 0 THEN now + Trial ELSE None
               en == now + Month
    <2>1. st \in {"TRIALING", "ACTIVE"} /\ st \in Status
      BY DEF Status
    <2>2. tr \in Nat \cup {None} /\ en \in Nat
      BY TimesAssumption
    <2>3. Created(s) = [s EXCEPT !.status = st, !.trial = tr, !.end = en]
      BY <1>2 DEF Created
    <2> HIDE DEF st, tr, en
    <2> QED
      BY <1>2, <2>1, <2>2, <2>3 DEF Row
  <1> QED
    BY <1>1, <1>2

\* Forgetting a downgrade touches its three columns.
LEMMA UnscheduledRow ==
    ASSUME NEW s \in Row
    PROVE  /\ Unscheduled(s) \in Row
           /\ Unscheduled(s).stripe = s.stripe /\ Unscheduled(s).status = s.status
           /\ Unscheduled(s).period = s.period
  BY DEF Unscheduled, Row

\* A due downgrade touches the plan, the period and the schedule.
LEMMA DowngradedRow ==
    ASSUME NEW s \in Row
    PROVE  /\ Downgraded(s) \in Row
           /\ Downgraded(s).stripe = s.stripe /\ Downgraded(s).status = s.status
  <1>1. CASE ~IsDue(s)
    BY <1>1 DEF Downgraded
  <1>2. CASE IsDue(s)
    <2> DEFINE u == Unscheduled(s)
               p == IF s.speriod = None THEN s.period ELSE s.speriod
    <2>1. /\ u \in Row /\ u.stripe = s.stripe /\ u.status = s.status
          /\ u.period = s.period
      BY UnscheduledRow
    <2>2. s.splan \in Plans /\ p \in Periods
      BY <1>2 DEF IsDue, Row
    <2>3. Downgraded(s) = [u EXCEPT !.plan = s.splan, !.period = p]
      BY <1>2, <2>1 DEF Downgraded, Row
    <2> HIDE DEF u, p
    <2> QED
      BY <2>1, <2>2, <2>3 DEF Row
  <1> QED
    BY <1>1, <1>2

\* A rollover touches the end of the period.
LEMMA RolledOverRow ==
    ASSUME NEW s \in Row, now \in Nat
    PROVE  /\ RolledOver(s) \in Row
           /\ RolledOver(s).stripe = s.stripe
           /\ RolledOver(s).status = s.status
  <1>1. now + Length(s.period) \in Nat
    BY LengthIsNat
  <1> QED
    BY <1>1 DEF RolledOver, Row

\* The end of a trial touches the status.
LEMMA TrialOverRow ==
    ASSUME NEW s \in Row
    PROVE  /\ TrialOver(s) \in Row
           /\ TrialOver(s).stripe = s.stripe
           /\ TrialOver(s).status # s.status =>
                  s.status = "TRIALING" /\ TrialOver(s).status = "ACTIVE"
  BY DEF TrialOver, Row, Status, Ended

\* Reading the row keeps its Stripe subscription; of its
\* status it only creates the first one and ends a trial.
LEMMA CurrentRow ==
    ASSUME NEW s \in Row, now \in Nat
    PROVE  /\ Current(s) \in Row
           /\ Current(s).stripe = s.stripe
           /\ Current(s).status # "NONE"
           /\ Current(s).status # s.status =>
                  \/ s.status = "NONE" /\ Current(s).status \in {"TRIALING", "ACTIVE"}
                  \/ s.status = "TRIALING" /\ Current(s).status = "ACTIVE"
  <1> DEFINE c == Created(s)
             d == Downgraded(c)
             r == RolledOver(d)
  <1>1. /\ c \in Row /\ c.stripe = s.stripe
        /\ s.status # "NONE" => c = s
        /\ s.status = "NONE" => c.status \in {"TRIALING", "ACTIVE"}
    BY CreatedRow
  <1>2. d \in Row /\ d.stripe = c.stripe /\ d.status = c.status
    BY <1>1, DowngradedRow
  <1>3. r \in Row /\ r.stripe = d.stripe /\ r.status = d.status
    BY <1>2, RolledOverRow
  <1>4. /\ TrialOver(r) \in Row
        /\ TrialOver(r).stripe = r.stripe
        /\ TrialOver(r).status # r.status =>
               r.status = "TRIALING" /\ TrialOver(r).status = "ACTIVE"
    BY <1>3, TrialOverRow
  <1>5. Current(s) = TrialOver(r)
    BY DEF Current
  <1> HIDE DEF c, d, r
  <1> QED
    BY <1>1, <1>2, <1>3, <1>4, <1>5

\* A chosen plan ends a trial and keeps every other status.
LEMMA ChosenRow ==
    ASSUME NEW s \in Row, NEW o \in Order, now \in Nat
    PROVE  /\ Chosen(s, o) \in Row
           /\ Chosen(s, o).stripe = s.stripe
           /\ Chosen(s, o).status = IF s.status = "TRIALING" THEN "ACTIVE" ELSE s.status
  <1>1. now + Length(o.period) \in Nat /\ o.plan \in Plans /\ o.period \in Periods
    BY LengthIsNat DEF Order
  <1> DEFINE p == WithPeriod(s, o.period)
  <1>2. p \in Row /\ p.stripe = s.stripe /\ p.status = s.status
    BY <1>1 DEF WithPeriod, Row
  <1>3. Chosen(s, o) = LET r == [p EXCEPT !.plan = o.plan] IN
            IF s.status = "TRIALING" THEN [r EXCEPT !.status = "ACTIVE", !.trial = None] ELSE r
    BY DEF Chosen
  <1> HIDE DEF p
  <1> QED
    BY ZenonT(60), <1>1, <1>2, <1>3 DEF Row, Status, Ended

\* A row merged from what a handler has read and what it wants is a row: its
\* status and its Stripe subscription are the old ones unless the handler
\* changes them.
LEMMA MergedRow ==
    ASSUME NEW j, j.read \in Row, j.new \in Row, NEW s \in Row
    PROVE  /\ Merged(j, s) \in Row
           /\ Merged(j, s).status = IF j.new.status = j.read.status THEN s.status
                                    ELSE j.new.status
           /\ Merged(j, s).stripe = IF j.new.stripe = j.read.stripe THEN s.stripe
                                    ELSE j.new.stripe
  BY DEF Merged, Row

-----------------------------------------------------------------------------
(* What a worker does.                                                     *)

Inv == TypeOK /\ IndInv

\* The record of a worker is that of what it is about.
LEMMA JobShape ==
    ASSUME TypeOK, NEW w \in Workers
    PROVE  /\ job[w].op \in Reading =>
                 job[w].read \in Row /\ job[w].new \in Row /\ job[w] # Idle
           /\ job[w].op \in {"update", "zoikonex"} => job[w].event \in Notice \cup {None}
           /\ job[w].op = "paying" => job[w].c \in Checkouts
           /\ job[w].op = "applied" =>
                 /\ job[w].c \in Checkouts /\ job[w].prev \in Checkouts \cup {None}
                 /\ job[w] # Idle
           /\ job[w].op = "handover" => job[w].prev \in Checkouts /\ job[w] # Idle
  <1>1. job[w] \in Job
    BY DEF TypeOK
  <1> QED
    BY <1>1 DEF Job, Idle, Reading

\* A handler is taken up: it has the row as it is and changes nothing, but may
\* have ended the subscription at Stripe.
Taken(w) ==
    /\ job[w] = Idle
    /\ job' \in [Workers -> Job]
    /\ \A v \in Workers : v # w => job'[v] = job[v]
    /\ calm' \in BOOLEAN
    /\ calm' => calm /\ \A v \in Workers : job[v] = Idle
    /\ UNCHANGED <<now, sub, checkout, mail, handled, alerted>>
    /\ live' \in [Checkouts -> {"no", "yes", "ended"}]
    /\ \A c \in Checkouts : live'[c] = live[c] \/ (live[c] = "yes" /\ live'[c] = "ended")

\* What it wants: it leaves the Stripe subscription to others, takes a step of
\* Flow, and cancels only when Stripe has been told.
Wanted(j, charging) ==
    /\ j.op \in Reading /\ j.read = sub
    /\ j.new.stripe = sub.stripe /\ j.new.status # "NONE"
    /\ j.new.status = "TRIALING" => ~PastTrial(sub)
    /\ \/ j.op = "zoikonex" \/ j.new.status = sub.status
       \/ <<sub.status, j.new.status>> \in Flow
    /\ j.new.status = "CANCELED" /\ sub.status # "CANCELED" =>
          sub.stripe = None \/ charging[sub.stripe] = "ended"
    /\ j.op = "paying" => /\ PastTrial(j.new) /\ sub.status # "NONE"
                          /\ checkout[j.c] = "paid"
    /\ j.op \in {"update", "zoikonex"} => j.event \in mail \cup {None}

\* The first step of a handler puts its record with the worker.
LEMMA Begins ==
    ASSUME TypeOK, NEW w \in Workers, NEW j \in Job, job[w] = Idle,
           job' = [job EXCEPT ![w] = j],
           calm' = (calm /\ \A v \in Workers : job[v] = Idle),
           UNCHANGED <<now, sub, checkout, mail, handled, alerted>>,
           live' \in [Checkouts -> {"no", "yes", "ended"}],
           \A c \in Checkouts : live'[c] = live[c] \/ (live[c] = "yes" /\ live'[c] = "ended")
    PROVE  Taken(w) /\ job'[w] = j
  BY DEF Taken, TypeOK

\* The rows an update may write.
Fits(n, charging) ==
    /\ n \in Row /\ n.stripe = sub.stripe /\ n.status # "NONE"
    /\ n.status = "TRIALING" => ~PastTrial(sub)
    /\ n.status = sub.status \/ <<sub.status, n.status>> \in Flow
    /\ n.status = "CANCELED" /\ sub.status # "CANCELED" =>
          sub.stripe = None \/ charging[sub.stripe] = "ended"

\* An update that writes one of them.
LEMMA UpdateTaken ==
    ASSUME TypeOK, NEW w \in Workers, NEW n \in Row, NEW e \in mail \cup {None},
           Update(w, n, e), Fits(n, live'),
           live' \in [Checkouts -> {"no", "yes", "ended"}],
           \A c \in Checkouts : live'[c] = live[c] \/ (live[c] = "yes" /\ live'[c] = "ended")
    PROVE  Taken(w) /\ Wanted(job'[w], live')
  <1> DEFINE j == [op |-> "update", read |-> sub, new |-> n, event |-> e]
  <1>1. j \in Job /\ j.op = "update" /\ j.read = sub /\ j.new = n /\ j.event = e
    BY DEF TypeOK, Job
  <1>2. /\ job[w] = Idle /\ job' = [job EXCEPT ![w] = j]
        /\ calm' = (calm /\ \A v \in Workers : job[v] = Idle)
        /\ UNCHANGED <<now, sub, checkout, mail, handled, alerted>>
    BY DEF Update, Begin
  <1> HIDE DEF j
  <1>3. Taken(w) /\ job'[w] = j
    BY <1>1, <1>2, Begins
  <1>4. Wanted(j, live')
    BY <1>1 DEF Wanted, Reading, Fits
  <1> QED
    BY <1>3, <1>4

\* So is every request and every webhook.
LEMMA TakesUp ==
    ASSUME Inv, NEW w \in Workers, TakeUp(w)
    PROVE  Taken(w) /\ Wanted(job'[w], live')
  <1>type. /\ TypeOK /\ sub \in Row /\ now \in Nat /\ None \in mail \cup {None}
           /\ sub.status \in Status /\ live \in [Checkouts -> {"no", "yes", "ended"}]
    BY TimesAssumption DEF Inv, TypeOK, Row
  <1>ret. Returned => sub.status # "NONE"
    BY <1>type, CurrentRow DEF Returned
  <1>own. sub.stripe # None => PastTrial(sub)
    BY DEF Inv, IndInv, TrialsEnd
  <1>upd. ASSUME NEW n \in Row, Update(w, n, None), Fits(n, live), live' = live
          PROVE  Taken(w) /\ Wanted(job'[w], live')
    <2>1. Fits(n, live')
      BY <1>upd DEF Fits
    <2>2. \A c \in Checkouts : live'[c] = live[c] \/ (live[c] = "yes" /\ live'[c] = "ended")
      BY <1>upd
    <2>3. live' \in [Checkouts -> {"no", "yes", "ended"}]
      BY <1>type, <1>upd
    <2> QED
      BY <1>type, <1>upd, <2>1, <2>2, <2>3, UpdateTaken
  <1>cho. ASSUME NEW o \in Order, sub.status # "NONE"
          PROVE  /\ Fits(Chosen(sub, o), live)
                 /\ PastTrial(Chosen(sub, o)) /\ Chosen(sub, o) \in Row
    <2>1. /\ Chosen(sub, o) \in Row /\ Chosen(sub, o).stripe = sub.stripe
          /\ Chosen(sub, o).status = IF sub.status = "TRIALING" THEN "ACTIVE" ELSE sub.status
      BY <1>type, ChosenRow
    <2> QED
      BY <1>type, <1>cho, <2>1 DEF Fits, PastTrial, Flow, Status, Ended
  <1>sta. ASSUME NEW st \in {"CANCELED", "TERMINATED"},
                 sub.status \notin {"NONE", st},
                 st = "TERMINATED" => sub.status \in {"PAST_DUE", "CANCELED"}
          PROVE  /\ [sub EXCEPT !.status = st] \in Row
                 /\ [sub EXCEPT !.status = st].status = st
                 /\ [sub EXCEPT !.status = st].stripe = sub.stripe
                 /\ <<sub.status, st>> \in Flow
    <2>1. /\ [sub EXCEPT !.status = st] \in Row
          /\ [sub EXCEPT !.status = st].status = st
          /\ [sub EXCEPT !.status = st].stripe = sub.stripe
      BY <1>type DEF Row, Status, Ended
    <2>2. <<sub.status, st>> \in Flow
      BY <1>type, <1>sta DEF Flow, Status, Ended
    <2> QED
      BY <2>1, <2>2
  <1>1. CASE get_or_create_subscription(w)
    <2> DEFINE n == Current(sub)
    <2>1. /\ n \in Row /\ n.stripe = sub.stripe /\ n.status # "NONE"
          /\ n.status # sub.status =>
                \/ sub.status = "NONE" /\ n.status \in {"TRIALING", "ACTIVE"}
                \/ sub.status = "TRIALING" /\ n.status = "ACTIVE"
      BY <1>type, CurrentRow
    <2>2. Update(w, n, None) /\ live' = live
      BY <1>1 DEF get_or_create_subscription
    <2> HIDE DEF n
    <2>3. PICK m \in Row : m = n
      BY <2>1
    <2>4. Fits(m, live)
      BY <2>1, <2>3 DEF Fits, PastTrial, Flow
    <2>5. Update(w, m, None)
      BY <2>2, <2>3 DEF Update, Begin
    <2> QED
      BY <1>upd, <2>2, <2>4, <2>5
  <1>2. CASE cancel_scheduled_plan_change(w)
    <2> DEFINE n == Unscheduled(sub)
    <2>1. n \in Row /\ n.stripe = sub.stripe /\ n.status = sub.status
      BY <1>type, UnscheduledRow
    <2>2. Update(w, n, None) /\ live' = live /\ sub.status # "NONE"
      BY <1>2, <1>ret DEF cancel_scheduled_plan_change
    <2> HIDE DEF n
    <2>3. PICK m \in Row : m = n
      BY <2>1
    <2>4. Fits(m, live)
      BY <2>1, <2>2, <2>3 DEF Fits, PastTrial
    <2>5. Update(w, m, None)
      BY <2>2, <2>3 DEF Update, Begin
    <2> QED
      BY <1>upd, <2>2, <2>4, <2>5
  <1>3. CASE cancel_subscription(w)
    <2> DEFINE n == [sub EXCEPT !.status = "CANCELED"]
    <2>1. Update(w, n, None) /\ live' = live /\ sub.status \notin {"NONE", "CANCELED"}
          /\ sub.stripe = None
      BY <1>3, <1>ret DEF cancel_subscription
    <2>2. n \in Row /\ n.stripe = sub.stripe /\ n.status = "CANCELED"
          /\ <<sub.status, n.status>> \in Flow
      BY <1>sta, <2>1
    <2> HIDE DEF n
    <2>3. PICK m \in Row : m = n
      BY <2>2
    <2>4. Fits(m, live)
      BY <2>1, <2>2, <2>3 DEF Fits
    <2>5. Update(w, m, None)
      BY <2>1, <2>3 DEF Update, Begin
    <2> QED
      BY <1>upd, <2>1, <2>4, <2>5
  <1>4. CASE cancel_at_stripe(w)
    <2> DEFINE n == [sub EXCEPT !.status = "CANCELED"]
    <2>1. /\ Update(w, n, None) /\ sub.status \notin {"NONE", "CANCELED"}
          /\ sub.stripe \in Checkouts /\ live[sub.stripe] = "yes"
          /\ live' = [live EXCEPT ![sub.stripe] = "ended"]
      BY <1>4, <1>ret, <1>type DEF cancel_at_stripe, Row
    <2>2. n \in Row /\ n.stripe = sub.stripe /\ n.status = "CANCELED"
          /\ <<sub.status, n.status>> \in Flow
      BY <1>sta, <2>1
    <2> HIDE DEF n
    <2>3. /\ live' \in [Checkouts -> {"no", "yes", "ended"}] /\ live'[sub.stripe] = "ended"
          /\ \A c \in Checkouts : live'[c] = live[c] \/ (live[c] = "yes" /\ live'[c] = "ended")
      BY <1>type, <2>1
    <2>4. PICK m \in Row : m = n
      BY <2>2
    <2>5. Fits(m, live')
      BY <2>2, <2>3, <2>4 DEF Fits
    <2>6. Update(w, m, None)
      BY <2>1, <2>4 DEF Update, Begin
    <2> QED
      BY <1>type, <2>3, <2>5, <2>6, UpdateTaken
  <1>5. CASE terminate_subscription(w)
    <2> DEFINE n == [sub EXCEPT !.status = "TERMINATED"]
    <2>1. Update(w, n, None) /\ live' = live /\ sub.status \in {"PAST_DUE", "CANCELED"}
      BY <1>5 DEF terminate_subscription
    <2>2. n \in Row /\ n.stripe = sub.stripe /\ n.status = "TERMINATED"
          /\ <<sub.status, n.status>> \in Flow
      BY <1>sta, <2>1
    <2> HIDE DEF n
    <2>3. PICK m \in Row : m = n
      BY <2>2
    <2>4. Fits(m, live)
      BY <2>1, <2>2, <2>3 DEF Fits
    <2>5. Update(w, m, None)
      BY <2>1, <2>3 DEF Update, Begin
    <2> QED
      BY <1>upd, <2>1, <2>4, <2>5
  <1>6. CASE handle_stripe_subscription_deleted_webhook(w)
    <2> DEFINE n == [sub EXCEPT !.status = "CANCELED"]
    <2>1. /\ Update(w, n, None) /\ live' = live /\ sub.status \notin {"NONE", "CANCELED"}
          /\ live[sub.stripe] = "ended"
      BY <1>6, <1>own DEF handle_stripe_subscription_deleted_webhook, PastTrial
    <2>2. n \in Row /\ n.stripe = sub.stripe /\ n.status = "CANCELED"
          /\ <<sub.status, n.status>> \in Flow
      BY <1>sta, <2>1
    <2> HIDE DEF n
    <2>3. PICK m \in Row : m = n
      BY <2>2
    <2>4. Fits(m, live)
      BY <2>1, <2>2, <2>3 DEF Fits
    <2>5. Update(w, m, None)
      BY <2>1, <2>3 DEF Update, Begin
    <2> QED
      BY <1>upd, <2>1, <2>4, <2>5
  <1>7. ASSUME NEW o \in Order, change_plan(w, o) \/ apply_plan_change_with_proration(w, o)
        PROVE  Taken(w) /\ Wanted(job'[w], live')
    <2> DEFINE n == Chosen(sub, o)
    <2>1. Update(w, n, None) /\ live' = live /\ sub.status # "NONE"
      BY <1>7, <1>ret DEF change_plan, apply_plan_change_with_proration
    <2>2. Fits(n, live) /\ n \in Row
      BY <1>cho, <2>1
    <2> HIDE DEF n
    <2>3. PICK m \in Row : m = n
      BY <2>2
    <2>4. Fits(m, live)
      BY <2>2, <2>3
    <2>5. Update(w, m, None)
      BY <2>1, <2>3 DEF Update, Begin
    <2> QED
      BY <1>upd, <2>1, <2>4, <2>5
  <1>8. ASSUME NEW o \in Order, confirm_plan_change(w, o)
        PROVE  Taken(w) /\ Wanted(job'[w], live')
    <2> DEFINE n == [sub EXCEPT !.splan = o.plan, !.speriod = o.period, !.due = sub.end]
    <2>1. n \in Row /\ n.stripe = sub.stripe /\ n.status = sub.status
      BY <1>type DEF Row, Order
    <2>2. Update(w, n, None) /\ live' = live /\ sub.status # "NONE"
      BY <1>8, <1>ret DEF confirm_plan_change
    <2> HIDE DEF n
    <2>3. PICK m \in Row : m = n
      BY <2>1
    <2>4. Fits(m, live)
      BY <2>1, <2>2, <2>3 DEF Fits, PastTrial
    <2>5. Update(w, m, None)
      BY <2>2, <2>3 DEF Update, Begin
    <2> QED
      BY <1>upd, <2>2, <2>4, <2>5
  <1>9. ASSUME NEW c \in Checkouts, handle_stripe_checkout_completed(w, c)
        PROVE  Taken(w) /\ Wanted(job'[w], live')
    <2> DEFINE n == Chosen(sub, OrderOf[c])
               j == [op |-> "paying", read |-> sub, new |-> n, c |-> c]
    <2>1. OrderOf[c] \in Order
      BY OrdersAssumption DEF Order, Periods
    <2>2. /\ job[w] = Idle /\ job' = [job EXCEPT ![w] = j]
          /\ calm' = (calm /\ \A v \in Workers : job[v] = Idle)
          /\ sub.status # "NONE" /\ checkout[c] = "paid"
          /\ UNCHANGED <<now, sub, checkout, live, mail, handled, alerted>>
      BY <1>9, <1>ret DEF handle_stripe_checkout_completed, Paying, Begin
    <2>3. n \in Row /\ Fits(n, live) /\ PastTrial(n)
      BY <1>cho, <2>1, <2>2
    <2> HIDE DEF n
    <2>4. j \in Job /\ j.op = "paying" /\ j.read = sub /\ j.new = n /\ j.c = c
      BY <1>type, <2>3 DEF Job
    <2>5. Wanted(j, live')
      BY <2>2, <2>3, <2>4 DEF Wanted, Reading, Fits
    <2> HIDE DEF j
    <2>6. PICK m \in Job : m = j
      BY <2>4
    <2>7. Taken(w) /\ job'[w] = m
      BY <1>type, <2>2, <2>6, Begins
    <2> QED
      BY <2>5, <2>6, <2>7
  <1>paid. ASSUME NEW type
           PROVE  /\ Applied(sub, type) \in Row
                  /\ Applied(sub, type).stripe = sub.stripe
                  /\ Applied(sub, type).status \in {"PAST_DUE", "ACTIVE"}
    <2>1. now + Grace \in Nat /\ {"PAST_DUE", "ACTIVE"} \subseteq Status
      BY <1>type, TimesAssumption DEF Status
    <2>2. /\ [sub EXCEPT !.status = "PAST_DUE", !.grace = now + Grace] \in Row
          /\ [sub EXCEPT !.status = "PAST_DUE", !.grace = now + Grace].stripe = sub.stripe
          /\ [sub EXCEPT !.status = "PAST_DUE", !.grace = now + Grace].status = "PAST_DUE"
      BY <1>type, <2>1 DEF Row
    <2>3. /\ [sub EXCEPT !.status = "ACTIVE", !.grace = None] \in Row
          /\ [sub EXCEPT !.status = "ACTIVE", !.grace = None].stripe = sub.stripe
          /\ [sub EXCEPT !.status = "ACTIVE", !.grace = None].status = "ACTIVE"
      BY <1>type, <2>1 DEF Row
    <2> QED
      BY <2>2, <2>3 DEF Applied
  <1>10. ASSUME NEW e \in Notice, handle_stripe_subscription_payment_webhook(w, e)
         PROVE  Taken(w) /\ Wanted(job'[w], live')
    <2> DEFINE n == Applied(sub, e.type)
    <2>1. /\ e \in mail \cup {None} /\ sub.stripe # None /\ sub.status \notin Ended
          /\ Update(w, n, e) /\ live' = live
      BY <1>10, NoneAssumption
      DEF handle_stripe_subscription_payment_webhook, Deliverable, Notice
    <2>2. n \in Row /\ n.stripe = sub.stripe /\ n.status \in {"PAST_DUE", "ACTIVE"}
      BY <1>paid
    <2>3. sub.status \in {"PAST_DUE", "ACTIVE"}
      BY <1>type, <1>own, <2>1 DEF PastTrial, Status, Ended
    <2> HIDE DEF n
    <2>4. PICK m \in Row : m = n
      BY <2>2
    <2>5. Fits(m, live')
      BY <2>2, <2>3, <2>4 DEF Fits, Flow
    <2>6. Update(w, m, e)
      BY <2>1, <2>4 DEF Update, Begin
    <2> QED
      BY <1>type, <2>1, <2>5, <2>6, UpdateTaken
  <1>11. ASSUME NEW type \in {"payment_failed", "payment_restored"},
                handle_zoikonex_payment_webhook(w, type)
         PROVE  Taken(w) /\ Wanted(job'[w], live')
    <2> DEFINE n == Applied(sub, type)
               j == [op |-> "zoikonex", read |-> sub, new |-> n, event |-> None]
    <2>1. /\ job[w] = Idle /\ job' = [job EXCEPT ![w] = j]
          /\ calm' = (calm /\ \A v \in Workers : job[v] = Idle)
          /\ UNCHANGED <<now, sub, checkout, live, mail, handled, alerted>>
      BY <1>11 DEF handle_zoikonex_payment_webhook, Begin
    <2>2. n \in Row /\ n.stripe = sub.stripe /\ n.status \in {"PAST_DUE", "ACTIVE"}
      BY <1>paid
    <2> HIDE DEF n
    <2>3. j \in Job /\ j.op = "zoikonex" /\ j.read = sub /\ j.new = n /\ j.event = None
      BY <1>type, <2>2 DEF Job
    <2>4. Wanted(j, live')
      BY <2>1, <2>2, <2>3 DEF Wanted, Reading
    <2> HIDE DEF j
    <2>5. PICK m \in Job : m = j
      BY <2>3
    <2>6. Taken(w) /\ job'[w] = m
      BY <1>type, <2>1, <2>5, Begins
    <2> QED
      BY <2>4, <2>5, <2>6
  <1> QED
    BY <1>1, <1>2, <1>3, <1>4, <1>5, <1>6, <1>7, <1>8, <1>9, <1>10, <1>11 DEF TakeUp

\* Then the invariant goes on to hold.
LEMMA TakenStep ==
    ASSUME Inv, NEW w \in Workers, Taken(w), Wanted(job'[w], live')
    PROVE  Inv'
  <1> DEFINE j == job'[w]
  <1>1. /\ j.op \in Reading /\ j.read = sub /\ j # Idle /\ j.op # "applied"
        /\ job[w] = Idle /\ \A v \in Workers : v # w => job'[v] = job[v]
        /\ sub' = sub /\ checkout' = checkout /\ mail' = mail /\ alerted' = alerted
        /\ calm' => calm /\ \A v \in Workers : job[v] = Idle
        /\ Idle.op = "idle"
    BY DEF Taken, Wanted, Reading, Idle
  <1>2. TypeOK'
    BY DEF Inv, TypeOK, Taken
  <1>3. TrialsEnd'
    <2>1. /\ j.new.status # "NONE"
          /\ j.new.status = "TRIALING" => ~PastTrial(sub)
          /\ j.op = "paying" => PastTrial(j.new) /\ sub.status # "NONE"
      BY DEF Wanted
    <2> HIDE DEF j
    <2>2. \A v \in Workers : v # w =>
              /\ job'[v].op = "applied" => PastTrial(sub)
              /\ job'[v].op \in Reading =>
                    /\ PastTrial(job'[v].read) => PastTrial(sub)
                    /\ job'[v].new.status # "NONE"
                    /\ job'[v].new.status = "TRIALING" => ~PastTrial(job'[v].read)
                    /\ job'[v].op = "paying" =>
                          PastTrial(job'[v].new) /\ job'[v].read.status # "NONE"
      BY <1>1 DEF Inv, IndInv, TrialsEnd
    <2> QED
      BY <1>1, <2>1, <2>2 DEF Inv, IndInv, TrialsEnd, PastTrial, j
  <1>4. Intended'
    <2>1. /\ j.new.stripe = sub.stripe
          /\ \/ j.op = "zoikonex" \/ j.new.status = sub.status
             \/ <<sub.status, j.new.status>> \in Flow
          /\ j.new.status = "CANCELED" /\ sub.status # "CANCELED" =>
                sub.stripe = None \/ live'[sub.stripe] = "ended"
      BY DEF Wanted
    <2>2. \A c \in Checkouts : live[c] = "ended" => live'[c] = "ended"
      BY DEF Taken
    <2> HIDE DEF j
    <2>3. ASSUME NEW v \in Workers, v # w, job'[v].op \in Reading
          PROVE  /\ job'[v].new.stripe = job'[v].read.stripe
                 /\ \/ job'[v].op = "zoikonex" \/ job'[v].new.status = job'[v].read.status
                    \/ <<job'[v].read.status, job'[v].new.status>> \in Flow
                 /\ job'[v].new.status = "CANCELED" /\ job'[v].read.status # "CANCELED" =>
                       \/ job'[v].read.stripe = None
                       \/ live'[job'[v].read.stripe] = "ended"
      <3>1. job'[v] = job[v] /\ job[v].op \in Reading
        BY <1>1, <2>3
      <3>2. job[v].read.stripe \in Checkouts \cup {None}
        BY <3>1, JobShape DEF Inv, Row
      <3> QED
        BY <2>2, <3>1, <3>2 DEF Inv, IndInv, Intended
    <2> QED
      BY <1>1, <2>1, <2>3 DEF Intended, j
  <1>5. PaidFor'
    <2>1. /\ j.op = "paying" => checkout[j.c] = "paid"
          /\ j.op \in {"update", "zoikonex"} => j.event \in mail \cup {None}
      BY DEF Wanted
    <2> HIDE DEF j
    <2>2. \A v \in Workers : v # w =>
              /\ job'[v].op \in {"paying", "applied"} =>
                    checkout[job'[v].c] \in {"paid", "completed"}
              /\ job'[v].op \in {"update", "zoikonex"} => job'[v].event \in mail \cup {None}
      BY <1>1 DEF Inv, IndInv, PaidFor
    <2>3. \A c \in Checkouts : live'[c] # "no" => checkout[c] \in {"paid", "completed"}
      BY DEF Taken, Inv, IndInv, PaidFor
    <2> QED
      BY <1>1, <2>1, <2>2, <2>3 DEF Inv, IndInv, PaidFor, j
  <1>6. Alone' /\ AsRead'
    BY <1>1 DEF Alone, AsRead, Reading
  <1>7. OneBiller'
    <2> SUFFICES ASSUME calm', NEW c \in Checkouts, live'[c] = "yes"
                 PROVE  c = sub.stripe \/ checkout[c] = "paid" \/ c \in alerted
      BY <1>1 DEF OneBiller
    <2>1. live[c] = "yes"
      BY DEF Taken
    <2>2. \A v \in Workers : job[v] # [op |-> "handover", prev |-> c]
      BY <1>1 DEF Idle
    <2> QED
      BY <1>1, <2>1, <2>2 DEF Inv, IndInv, OneBiller
  <1> QED
    BY <1>2, <1>3, <1>4, <1>5, <1>6, <1>7 DEF Inv, IndInv

-----------------------------------------------------------------------------
(* What a commit does.                                                     *)

\* Whatever else has been committed since the row was read, the result is a
\* row: its Stripe subscription is the old one, its status the old or the
\* intended one, and it does not go back to a trial.
LEMMA CommitRow ==
    ASSUME Inv, NEW w \in Workers, job[w].op \in Reading, Commit(job[w])
    PROVE  /\ sub' \in Row /\ sub'.stripe = sub.stripe
           /\ PastTrial(sub) => PastTrial(sub')
           /\ job[w].op = "paying" => PastTrial(sub')
           /\ job[w].read = sub => sub'.status = job[w].new.status
  <1> DEFINE r == job[w].read
             n == job[w].new
             m == Merged(job[w], sub)
  <1>1. r \in Row /\ n \in Row /\ sub \in Row
    BY JobShape DEF Inv, TypeOK
  <1>2. /\ m \in Row
        /\ m.status = IF n.status = r.status THEN sub.status ELSE n.status
        /\ m.stripe = IF n.stripe = r.stripe THEN sub.stripe ELSE n.stripe
    BY <1>1, MergedRow
  <1>3. n.stripe = r.stripe
    BY DEF Inv, IndInv, Intended
  <1>4. /\ PastTrial(r) => PastTrial(sub)
        /\ n.status # "NONE"
        /\ n.status = "TRIALING" => ~PastTrial(r)
        /\ job[w].op = "paying" => PastTrial(n) /\ r.status # "NONE"
    BY DEF Inv, IndInv, TrialsEnd
  <1>5. sub' = IF r.status = "NONE" /\ sub.status # "NONE" THEN sub ELSE m
    BY DEF Commit
  <1> HIDE DEF r, n, m
  <1>6. r = sub => sub'.status = n.status
    BY <1>2, <1>5
  <1>7. PastTrial(sub) => PastTrial(sub')
    BY <1>2, <1>4, <1>5 DEF PastTrial
  <1>8. job[w].op = "paying" => PastTrial(sub')
    BY <1>2, <1>4, <1>5 DEF PastTrial
  <1> QED
    BY <1>1, <1>2, <1>3, <1>5, <1>6, <1>7, <1>8 DEF r, n

\* The worker that commits is done, or goes on to record a checkout.
LEMMA CommitStep ==
    ASSUME Inv, NEW w \in Workers, job[w].op \in Reading, Commit(job[w]),
           NEW k \in Job, job' = [job EXCEPT ![w] = k],
           \/ k = Idle
           \/ /\ job[w].op = "paying"
              /\ k = [op |-> "applied", c |-> job[w].c, prev |-> job[w].read.stripe],
           UNCHANGED <<checkout, live, mail, alerted, calm>>
    PROVE  sub' \in Row /\ IndInv'
  <1>1. /\ sub' \in Row /\ sub'.stripe = sub.stripe
        /\ PastTrial(sub) => PastTrial(sub')
        /\ job[w].op = "paying" => PastTrial(sub')
    BY CommitRow
  <1>2. /\ job'[w] = k /\ \A v \in Workers : v # w => job'[v] = job[v]
        /\ Idle.op = "idle" /\ job[w] # Idle /\ k.op \notin Reading
        /\ k.op = "applied" => /\ job[w].op = "paying" /\ k.c = job[w].c
                               /\ k.prev = job[w].read.stripe
    BY DEF Inv, TypeOK, Idle, Reading
  <1>3. TrialsEnd'
    <2>1. ASSUME NEW v \in Workers
          PROVE  /\ job'[v].op = "applied" => PastTrial(sub')
                 /\ job'[v].op \in Reading =>
                       /\ PastTrial(job'[v].read) => PastTrial(sub')
                       /\ job'[v].new.status # "NONE"
                       /\ job'[v].new.status = "TRIALING" => ~PastTrial(job'[v].read)
                       /\ job'[v].op = "paying" =>
                             PastTrial(job'[v].new) /\ job'[v].read.status # "NONE"
      <3>1. CASE v = w
        BY <1>1, <1>2, <3>1
      <3>2. CASE v # w
        BY <1>1, <1>2, <3>2 DEF Inv, IndInv, TrialsEnd
      <3> QED
        BY <3>1, <3>2
    <2>2. sub'.stripe # None => PastTrial(sub')
      BY <1>1 DEF Inv, IndInv, TrialsEnd
    <2> QED
      BY <2>1, <2>2 DEF TrialsEnd, PastTrial
  <1>4. Intended'
    BY <1>2 DEF Inv, IndInv, Intended
  <1>5. PaidFor'
    <2>1. \A v \in Workers :
              /\ job'[v].op \in {"paying", "applied"} =>
                    checkout[job'[v].c] \in {"paid", "completed"}
              /\ job'[v].op \in {"update", "zoikonex"} => job'[v].event \in mail \cup {None}
      BY <1>2 DEF Inv, IndInv, PaidFor, Reading
    <2> QED
      BY <1>1, <2>1 DEF Inv, IndInv, PaidFor
  <1>6. calm => \A v \in Workers : v # w => job[v] = Idle
    BY <1>2 DEF Inv, IndInv, Alone
  <1>7. Alone'
    BY <1>2, <1>6 DEF Alone
  <1>8. AsRead'
    <2>1. calm => job[w].read = sub
      BY DEF Inv, IndInv, AsRead
    <2> QED
      BY <1>1, <1>2, <1>6, <2>1 DEF AsRead, Reading
  <1>9. OneBiller'
    <2> SUFFICES ASSUME calm, NEW c \in Checkouts, live[c] = "yes"
                 PROVE  c = sub.stripe \/ checkout[c] = "paid" \/ c \in alerted
      BY <1>1 DEF OneBiller
    <2>1. \A v \in Workers : job[v] # [op |-> "handover", prev |-> c]
      BY <1>2, <1>6 DEF Idle, Reading
    <2> QED
      BY <2>1 DEF Inv, IndInv, OneBiller
  <1> QED
    BY <1>1, <1>3, <1>4, <1>5, <1>7, <1>8, <1>9 DEF IndInv

\* Recording a checkout leaves the superseded subscription to the next step.
LEMMA RecordedStep ==
    ASSUME Inv, NEW w \in Workers, checkout_recorded(w)
    PROVE  Inv'
  <1> DEFINE j == job[w]
  <1>1. /\ j.op = "applied" /\ j.c \in Checkouts /\ j.prev \in Checkouts \cup {None}
        /\ j # Idle
    BY JobShape DEF checkout_recorded, Inv
  <1>2. /\ sub' = [sub EXCEPT !.stripe = j.c]
        /\ checkout' = [checkout EXCEPT ![j.c] = "completed"]
        /\ job' = [job EXCEPT ![w] = IF j.prev \in {None, j.c} THEN Idle
                                     ELSE [op |-> "handover", prev |-> j.prev]]
        /\ UNCHANGED <<now, live, mail, handled, alerted, calm>>
    BY DEF checkout_recorded
  <1>3. PastTrial(sub)
    BY <1>1 DEF Inv, IndInv, TrialsEnd
  <1>4. calm => /\ j.prev = sub.stripe
                /\ \A v \in Workers : v # w => job[v] = Idle
    BY <1>1 DEF Inv, IndInv, Alone, AsRead
  <1> HIDE DEF j
  <1>5. /\ sub' \in Row /\ sub'.stripe = j.c /\ sub'.status = sub.status
        /\ checkout'[j.c] = "completed"
        /\ checkout' \in [Checkouts -> {"none", "open", "paid", "completed"}]
        /\ \A c \in Checkouts : c # j.c => checkout'[c] = checkout[c]
    BY <1>1, <1>2 DEF Inv, TypeOK, Row
  <1>6. /\ job'[w] = IF j.prev \in {None, j.c} THEN Idle
                     ELSE [op |-> "handover", prev |-> j.prev]
        /\ \A v \in Workers : v # w => job'[v] = job[v]
        /\ job' \in [Workers -> Job]
        /\ job'[w].op \notin Reading \cup {"applied"}
        /\ Idle.op = "idle"
    BY <1>1, <1>2 DEF Inv, TypeOK, Job, Idle, Reading
  <1>7. TypeOK'
    BY <1>2, <1>5, <1>6 DEF Inv, TypeOK
  <1>8. TrialsEnd'
    BY <1>3, <1>5, <1>6 DEF Inv, IndInv, TrialsEnd, PastTrial
  <1>9. Intended'
    BY <1>2, <1>6 DEF Inv, IndInv, Intended
  <1>10. PaidFor'
    <2>1. \A v \in Workers :
              /\ job'[v].op \in {"paying", "applied"} =>
                    v # w /\ checkout[job[v].c] \in {"paid", "completed"} /\ job[v].c \in Checkouts
              /\ job'[v].op \in {"update", "zoikonex"} => v # w /\ job[v].event \in mail \cup {None}
      BY <1>6, JobShape DEF Inv, IndInv, PaidFor, Reading
    <2>2. \A v \in Workers :
              /\ job'[v].op \in {"paying", "applied"} =>
                    checkout'[job'[v].c] \in {"paid", "completed"}
              /\ job'[v].op \in {"update", "zoikonex"} => job'[v].event \in mail \cup {None}
      BY <1>5, <1>6, <2>1
    <2>3. \A c \in Checkouts : live'[c] # "no" => checkout'[c] \in {"paid", "completed"}
      BY <1>2, <1>5 DEF Inv, IndInv, PaidFor
    <2> QED
      BY <1>2, <1>5, <2>2, <2>3 DEF PaidFor
  <1>11. Alone' /\ AsRead'
    BY <1>2, <1>4, <1>6 DEF Alone, AsRead, Reading
  <1>12. OneBiller'
    <2> SUFFICES ASSUME calm, NEW c \in Checkouts, live[c] = "yes", c # j.c
                 PROVE  \/ checkout'[c] = "paid" \/ c \in alerted
                        \/ job'[w] = [op |-> "handover", prev |-> c]
      BY <1>2, <1>5 DEF OneBiller
    <2>1. \A v \in Workers : job[v] # [op |-> "handover", prev |-> c]
      BY <1>1, <1>4 DEF j, Idle
    <2>2. c = sub.stripe \/ checkout[c] = "paid" \/ c \in alerted
      BY <2>1 DEF Inv, IndInv, OneBiller
    <2>3. CASE c = sub.stripe
      BY <1>4, <1>6, <2>3, NoneAssumption
    <2> QED
      BY <1>5, <2>2, <2>3
  <1> QED
    BY <1>7, <1>8, <1>9, <1>10, <1>11, <1>12 DEF Inv, IndInv

\* A worker stops, superseding a subscription, telling staff of it, or dead.
LEMMA DoneStep ==
    ASSUME Inv, NEW w \in Workers, Done(w),
           UNCHANGED <<now, sub, checkout, mail, handled>>,
           calm' \in BOOLEAN, calm' => calm,
           alerted' \in SUBSET Checkouts, alerted \subseteq alerted',
           live' \in [Checkouts -> {"no", "yes", "ended"}],
           \A c \in Checkouts : live'[c] = live[c] \/ (live[c] = "yes" /\ live'[c] = "ended"),
           calm' /\ job[w].op = "handover" =>
               live'[job[w].prev] = "ended" \/ job[w].prev \in alerted'
    PROVE  Inv'
  <1>1. /\ job'[w] = Idle /\ \A v \in Workers : v # w => job'[v] = job[v]
        /\ Idle.op = "idle" /\ job' \in [Workers -> Job]
    BY DEF Done, Inv, TypeOK, Idle, Job
  <1>2. TypeOK'
    BY <1>1 DEF Inv, TypeOK
  <1>3. TrialsEnd'
    BY <1>1 DEF Inv, IndInv, TrialsEnd, PastTrial, Reading
  <1>4. PaidFor'
    <2>1. \A c \in Checkouts : live'[c] # "no" => checkout[c] \in {"paid", "completed"}
      BY DEF Inv, IndInv, PaidFor
    <2> QED
      BY <1>1, <2>1 DEF Inv, IndInv, PaidFor
  <1>5. Intended'
    <2> SUFFICES ASSUME NEW v \in Workers, job'[v].op \in Reading,
                        job'[v].read.stripe \in Checkouts,
                        live[job'[v].read.stripe] = "ended"
                 PROVE  live'[job'[v].read.stripe] = "ended"
      <3>1. \A v \in Workers : job'[v].op \in Reading =>
                /\ job'[v] = job[v]
                /\ job[v].read.stripe \in Checkouts \cup {None}
        BY <1>1, JobShape DEF Inv, Reading, Row
      <3> QED
        BY <3>1 DEF Inv, IndInv, Intended
    <2> QED
      OBVIOUS
  <1>6. Alone' /\ AsRead'
    BY <1>1 DEF Inv, IndInv, Alone, AsRead, Reading
  <1>7. OneBiller'
    <2> SUFFICES ASSUME calm', NEW c \in Checkouts, live'[c] = "yes"
                 PROVE  \/ c = sub.stripe \/ checkout[c] = "paid" \/ c \in alerted'
                        \/ \E v \in Workers : job'[v] = [op |-> "handover", prev |-> c]
      BY DEF OneBiller
    <2>1. CASE job[w] = [op |-> "handover", prev |-> c]
      BY <2>1
    <2>2. CASE job[w] # [op |-> "handover", prev |-> c]
      BY <1>1, <2>2 DEF Inv, IndInv, OneBiller
    <2> QED
      BY <2>1, <2>2
  <1> QED
    BY <1>2, <1>3, <1>4, <1>5, <1>6, <1>7 DEF Inv, IndInv

\* A step of Stripe, of the customer or of the clock.
LEMMA OutsideStep ==
    ASSUME Inv, TypeOK', UNCHANGED <<sub, job, alerted, calm>>, mail \subseteq mail',
           \A c \in Checkouts :
               /\ checkout[c] \in {"paid", "completed"} => checkout'[c] = checkout[c]
               /\ live[c] = "ended" => live'[c] = "ended"
               /\ live'[c] # live[c] =>
                     checkout'[c] = "paid" \/ (live[c] = "yes" /\ live'[c] = "ended")
    PROVE  Inv'
  <1>1. TrialsEnd' /\ Alone' /\ AsRead'
    BY DEF Inv, IndInv, TrialsEnd, PastTrial, Alone, AsRead
  <1>2. Intended'
    <2>1. ASSUME NEW w \in Workers, job[w].op \in Reading
          PROVE  /\ job[w].new.stripe = job[w].read.stripe
                 /\ \/ job[w].op = "zoikonex" \/ job[w].new.status = job[w].read.status
                    \/ <<job[w].read.status, job[w].new.status>> \in Flow
                 /\ job[w].new.status = "CANCELED" /\ job[w].read.status # "CANCELED" =>
                       \/ job[w].read.stripe = None
                       \/ live'[job[w].read.stripe] = "ended"
      <3>1. job[w].read.stripe \in Checkouts \cup {None}
        BY <2>1, JobShape DEF Inv, Row
      <3> QED
        BY <2>1, <3>1 DEF Inv, IndInv, Intended
    <2> QED
      BY <2>1 DEF Intended
  <1>3. PaidFor'
    <2>1. \A c \in Checkouts : live'[c] # "no" => checkout'[c] \in {"paid", "completed"}
      BY DEF Inv, IndInv, PaidFor
    <2>2. sub.stripe # None => checkout'[sub.stripe] = "completed"
      <3>1. sub.stripe \in Checkouts \cup {None}
        BY DEF Inv, TypeOK, Row
      <3> QED
        BY <3>1 DEF Inv, IndInv, PaidFor
    <2>3. ASSUME NEW w \in Workers
          PROVE  /\ job[w].op \in {"paying", "applied"} =>
                       checkout'[job[w].c] \in {"paid", "completed"}
                 /\ job[w].op \in {"update", "zoikonex"} => job[w].event \in mail' \cup {None}
      <3>1. job[w].op \in {"paying", "applied"} => job[w].c \in Checkouts
        BY JobShape DEF Inv
      <3> QED
        BY <3>1 DEF Inv, IndInv, PaidFor
    <2> QED
      BY <2>1, <2>2, <2>3 DEF PaidFor
  <1>4. OneBiller'
    <2> SUFFICES ASSUME calm, NEW c \in Checkouts, live'[c] = "yes", checkout'[c] # "paid"
                 PROVE  \/ c = sub.stripe \/ c \in alerted
                        \/ \E v \in Workers : job[v] = [op |-> "handover", prev |-> c]
      BY DEF OneBiller
    <2>1. live[c] = "yes" /\ checkout[c] # "paid"
      OBVIOUS
    <2> QED
      BY <2>1 DEF Inv, IndInv, OneBiller
  <1> QED
    BY <1>1, <1>2, <1>3, <1>4 DEF Inv, IndInv

-----------------------------------------------------------------------------
(* The invariant.                                                          *)

\* Every step keeps it.
LEMMA InvStep ==
    ASSUME Inv, [Next]_vars PROVE Inv'
  <1>1. ASSUME NEW w \in Workers, TakeUp(w) PROVE Inv'
    BY <1>1, TakesUp, TakenStep
  <1>2. ASSUME NEW w \in Workers, update_commits(w) PROVE Inv'
    <2>1. /\ job[w].op \in Reading /\ Commit(job[w]) /\ Idle \in Job
          /\ job' = [job EXCEPT ![w] = Idle]
          /\ UNCHANGED <<now, checkout, live, mail, alerted, calm>>
      BY <1>2 DEF update_commits, Reading, Done, Job
    <2>2. sub' \in Row /\ IndInv'
      BY <2>1, CommitStep
    <2>3. handled' \subseteq mail
      <3>1. job[w].op \in {"update", "zoikonex"} => job[w].event \in mail \cup {None}
        BY DEF Inv, IndInv, PaidFor
      <3>2. handled' = handled \cup ({job[w].event} \ {None})
        BY <1>2 DEF update_commits
      <3> QED
        BY <1>2, <3>1, <3>2 DEF update_commits, Inv, TypeOK
    <2> QED
      BY <2>1, <2>2, <2>3 DEF Inv, TypeOK
  <1>3. ASSUME NEW w \in Workers, checkout_applied(w) PROVE Inv'
    <2> DEFINE k == [op |-> "applied", c |-> job[w].c, prev |-> job[w].read.stripe]
    <2>1. /\ job[w].op = "paying" /\ job[w].op \in Reading /\ Commit(job[w])
          /\ job' = [job EXCEPT ![w] = k]
          /\ UNCHANGED <<now, checkout, live, mail, handled, alerted, calm>>
      BY <1>3 DEF checkout_applied, Reading
    <2>2. k \in Job
      BY <2>1, JobShape DEF Inv, Job, Row
    <2>3. PICK m \in Job : m = k
      BY <2>2
    <2>4. sub' \in Row /\ IndInv'
      <3>1. m = [op |-> "applied", c |-> job[w].c, prev |-> job[w].read.stripe]
        BY <2>3
      <3>2. job' = [job EXCEPT ![w] = m]
        BY <2>1, <2>3
      <3> HIDE DEF k
      <3> QED
        BY <2>1, <3>1, <3>2, CommitStep
    <2> HIDE DEF k
    <2> QED
      BY <2>1, <2>2, <2>4 DEF Inv, TypeOK
  <1>4. ASSUME NEW w \in Workers, checkout_recorded(w) PROVE Inv'
    BY <1>4, RecordedStep
  <1>5. ASSUME NEW w \in Workers, checkout_supersedes(w) PROVE Inv'
    <2>1. job[w].prev \in Checkouts
      BY <1>5, JobShape DEF checkout_supersedes, Inv
    <2>2. /\ live' \in [Checkouts -> {"no", "yes", "ended"}]
          /\ live'[job[w].prev] = "ended"
          /\ \A c \in Checkouts : live'[c] = live[c] \/ (live[c] = "yes" /\ live'[c] = "ended")
      BY <1>5, <2>1 DEF checkout_supersedes, Inv, TypeOK
    <2>3. /\ Done(w) /\ UNCHANGED <<now, sub, checkout, mail, handled, alerted, calm>>
          /\ alerted' \in SUBSET Checkouts /\ calm' \in BOOLEAN
      BY <1>5 DEF checkout_supersedes, Inv, TypeOK
    <2> QED
      BY <2>2, <2>3, DoneStep
  <1>6. ASSUME NEW w \in Workers, checkout_supersede_fails(w) PROVE Inv'
    <2>1. job[w].prev \in Checkouts
      BY <1>6, JobShape DEF checkout_supersede_fails, Inv
    <2>2. /\ Done(w) /\ UNCHANGED <<now, sub, checkout, live, mail, handled, calm>>
          /\ alerted' \in SUBSET Checkouts /\ alerted \subseteq alerted'
          /\ job[w].prev \in alerted' /\ calm' \in BOOLEAN
          /\ live' \in [Checkouts -> {"no", "yes", "ended"}]
      BY <1>6, <2>1 DEF checkout_supersede_fails, Inv, TypeOK
    <2> QED
      BY <2>2, DoneStep
  <1>7. ASSUME NEW w \in Workers, worker_dies(w) PROVE Inv'
    <2>1. /\ Done(w) /\ UNCHANGED <<now, sub, checkout, live, mail, handled, alerted>>
          /\ alerted' \in SUBSET Checkouts /\ calm' = FALSE
          /\ live' \in [Checkouts -> {"no", "yes", "ended"}]
      BY <1>7 DEF worker_dies, Inv, TypeOK
    <2> QED
      BY <2>1, DoneStep
  <1>8. ASSUME NEW c \in Checkouts, create_plan_change_checkout_session(c) PROVE Inv'
    <2>1. TypeOK'
      BY <1>8 DEF create_plan_change_checkout_session, Inv, TypeOK
    <2>2. \A d \in Checkouts : checkout[d] \in {"paid", "completed"} => checkout'[d] = checkout[d]
      BY <1>8 DEF create_plan_change_checkout_session, Inv, TypeOK
    <2> QED
      BY <1>8, <2>1, <2>2, OutsideStep DEF create_plan_change_checkout_session
  <1>9. ASSUME NEW c \in Checkouts, customer_pays(c) PROVE Inv'
    <2>1. TypeOK'
      BY <1>9 DEF customer_pays, Inv, TypeOK
    <2>2. \A d \in Checkouts :
               /\ checkout[d] \in {"paid", "completed"} => checkout'[d] = checkout[d]
               /\ live[d] = "ended" => live'[d] = "ended"
               /\ live'[d] # live[d] =>
                     checkout'[d] = "paid" \/ (live[d] = "yes" /\ live'[d] = "ended")
      BY <1>9 DEF customer_pays, Inv, TypeOK, IndInv, PaidFor
    <2> QED
      BY <1>9, <2>1, <2>2, OutsideStep DEF customer_pays
  <1>10. ASSUME NEW c \in Checkouts, stripe_ends(c) PROVE Inv'
    <2>1. TypeOK'
      BY <1>10 DEF stripe_ends, Inv, TypeOK
    <2>2. \A d \in Checkouts :
               /\ live[d] = "ended" => live'[d] = "ended"
               /\ live'[d] # live[d] => live[d] = "yes" /\ live'[d] = "ended"
      BY <1>10 DEF stripe_ends, Inv, TypeOK
    <2> QED
      BY <1>10, <2>1, <2>2, OutsideStep DEF stripe_ends
  <1>11. ASSUME NEW e \in Notice, renewal_charged(e) PROVE Inv'
    <2>1. TypeOK' /\ mail \subseteq mail'
      BY <1>11 DEF renewal_charged, Inv, TypeOK
    <2> QED
      BY <1>11, <2>1, OutsideStep DEF renewal_charged
  <1>12. CASE tick
    <2>1. TypeOK'
      BY <1>12, TimesAssumption DEF tick, Inv, TypeOK
    <2> QED
      BY <1>12, <2>1, OutsideStep DEF tick
  <1>13. CASE UNCHANGED vars
    <2>1. TypeOK'
      BY <1>13 DEF vars, Inv, TypeOK
    <2> QED
      BY <1>13, <2>1, OutsideStep DEF vars
  <1> QED
    BY <1>1, <1>2, <1>3, <1>4, <1>5, <1>6, <1>7, <1>8, <1>9, <1>10, <1>11, <1>12, <1>13
    DEF Next, Resume

\* It holds from the beginning on.
LEMMA InvHolds == Spec => []Inv
  <1>1. Init => Inv
    <2>1. Init => TypeOK
      BY PlansAssumption, TimesAssumption
      DEF Init, TypeOK, NoRow, Row, Status, Ended, Periods, Job
    <2>2. Init => IndInv
      BY DEF Init, IndInv, TrialsEnd, PastTrial, Intended, PaidFor, Alone, AsRead,
          OneBiller, NoRow, Idle, Reading
    <2> QED
      BY <2>1, <2>2 DEF Inv
  <1> QED
    BY <1>1, InvStep, PTL DEF Spec

\* Every variable keeps its type.
THEOREM TypeCorrect == Spec => []TypeOK
  <1>1. Inv => TypeOK
    BY DEF Inv
  <1> QED
    BY <1>1, InvHolds, PTL

\* In every reachable state what the handlers are about fits what they read,
\* however they overlap, and without overlaps what they read is the row.
THEOREM Invariance == Spec => []IndInv
  <1>1. Inv => IndInv
    BY DEF Inv
  <1> QED
    BY <1>1, InvHolds, PTL

\* Without overlaps and deaths Stripe charges for one subscription, whatever
\* the sessions, the events and the order they come in
\* (handle_stripe_checkout_completed).
THEOREM OneSubscriptionIsCharged == Spec => []OneBiller
  <1>1. IndInv => OneBiller
    BY DEF IndInv
  <1> QED
    BY <1>1, Invariance, PTL

-----------------------------------------------------------------------------
(* What a step may do to the status.                                       *)

\* Only a commit changes it.
LEMMA OnlyCommits ==
    ASSUME Inv, Next, sub'.status # sub.status
    PROVE  \E w \in Workers : /\ job[w].op \in Reading /\ Commit(job[w])
                              /\ job'[w] # job[w]
  <1>1. ASSUME NEW w \in Workers, TakeUp(w) PROVE FALSE
    BY <1>1, TakesUp DEF Taken
  <1>2. ASSUME NEW w \in Workers, checkout_recorded(w) PROVE FALSE
    BY <1>2 DEF checkout_recorded, Inv, TypeOK, Row
  <1>3. ASSUME NEW w \in Workers, update_commits(w) \/ checkout_applied(w)
        PROVE  job[w].op \in Reading /\ Commit(job[w]) /\ job'[w] # job[w]
    <2>1. job \in [Workers -> Job] /\ Idle.op = "idle"
      BY DEF Inv, TypeOK, Idle
    <2>2. CASE update_commits(w)
      <3>1. /\ job[w].op \in {"update", "zoikonex"} /\ Commit(job[w])
            /\ job'[w] = Idle
        BY <2>1, <2>2 DEF update_commits, Done
      <3> QED
        BY <2>1, <3>1 DEF Reading
    <2>3. CASE checkout_applied(w)
      <3>1. /\ job[w].op = "paying" /\ Commit(job[w])
            /\ job'[w].op = "applied"
        BY <2>1, <2>3 DEF checkout_applied
      <3> QED
        BY <3>1 DEF Reading
    <2> QED
      BY <1>3, <2>2, <2>3
  <1> QED
    BY <1>1, <1>2, <1>3
    DEF Next, Resume, checkout_supersedes, checkout_supersede_fails, worker_dies,
        create_plan_change_checkout_session, customer_pays, stripe_ends,
        renewal_charged, tick

\* A handler that commits on the row it has read takes a step of Flow, and
\* none puts the account back on trial.
LEMMA FlowStep ==
    ASSUME Inv, [Next]_vars
    PROVE  /\ (\A w \in Workers : job'[w] # job[w] => ~Stale(w) /\ job[w].op # "zoikonex") =>
                  sub'.status = sub.status \/ <<sub.status, sub'.status>> \in Flow
           /\ sub'.status = "TRIALING" => sub.status \in {"NONE", "TRIALING"}
  <1>1. CASE sub'.status = sub.status
    BY <1>1
  <1>2. CASE sub'.status # sub.status
    <2>1. Next
      BY <1>2 DEF vars
    <2>2. PICK w \in Workers : /\ job[w].op \in Reading /\ Commit(job[w])
                               /\ job'[w] # job[w]
      BY <1>2, <2>1, OnlyCommits
    <2>3. /\ PastTrial(sub) => PastTrial(sub')
          /\ job[w].read = sub => sub'.status = job[w].new.status
      BY <2>2, CommitRow
    <2>4. /\ \/ job[w].op = "zoikonex" \/ job[w].new.status = job[w].read.status
             \/ <<job[w].read.status, job[w].new.status>> \in Flow
      BY <2>2 DEF Inv, IndInv, Intended
    <2> QED
      BY <2>2, <2>3, <2>4 DEF Stale, PastTrial
  <1> QED
    BY <1>1, <1>2

\* Late, duplicated and reordered Stripe events leave the status to the steps
\* of Flow, as far as every handler commits on the row it has read: nothing
\* brings a canceled or terminated subscription back
\* (handle_stripe_subscription_payment_webhook).  And no overlap of handlers
\* brings back a trial.
THEOREM EndedStaysEnded == Spec => StatusFlow
  <1>1. Inv /\ [Next]_vars =>
            [/\ (\A w \in Workers : job'[w] # job[w] => ~Stale(w) /\ job[w].op # "zoikonex") =>
                   sub'.status = sub.status \/ <<sub.status, sub'.status>> \in Flow
             /\ sub'.status = "TRIALING" => sub.status \in {"NONE", "TRIALING"}]_vars
    BY FlowStep
  <1> QED
    BY <1>1, InvHolds, PTL DEF Spec, StatusFlow

-----------------------------------------------------------------------------
(* What it means to be CANCELED.                                           *)

\* A handler that commits on the row it has read cancels only what Stripe has
\* ended, or never had.
LEMMA CancelStep ==
    ASSUME Inv, [Next]_vars, \A w \in Workers : job'[w] # job[w] => ~Stale(w),
           sub.status # "CANCELED", sub'.status = "CANCELED"
    PROVE  \A c \in {sub.stripe} \ {None} : live[c] # "yes"
  <1>1. Next
    BY DEF vars
  <1>2. PICK w \in Workers : /\ job[w].op \in Reading /\ Commit(job[w])
                             /\ job'[w] # job[w]
    BY <1>1, OnlyCommits
  <1>3. job[w].read = sub
    BY <1>2 DEF Stale
  <1>4. job[w].new.status = "CANCELED"
    BY <1>2, <1>3, CommitRow
  <1> QED
    BY <1>2, <1>3, <1>4 DEF Inv, IndInv, Intended

\* A customer is not told "canceled" before Stripe has stopped charging for the
\* subscription on the row, whatever runs or dies beside a handler that
\* commits on the row it has read (cancel_subscription).
THEOREM CanceledAfterStripe == Spec => CancelEndsCharging
  <1>1. Inv /\ [Next]_vars =>
            [(\A w \in Workers : job'[w] # job[w] => ~Stale(w)) /\
             sub.status # "CANCELED" /\ sub'.status = "CANCELED" =>
                 \A c \in {sub.stripe} \ {None} : live[c] # "yes"]_vars
    BY CancelStep
  <1> QED
    BY <1>1, InvHolds, PTL DEF Spec, CancelEndsCharging

=============================================================================
