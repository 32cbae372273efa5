----------------------- MODULE NumberLifecycle_proofs -----------------------
(* Proofs about NumberLifecycle. *)
EXTENDS NumberLifecycle, TLAPS

\* A request whose copy of the row is of another kind is still a request.
LEMMA SeenIsTyped ==
    ASSUME NEW r \in Requests, req \in [Requests -> Request], NEW s \in {"db", "live", "over", "open"}
    PROVE  [req EXCEPT ![r].seen = s] \in [Requests -> Request]
  BY DEF Request

\* Every step keeps the variables in their types.
LEMMA TypeStep ==
    ASSUME TypeOK, [Next]_vars PROVE TypeOK'
  <1> SUFFICES ASSUME Next PROVE TypeOK'
    BY DEF vars, rowVars, reqVars, TypeOK
  <1>0. faultless' \in BOOLEAN
    BY DEF TypeOK, Next, Step, AnswerLost, Teardown, TeardownAnswerLost, Death
  <1> USE NoneAssumption DEF TypeOK, rowVars, reqVars
  <1>1. ASSUME NEW r \in Requests, checkout_refreshed(r) PROVE TypeOK'
    BY <1>0, <1>1, SeenIsTyped DEF checkout_refreshed
  <1>2. ASSUME NEW r \in Requests, checkout_refused(r) PROVE TypeOK'
    BY <1>0, <1>2 DEF checkout_refused, Finish, Request, NoRequest
  <1>3. ASSUME NEW r \in Requests, checkout_compliance_pending(r) PROVE TypeOK'
    BY <1>0, <1>3 DEF checkout_compliance_pending, HoldForCompliance, Finish, Status,
        Ordered, InFlight, Served, Request, NoRequest
  <1>4. ASSUME NEW r \in Requests, checkout_purchase(r) PROVE TypeOK'
    BY <1>0, <1>4 DEF checkout_purchase, Goto, PurchasePc, BuyingPc, CancelPc
  <1>5. ASSUME NEW r \in Requests, eligibility_commits(r) PROVE TypeOK'
    BY <1>0, <1>5 DEF eligibility_commits, Unlocked
  <1>6. ASSUME NEW r \in Requests, purchase_refused(r) PROVE TypeOK'
    BY <1>0, <1>6 DEF purchase_refused, Unlocked, Finish, Request, NoRequest
  <1>7. ASSUME NEW r \in Requests, purchase_compliance_pending(r) PROVE TypeOK'
    BY <1>0, <1>7 DEF purchase_compliance_pending, HoldForCompliance, Unlocked,
        Finish, Status, Ordered, InFlight, Served, Request, NoRequest
  <1>8. ASSUME NEW r \in Requests, purchase_pending(r) PROVE TypeOK'
    <2>1. req' \in [Requests -> Request]
      BY <1>0, <1>8, SeenIsTyped DEF purchase_pending
    <2>2. pc' \in [Requests -> {"idle"} \cup PurchasePc \cup CancelPc]
      BY <1>0, <1>8 DEF purchase_pending, PurchasePc, BuyingPc
    <2>3. status' \in [Numbers -> Status] /\ age' \in [Numbers -> {"fresh",
            "old"}]
      BY <1>0, <1>8 DEF purchase_pending, SetStatus, SetAge, Status, InFlight
    <2>4. lock' \in [Numbers -> Requests \cup Accounts \cup {None}]
      BY <1>0, <1>8 DEF purchase_pending, Unlocked
    <2> QED
      BY <1>0, <1>8, <2>1, <2>2, <2>3, <2>4 DEF purchase_pending
  <1>9. ASSUME NEW r \in Requests, purchase_provisioning(r) PROVE TypeOK'
    BY <1>0, <1>9 DEF purchase_provisioning, SetStatus, Goto, Status, Ordered,
        InFlight, Served, PurchasePc, BuyingPc, CancelPc
  <1>10. ASSUME NEW r \in Requests, purchase_activate(r) PROVE TypeOK'
    BY <1>0, <1>10 DEF purchase_activate, SetStatus, Finish, Status, Ordered,
        InFlight, Served, Request, NoRequest
  <1>11. ASSUME NEW r \in Requests, purchase_failed(r) PROVE TypeOK'
    BY <1>0, <1>11 DEF purchase_failed, SetStatus, Finish, Status, Ordered, InFlight,
        Served, Request, NoRequest
  <1>12. ASSUME NEW r \in Requests, buy_number_sold(r) PROVE TypeOK'
    BY <1>0, <1>12 DEF buy_number_sold, Sell, Goto, PurchasePc, BuyingPc, CancelPc
  <1>13. ASSUME NEW r \in Requests, buy_number_refused(r) PROVE TypeOK'
    BY <1>0, <1>13 DEF buy_number_refused, Goto, PurchasePc, BuyingPc, CancelPc
  <1>14. ASSUME NEW r \in Requests, buy_number_reply_lost(r) PROVE TypeOK'
    BY <1>0, <1>14 DEF buy_number_reply_lost, Sell, Goto, PurchasePc, BuyingPc,
        CancelPc
  <1>15. ASSUME NEW r \in Requests, cancel_release(r) PROVE TypeOK'
    BY <1>0, <1>15 DEF cancel_release, TakeBack, Goto, PurchasePc, BuyingPc, CancelPc
  <1>16. ASSUME NEW r \in Requests,
          cancel_release_fails(r) \/ cancel_reply_lost(r) PROVE TypeOK'
    <2>1. CASE cancel_release_fails(r)
      BY <1>0, <2>1 DEF cancel_release_fails, Unlocked, Finish, Request,
          NoRequest
    <2>2. CASE cancel_reply_lost(r)
      BY <1>0, <2>2 DEF cancel_reply_lost, ReplyLost, TakeBack, Unlocked,
          Finish, Request, NoRequest
    <2> QED
      BY <1>16, <2>1, <2>2
  <1>17. ASSUME NEW r \in Requests, cancel_commit(r) PROVE TypeOK'
    BY <1>0, <1>17 DEF cancel_commit, SetStatus, SetAge, Unlocked, Finish, Status,
        Ordered, InFlight, Served, Request, NoRequest
  <1>18. ASSUME NEW r \in Requests, worker_dies(r) PROVE TypeOK'
    BY <1>0, <1>18 DEF worker_dies, AllUnlocked, Finish, Request, NoRequest
  <1>19. ASSUME NEW r \in Requests, NEW a \in Accounts, NEW n \in Numbers,
          checkout_read(r, a, n) PROVE TypeOK'
    BY <1>0, <1>19 DEF checkout_read, Begin, PurchasePc, BuyingPc, CancelPc, Request,
        NoRequest
  <1>20. ASSUME NEW r \in Requests, NEW a \in Accounts, NEW n \in Numbers,
          purchase_number(r, a, n) PROVE TypeOK'
    BY <1>0, <1>20 DEF purchase_number, Begin, PurchasePc, BuyingPc, CancelPc,
        Request, NoRequest
  <1>21. ASSUME NEW r \in Requests, NEW a \in Accounts, NEW n \in Numbers,
          cancel_number(r, a, n) PROVE TypeOK'
    BY <1>0, <1>21 DEF cancel_number, Begin, PurchasePc, BuyingPc, CancelPc, Request,
        NoRequest
  <1>22. ASSUME NEW r \in Requests, NEW n \in Numbers, retry_provisioning(r, n)
          PROVE TypeOK'
    BY <1>0, <1>22 DEF retry_provisioning, SetStatus, SetAge, Begin, Status, Ordered,
        InFlight, Served, PurchasePc, BuyingPc, CancelPc, Request, NoRequest
  <1>23. ASSUME NEW a \in Accounts, NEW n \in Numbers, reserve_number(a, n)
          PROVE TypeOK'
    BY <1>0, <1>23 DEF reserve_number, Reserve, SetStatus, Status, Ordered, InFlight,
        Served
  <1>24. ASSUME NEW a \in Accounts, NEW n \in Numbers, suspend_number(a, n)
          PROVE TypeOK'
    BY <1>0, <1>24 DEF suspend_number, Change, Status, Ordered, InFlight, Served
  <1>25. ASSUME NEW a \in Accounts, suspend_numbers_for_account_by_system(a)
          PROVE TypeOK'
    BY <1>0, <1>25 DEF suspend_numbers_for_account_by_system, Change, Status,
        Ordered, InFlight, Served
  <1>26. ASSUME NEW a \in Accounts, reactivate_numbers_for_account_by_staff(a)
          PROVE TypeOK'
    BY <1>0, <1>26 DEF reactivate_numbers_for_account_by_staff, Change, Status,
        Ordered, InFlight, Served
  <1>27. ASSUME NEW a \in Accounts, release_numbers_for_account_by_system(a)
          PROVE TypeOK'
    BY <1>0, <1>27 DEF release_numbers_for_account_by_system, Owned
  <1>28. ASSUME NEW a \in Accounts, NEW n \in Numbers, teardown_release(a, n)
          PROVE TypeOK'
    BY <1>0, <1>28 DEF teardown_release, TakeBack
  <1>29. ASSUME NEW a \in Accounts, NEW n \in Numbers,
          teardown_release_fails(a, n) \/ teardown_reply_lost(a, n)
          PROVE TypeOK'
    <2>1. CASE teardown_release_fails(a, n)
      BY <1>0, <2>1 DEF teardown_release_fails, GivenUp, teardown_flush,
          AllUnlocked, Status, Ordered, InFlight, Served
    <2>2. CASE teardown_reply_lost(a, n)
      BY <1>0, <2>2 DEF teardown_reply_lost, ReplyLost, TakeBack, GivenUp,
          teardown_flush, AllUnlocked, Status, Ordered, InFlight, Served
    <2> QED
      BY <1>29, <2>1, <2>2
  <1>30. ASSUME NEW a \in Accounts, teardown_commit(a) PROVE TypeOK'
    BY <1>0, <1>30 DEF teardown_commit, teardown_flush, AllUnlocked, Status, Ordered,
        InFlight, Served
  <1>31. ASSUME NEW a \in Accounts, teardown_dies(a) PROVE TypeOK'
    BY <1>0, <1>31 DEF teardown_dies, AllUnlocked
  <1>32. ASSUME NEW n \in Numbers, release_stuck_provisioning(n) PROVE TypeOK'
    BY <1>0, <1>32 DEF release_stuck_provisioning, SetStatus, Status, Ordered,
        InFlight, Served
  <1>33. ASSUME NEW n \in Numbers, reservation_lapses(n) PROVE TypeOK'
    <2>1. req' \in [Requests -> Request]
      BY <1>0, <1>33 DEF reservation_lapses, Request
    <2> QED
      BY <1>0, <1>33, <2>1 DEF reservation_lapses
  <1>34. ASSUME NEW n \in Numbers, provisioning_ages(n) PROVE TypeOK'
    BY <1>0, <1>34 DEF provisioning_ages, SetAge
  <1>35. ASSUME NEW n \in Numbers, quarantine_ends(n) PROVE TypeOK'
    BY <1>0, <1>35 DEF quarantine_ends, SetAge
  <1> QED
    BY <1>0, <1>1, <1>2, <1>3, <1>4, <1>5, <1>6, <1>7, <1>8, <1>9, <1>10, <1>11,
        <1>12,
        <1>13, <1>14, <1>15, <1>16, <1>17, <1>18, <1>19, <1>20, <1>21, <1>22,
            <1>23, <1>24, <1>25, <1>26, <1>27, <1>28, <1>29, <1>30, <1>31,
                    <1>32,
                <1>33, <1>34, <1>35 
        DEF Next, Step, AnswerLost, Teardown, TeardownAnswerLost, Death,
            Arrival, TimePasses

\* A teardown's commit writes no row that a purchase or an order is on.
LEMMA FlushSparesOrders ==
    ASSUME TypeOK, TeardownHolds, NEW a \in Accounts, teardown_flush(a)
    PROVE  /\ \A n \in Numbers : status[n] \in Ordered \cup InFlight =>
                status'[n] = status[n] /\ age'[n] = age[n]
           /\ \A n \in Numbers : status'[n] \notin Ordered \cup InFlight \/ status'[n] = status[n]
  <1>1. \A n \in tear[a].done : n \in Numbers /\ status[n] \notin Ordered \cup InFlight
    BY DEF TypeOK, TeardownHolds, Ordered, InFlight, Served
  <1> QED
    BY <1>1 DEF teardown_flush, Ordered, InFlight

LEMMA FlushStep ==
    ASSUME TypeOK, IndInv, NEW a \in Accounts, teardown_flush(a)
    PROVE  (Engaged /\ LocksHeld /\ CheckoutFresh /\ EligibleHolds /\ BuyerHolds
                /\ OnePurchase)'
  <1>1. UNCHANGED <<account, until, by, pc, req>>
    BY DEF teardown_flush, reqVars
  <1>2. \A n \in Numbers : status[n] \in Ordered \cup InFlight =>
                status'[n] = status[n] /\ age'[n] = age[n]
    BY FlushSparesOrders DEF IndInv
  <1>3. \A n \in Numbers : status'[n] \notin Ordered \cup InFlight \/ status'[n] = status[n]
    BY FlushSparesOrders DEF IndInv
  <1>4. \A r \in Requests : pc[r] # "idle" => req[r].num \in Numbers
    BY DEF IndInv, Engaged
  <1>5. Engaged'
    <2>1. \A n \in Numbers : status'[n] # "UNLISTED" => account[n] \in Accounts
      BY DEF teardown_flush, IndInv, Engaged, TeardownHolds, TypeOK
    <2> QED
      BY <1>1, <1>3, <2>1 DEF IndInv, Engaged
  <1>6. LocksHeld'
    <2>1. \A r \in Requests : r # a
      BY HoldersAssumption
    <2>2. \A n \in Numbers : lock[n] # a => lock'[n] = lock[n]
      BY DEF teardown_flush, AllUnlocked
    <2> QED
      BY <1>1, <1>4, <2>1, <2>2 DEF IndInv, LocksHeld, CancelPc
  <1>7. CheckoutFresh'
    BY <1>1, <1>2, <1>4 DEF IndInv, CheckoutFresh, Ordered, BuyingPc
  <1>8. EligibleHolds'
    BY <1>1, <1>2, <1>4 DEF IndInv, EligibleHolds
  <1>9. BuyerHolds'
    BY <1>1, <1>2, <1>4 DEF IndInv, BuyerHolds, BuyingPc
  <1>10. OnePurchase'
    BY <1>1 DEF IndInv, OnePurchase
  <1> QED
    BY <1>5, <1>6, <1>7, <1>8, <1>9, <1>10

\* Where every purchase has its number to itself and ends within the threshold
\* of staff recovery, every step keeps the inductive invariant.
Exclusive == {"slow_buy", "double_checkout", "lazy_commit"} \cap Faults = {}

LEMMA IndStep ==
    ASSUME Exclusive, TypeOK, TypeOK', IndInv, [Next]_vars PROVE IndInv'
  <1> USE NoneAssumption, HoldersAssumption
      DEF TypeOK, rowVars, reqVars, Exclusive, IndInv, Engaged, LocksHeld,
          CheckoutFresh, EligibleHolds, BuyerHolds, CancelHolds, TeardownHolds,
          OnePurchase, Ordered, InFlight, Served, PurchasePc, BuyingPc,
                  CancelPc,
          Request, NoRequest
  <1>1. ASSUME NEW r \in Requests, checkout_refreshed(r) PROVE IndInv'
    BY <1>1 DEF checkout_refreshed
  <1>2. ASSUME NEW r \in Requests, checkout_refused(r) PROVE IndInv'
    BY <1>2 DEF checkout_refused, Finish
  <1>3. ASSUME NEW r \in Requests, checkout_compliance_pending(r) PROVE IndInv'
    BY <1>3 DEF checkout_compliance_pending, HoldForCompliance, Finish, Free
  <1>4. ASSUME NEW r \in Requests, checkout_purchase(r) PROVE IndInv'
    BY <1>4 DEF checkout_purchase, Goto, Free
  <1>5. ASSUME NEW r \in Requests, eligibility_commits(r) PROVE IndInv'
    BY <1>5 DEF eligibility_commits, Unlocked
  <1>6. ASSUME NEW r \in Requests, purchase_refused(r) PROVE IndInv'
    BY <1>6 DEF purchase_refused, Unlocked, Finish
  <1>7. ASSUME NEW r \in Requests, purchase_compliance_pending(r) PROVE IndInv'
    BY <1>7 DEF purchase_compliance_pending, HoldForCompliance, Unlocked,
        Finish, Writable
  <1>8. ASSUME NEW r \in Requests, purchase_pending(r) PROVE IndInv'
    BY <1>8 DEF purchase_pending, SetStatus, SetAge, Unlocked, Writable
  <1>9. ASSUME NEW r \in Requests, purchase_provisioning(r) PROVE IndInv'
    BY <1>9 DEF purchase_provisioning, SetStatus, Goto, Free
  <1>10. ASSUME NEW r \in Requests, purchase_activate(r) PROVE IndInv'
    BY <1>10 DEF purchase_activate, SetStatus, Finish, Free
  <1>11. ASSUME NEW r \in Requests, purchase_failed(r) PROVE IndInv'
    BY <1>11 DEF purchase_failed, SetStatus, Finish, Free
  <1>12. ASSUME NEW r \in Requests, buy_number_sold(r) PROVE IndInv'
    BY <1>12 DEF buy_number_sold, Sell, Goto
  <1>13. ASSUME NEW r \in Requests, buy_number_refused(r) PROVE IndInv'
    BY <1>13 DEF buy_number_refused, Goto
  <1>14. ASSUME NEW r \in Requests, buy_number_reply_lost(r) PROVE IndInv'
    BY <1>14 DEF buy_number_reply_lost, Sell, Goto
  <1>15. ASSUME NEW r \in Requests, cancel_release(r) PROVE IndInv'
    BY <1>15 DEF cancel_release, TakeBack, Goto
  <1>16. ASSUME NEW r \in Requests,
          cancel_release_fails(r) \/ cancel_reply_lost(r) PROVE IndInv'
    <2>1. CASE cancel_release_fails(r)
      BY <2>1 DEF cancel_release_fails, Unlocked, Finish
    <2>2. CASE cancel_reply_lost(r)
      BY <2>2 DEF cancel_reply_lost, ReplyLost, TakeBack, Unlocked, Finish
    <2> QED
      BY <1>16, <2>1, <2>2
  <1>17. ASSUME NEW r \in Requests, cancel_commit(r) PROVE IndInv'
    <2>1. Engaged'
      BY <1>17 DEF cancel_commit, SetStatus, SetAge, Unlocked, Finish
    <2>2. LocksHeld'
      BY <1>17 DEF cancel_commit, SetStatus, SetAge, Unlocked, Finish
    <2>3. CheckoutFresh'
      BY <1>17 DEF cancel_commit, SetStatus, SetAge, Unlocked, Finish
    <2>4. EligibleHolds'
      BY <1>17 DEF cancel_commit, SetStatus, SetAge, Unlocked, Finish
    <2>5. BuyerHolds'
      BY <1>17 DEF cancel_commit, SetStatus, SetAge, Unlocked, Finish
    <2>6. CancelHolds'
      BY <1>17 DEF cancel_commit, SetStatus, SetAge, Unlocked, Finish
    <2>7. TeardownHolds'
      BY <1>17 DEF cancel_commit, SetStatus, SetAge, Unlocked, Finish
    <2>8. OnePurchase'
      BY <1>17 DEF cancel_commit, SetStatus, SetAge, Unlocked, Finish
    <2> QED
      BY <2>1, <2>2, <2>3, <2>4, <2>5, <2>6, <2>7, <2>8
  <1>18. ASSUME NEW r \in Requests, worker_dies(r) PROVE IndInv'
    BY <1>18 DEF worker_dies, AllUnlocked, Finish
  <1>19. ASSUME NEW r \in Requests, NEW a \in Accounts, NEW n \in Numbers,
          checkout_read(r, a, n) PROVE IndInv'
    BY <1>19 DEF checkout_read, Begin, MayCheckout, Purchasing, Purchasable
  <1>20. ASSUME NEW r \in Requests, NEW a \in Accounts, NEW n \in Numbers,
          purchase_number(r, a, n) PROVE IndInv'
    <2>1. Engaged'
      BY <1>20 DEF purchase_number, Begin, MayPurchase, Free, Purchasable
    <2>2. LocksHeld'
      BY <1>20 DEF purchase_number, Begin, MayPurchase, Free, Purchasable
    <2>3. CheckoutFresh'
      BY <1>20 DEF purchase_number, Begin, MayPurchase, Free, Purchasable
    <2>4. EligibleHolds'
      BY <1>20 DEF purchase_number, Begin, MayPurchase, Free, Purchasable
    <2>5. BuyerHolds'
      BY <1>20 DEF purchase_number, Begin, MayPurchase, Free, Purchasable
    <2>6. CancelHolds'
      BY <1>20 DEF purchase_number, Begin, MayPurchase, Free, Purchasable
    <2>7. TeardownHolds'
      BY <1>20 DEF purchase_number, Begin, MayPurchase, Free, Purchasable
    <2>8. OnePurchase'
      BY SMTT(30), <1>20 DEF purchase_number, Begin, MayPurchase, Free, Purchasable
    <2> QED
      BY <2>1, <2>2, <2>3, <2>4, <2>5, <2>6, <2>7, <2>8
  <1>21. ASSUME NEW r \in Requests, NEW a \in Accounts, NEW n \in Numbers,
          cancel_number(r, a, n) PROVE IndInv'
    BY <1>21 DEF cancel_number, Begin, Free
  <1>22. ASSUME NEW r \in Requests, NEW n \in Numbers, retry_provisioning(r, n)
          PROVE IndInv'
    <2>1. \A q \in Requests : pc[q] \in PurchasePc => req[q].num # n
      BY <1>22 DEF retry_provisioning, IsStuck
    <2>2. OnePurchase'
      BY <1>22, <2>1 DEF retry_provisioning, Begin
    <2>3. (Engaged /\ LocksHeld /\ CheckoutFresh /\ EligibleHolds)'
      BY <1>22 DEF retry_provisioning, SetStatus, SetAge, Begin, Free, IsStuck
    <2>4. (BuyerHolds /\ CancelHolds /\ TeardownHolds)'
      BY <1>22 DEF retry_provisioning, SetStatus, SetAge, Begin, Free, IsStuck
    <2> QED
      BY <2>2, <2>3, <2>4
  <1>23. ASSUME NEW a \in Accounts, NEW n \in Numbers, reserve_number(a, n)
          PROVE IndInv'
    BY <1>23 DEF reserve_number, Reserve, SetStatus, Free
  <1>24. ASSUME NEW a \in Accounts, NEW n \in Numbers, suspend_number(a, n)
          PROVE IndInv'
    BY <1>24 DEF suspend_number, Change, Free, Owned
  <1>25. ASSUME NEW a \in Accounts, suspend_numbers_for_account_by_system(a)
          PROVE IndInv'
    BY <1>25 DEF suspend_numbers_for_account_by_system, Change, Free, Owned
  <1>26. ASSUME NEW a \in Accounts, reactivate_numbers_for_account_by_staff(a)
          PROVE IndInv'
    BY <1>26 DEF reactivate_numbers_for_account_by_staff, Change, Free, Owned
  <1>27. ASSUME NEW a \in Accounts, release_numbers_for_account_by_system(a)
          PROVE IndInv'
    BY <1>27 DEF release_numbers_for_account_by_system, Owned, Free, TearingDown
  <1>28. ASSUME NEW a \in Accounts, NEW n \in Numbers, teardown_release(a, n)
          PROVE IndInv'
    BY <1>28 DEF teardown_release, TakeBack
  <1>29. ASSUME NEW a \in Accounts, NEW n \in Numbers,
          teardown_release_fails(a, n) \/ teardown_reply_lost(a, n)
          PROVE IndInv'
    <2>1. (Engaged /\ LocksHeld /\ CheckoutFresh /\ EligibleHolds /\ BuyerHolds
                /\ OnePurchase)'
      <3>1. teardown_flush(a)
        BY <1>29 DEF teardown_release_fails, teardown_reply_lost, GivenUp
      <3> HIDE DEF TypeOK, IndInv
      <3> QED
        BY <3>1, FlushStep
    <2>2. CancelHolds'
      BY SMTT(30), <1>29 DEF teardown_release_fails, teardown_reply_lost, GivenUp, ReplyLost, TakeBack,
          teardown_flush, AllUnlocked, Writable
    <2>3. TeardownHolds'
      BY SMTT(30), <1>29 DEF teardown_release_fails, teardown_reply_lost, GivenUp, ReplyLost, TakeBack,
          teardown_flush, AllUnlocked, Writable
    <2> QED
      BY <2>1, <2>2, <2>3
  <1>30. ASSUME NEW a \in Accounts, teardown_commit(a) PROVE IndInv'
    <2>1. (Engaged /\ LocksHeld /\ CheckoutFresh /\ EligibleHolds /\ BuyerHolds
                /\ OnePurchase)'
      <3>1. teardown_flush(a)
        BY <1>30 DEF teardown_commit
      <3> HIDE DEF TypeOK, IndInv
      <3> QED
        BY <3>1, FlushStep
    <2>2. CancelHolds'
      <3>1. \A r \in Requests : pc[r] \in CancelPc => req[r].num \notin tear[a].done
        BY SMTT(30), <1>30 DEF teardown_commit, teardown_flush, Writable
      <3> QED
        BY <1>30, <3>1 DEF teardown_commit, teardown_flush
    <2>3. TeardownHolds'
      BY SMTT(30), <1>30 DEF teardown_commit, teardown_flush, AllUnlocked, Writable,
          TearingDown
    <2> QED
      BY <2>1, <2>2, <2>3
  <1>31. ASSUME NEW a \in Accounts, teardown_dies(a) PROVE IndInv'
    BY <1>31 DEF teardown_dies, AllUnlocked, TearingDown
  <1>32. ASSUME NEW n \in Numbers, release_stuck_provisioning(n) PROVE IndInv'
    BY <1>32 DEF release_stuck_provisioning, SetStatus, Free, IsStuck
  <1>33. ASSUME NEW n \in Numbers, reservation_lapses(n) PROVE IndInv'
    BY <1>33 DEF reservation_lapses
  <1>34. ASSUME NEW n \in Numbers, provisioning_ages(n) PROVE IndInv'
    BY <1>34 DEF provisioning_ages, SetAge, Buying
  <1>35. ASSUME NEW n \in Numbers, quarantine_ends(n) PROVE IndInv'
    BY <1>35 DEF quarantine_ends, SetAge, TearingDown
  <1>36. CASE UNCHANGED vars
    BY <1>36 DEF vars
  <1> HIDE DEF TypeOK, rowVars, reqVars, Exclusive, IndInv, Engaged, LocksHeld,
          CheckoutFresh, EligibleHolds, BuyerHolds, CancelHolds, TeardownHolds,
          OnePurchase, Ordered, InFlight, Served, PurchasePc, BuyingPc,
          CancelPc, Request, NoRequest
  <1> QED
    BY <1>1, <1>2, <1>3, <1>4, <1>5, <1>6, <1>7, <1>8, <1>9, <1>10, <1>11,
        <1>12,
        <1>13, <1>14, <1>15, <1>16, <1>17, <1>18, <1>19, <1>20, <1>21, <1>22,
            <1>23, <1>24, <1>25, <1>26, <1>27, <1>28, <1>29, <1>30, <1>31,
                    <1>32,
                <1>33, <1>34, <1>35, <1>36 
        DEF Next, Step, AnswerLost, Teardown, TeardownAnswerLost, Death,
            Arrival, TimePasses

-----------------------------------------------------------------------------
\* The variables keep their types, whatever the faults.
THEOREM TypeCorrect == Spec => []TypeOK
  <1>1. Init => TypeOK
    BY DEF Init, TypeOK, Status, Request, NoRequest
  <1> QED
    BY <1>1, TypeStep, PTL DEF Spec

\* The inductive invariant holds of every instance without the three faults.
THEOREM Invariance == ASSUME Exclusive PROVE Spec => []IndInv
  <1>1. Init => IndInv
    BY DEF Init, IndInv, Engaged, LocksHeld, CheckoutFresh, EligibleHolds,
        BuyerHolds, CancelHolds, TeardownHolds, OnePurchase, Ordered, InFlight,
        PurchasePc, BuyingPc, CancelPc
  <1>2. TypeOK /\ TypeOK' /\ IndInv /\ [Next]_vars => IndInv'
    BY IndStep
  <1> QED
    BY <1>1, <1>2, TypeCorrect, PTL DEF Spec

\* The provider is asked for a number by one request at most, for the account
\* that holds the row: no two purchases of any instance race for a number.
THEOREM PurchaseIsExclusive == ASSUME Exclusive PROVE Spec => []SoleBuyer
  <1>1. IndInv => SoleBuyer
    BY DEF IndInv, SoleBuyer, BuyerHolds, OnePurchase, Buying, PurchasePc
  <1> QED
    BY <1>1, Invariance, PTL

-----------------------------------------------------------------------------
(* What a step may do to a number in service.                              *)

Serving(m) ==
    /\ status'[m] \in Served
    /\ account'[m] = account[m]
    /\ status[m] = "SUSPENDED" /\ by[m] = "customer" =>
          status'[m] = "SUSPENDED" /\ by'[m] = "customer"
Ended(m) == status'[m] = "CANCELLED" /\ age'[m] = "fresh"

\* Only its cancellation or its account's teardown ends a number's service.
LEMMA ServedStep ==
    ASSUME Exclusive, TypeOK, IndInv, [Next]_vars,
           NEW m \in Numbers, status[m] \in Served
    PROVE  Serving(m) \/ Ended(m)
  <1> USE DEF Serving, Ended, TypeOK, rowVars, reqVars, Exclusive, IndInv,
          Engaged, CheckoutFresh, EligibleHolds, BuyerHolds, Served, Ordered,
          InFlight, PurchasePc, BuyingPc
  <1>1. ASSUME NEW r \in Requests, checkout_refreshed(r)
          PROVE Serving(m) \/ Ended(m)
    BY <1>1 DEF checkout_refreshed
  <1>2. ASSUME NEW r \in Requests, checkout_refused(r)
          PROVE Serving(m) \/ Ended(m)
    BY <1>2 DEF checkout_refused, Finish
  <1>3. ASSUME NEW r \in Requests, checkout_compliance_pending(r)
          PROVE Serving(m) \/ Ended(m)
    BY <1>3 DEF checkout_compliance_pending, HoldForCompliance, Finish, Free
  <1>4. ASSUME NEW r \in Requests, checkout_purchase(r)
          PROVE Serving(m) \/ Ended(m)
    BY <1>4 DEF checkout_purchase, Goto, Free
  <1>5. ASSUME NEW r \in Requests, eligibility_commits(r)
          PROVE Serving(m) \/ Ended(m)
    BY <1>5 DEF eligibility_commits, Unlocked
  <1>6. ASSUME NEW r \in Requests, purchase_refused(r)
          PROVE Serving(m) \/ Ended(m)
    BY <1>6 DEF purchase_refused, Unlocked, Finish
  <1>7. ASSUME NEW r \in Requests, purchase_compliance_pending(r)
          PROVE Serving(m) \/ Ended(m)
    BY <1>7 DEF purchase_compliance_pending, HoldForCompliance, Unlocked,
        Finish, Writable
  <1>8. ASSUME NEW r \in Requests, purchase_pending(r)
          PROVE Serving(m) \/ Ended(m)
    BY <1>8 DEF purchase_pending, SetStatus, SetAge, Unlocked, Writable
  <1>9. ASSUME NEW r \in Requests, purchase_provisioning(r)
          PROVE Serving(m) \/ Ended(m)
    BY <1>9 DEF purchase_provisioning, SetStatus, Goto, Free
  <1>10. ASSUME NEW r \in Requests, purchase_activate(r)
          PROVE Serving(m) \/ Ended(m)
    BY <1>10 DEF purchase_activate, SetStatus, Finish, Free
  <1>11. ASSUME NEW r \in Requests, purchase_failed(r)
          PROVE Serving(m) \/ Ended(m)
    BY <1>11 DEF purchase_failed, SetStatus, Finish, Free
  <1>12. ASSUME NEW r \in Requests, buy_number_sold(r)
          PROVE Serving(m) \/ Ended(m)
    BY <1>12 DEF buy_number_sold, Sell, Goto
  <1>13. ASSUME NEW r \in Requests, buy_number_refused(r)
          PROVE Serving(m) \/ Ended(m)
    BY <1>13 DEF buy_number_refused, Goto
  <1>14. ASSUME NEW r \in Requests, buy_number_reply_lost(r)
          PROVE Serving(m) \/ Ended(m)
    BY <1>14 DEF buy_number_reply_lost, Sell, Goto
  <1>15. ASSUME NEW r \in Requests, cancel_release(r)
          PROVE Serving(m) \/ Ended(m)
    BY <1>15 DEF cancel_release, TakeBack, Goto
  <1>16. ASSUME NEW r \in Requests,
          cancel_release_fails(r) \/ cancel_reply_lost(r)
          PROVE Serving(m) \/ Ended(m)
    BY <1>16 DEF cancel_release_fails, cancel_reply_lost, ReplyLost, TakeBack,
        Unlocked, Finish
  <1>17. ASSUME NEW r \in Requests, cancel_commit(r)
          PROVE Serving(m) \/ Ended(m)
    BY <1>17 DEF cancel_commit, SetStatus, SetAge, Unlocked, Finish
  <1>18. ASSUME NEW r \in Requests, worker_dies(r) PROVE Serving(m) \/ Ended(m)
    BY <1>18 DEF worker_dies, AllUnlocked, Finish
  <1>19. ASSUME NEW r \in Requests, NEW a \in Accounts, NEW n \in Numbers,
          checkout_read(r, a, n) PROVE Serving(m) \/ Ended(m)
    BY <1>19 DEF checkout_read, Begin, MayCheckout, Purchasing, Purchasable
  <1>20. ASSUME NEW r \in Requests, NEW a \in Accounts, NEW n \in Numbers,
          purchase_number(r, a, n) PROVE Serving(m) \/ Ended(m)
    BY <1>20 DEF purchase_number, Begin, MayPurchase, Free, Purchasable
  <1>21. ASSUME NEW r \in Requests, NEW a \in Accounts, NEW n \in Numbers,
          cancel_number(r, a, n) PROVE Serving(m) \/ Ended(m)
    BY <1>21 DEF cancel_number, Begin, Free
  <1>22. ASSUME NEW r \in Requests, NEW n \in Numbers, retry_provisioning(r, n)
          PROVE Serving(m) \/ Ended(m)
    BY <1>22 DEF retry_provisioning, SetStatus, SetAge, Begin, Free, IsStuck
  <1>23. ASSUME NEW a \in Accounts, NEW n \in Numbers, reserve_number(a, n)
          PROVE Serving(m) \/ Ended(m)
    BY <1>23 DEF reserve_number, Reserve, SetStatus, Free
  <1>24. ASSUME NEW a \in Accounts, NEW n \in Numbers, suspend_number(a, n)
          PROVE Serving(m) \/ Ended(m)
    BY <1>24 DEF suspend_number, Change, Free, Owned
  <1>25. ASSUME NEW a \in Accounts, suspend_numbers_for_account_by_system(a)
          PROVE Serving(m) \/ Ended(m)
    BY <1>25 DEF suspend_numbers_for_account_by_system, Change, Free, Owned
  <1>26. ASSUME NEW a \in Accounts, reactivate_numbers_for_account_by_staff(a)
          PROVE Serving(m) \/ Ended(m)
    BY <1>26 DEF reactivate_numbers_for_account_by_staff, Change, Free, Owned
  <1>27. ASSUME NEW a \in Accounts, release_numbers_for_account_by_system(a)
          PROVE Serving(m) \/ Ended(m)
    BY <1>27 DEF release_numbers_for_account_by_system, Owned, Free, TearingDown
  <1>28. ASSUME NEW a \in Accounts, NEW n \in Numbers, teardown_release(a, n)
          PROVE Serving(m) \/ Ended(m)
    BY <1>28 DEF teardown_release, TakeBack
  <1>29. ASSUME NEW a \in Accounts, NEW n \in Numbers,
          teardown_release_fails(a, n) \/ teardown_reply_lost(a, n)
          PROVE Serving(m) \/ Ended(m)
    BY <1>29 DEF teardown_release_fails, teardown_reply_lost, GivenUp, ReplyLost, TakeBack,
        teardown_flush, AllUnlocked, Writable
  <1>30. ASSUME NEW a \in Accounts, teardown_commit(a)
          PROVE Serving(m) \/ Ended(m)
    BY <1>30 DEF teardown_commit, teardown_flush, AllUnlocked, Writable,
        TearingDown
  <1>31. ASSUME NEW a \in Accounts, teardown_dies(a)
          PROVE Serving(m) \/ Ended(m)
    BY <1>31 DEF teardown_dies, AllUnlocked, TearingDown
  <1>32. ASSUME NEW n \in Numbers, release_stuck_provisioning(n)
          PROVE Serving(m) \/ Ended(m)
    BY <1>32 DEF release_stuck_provisioning, SetStatus, Free, IsStuck
  <1>33. ASSUME NEW n \in Numbers, reservation_lapses(n)
          PROVE Serving(m) \/ Ended(m)
    BY <1>33 DEF reservation_lapses
  <1>34. ASSUME NEW n \in Numbers, provisioning_ages(n)
          PROVE Serving(m) \/ Ended(m)
    BY <1>34 DEF provisioning_ages, SetAge, Buying
  <1>35. ASSUME NEW n \in Numbers, quarantine_ends(n)
          PROVE Serving(m) \/ Ended(m)
    BY <1>35 DEF quarantine_ends, SetAge, TearingDown
  <1>36. CASE UNCHANGED vars
    BY <1>36 DEF vars
  <1> QED
    BY <1>1, <1>2, <1>3, <1>4, <1>5, <1>6, <1>7, <1>8, <1>9, <1>10, <1>11,
        <1>12, <1>13, <1>14, <1>15, <1>16, <1>17, <1>18, <1>19, <1>20, <1>21,
        <1>22, <1>23, <1>24, <1>25, <1>26, <1>27, <1>28, <1>29, <1>30, <1>31,
        <1>32, <1>33, <1>34, <1>35, <1>36 
        DEF Next, Step, AnswerLost, Teardown, TeardownAnswerLost, Death,
            Arrival, TimePasses

\* A number in service stays so until it is cancelled.
THEOREM NumbersAreNotClobbered == ASSUME Exclusive PROVE Spec => NoClobber
  <1>1. TypeOK /\ IndInv /\ [Next]_vars =>
          [\A n \in Numbers : status[n] \in Served =>
              status'[n] \in Served \cup {"CANCELLED"}]_vars
    BY ServedStep DEF Serving, Ended
  <1> QED
    BY <1>1, TypeCorrect, Invariance, PTL DEF Spec, NoClobber

\* Only a cancellation ends a suspension the customer asked for.
THEOREM CustomerSuspensionIsKept ==
    ASSUME Exclusive PROVE Spec => CustomerSuspensionHolds
  <1>1. TypeOK /\ IndInv /\ [Next]_vars =>
          [\A n \in Numbers : status[n] = "SUSPENDED" /\ by[n] = "customer" =>
              \/ status'[n] = "SUSPENDED" /\ by'[n] = "customer"
              \/ status'[n] = "CANCELLED"]_vars
    BY ServedStep DEF Serving, Ended, Served
  <1> QED
    BY <1>1, TypeCorrect, Invariance, PTL DEF Spec, CustomerSuspensionHolds

-----------------------------------------------------------------------------
(* The provider's record of cancelled numbers.                             *)

\* A number given back is not the platform's any more, whether or not its row
\* has been written as CANCELLED yet.
GoneIsReleased ==
    /\ CancelledIsReleased
    /\ \A n \in Numbers : Releasing(n) => ~held[n]

\* No step of a purchase takes up a number that is being given back.
LEMMA GoneStep ==
    ASSUME Exclusive, TypeOK, TypeOK', IndInv, GoneIsReleased, [Next]_vars
    PROVE  GoneIsReleased'
  <1> USE NoneAssumption DEF GoneIsReleased, CancelledIsReleased, Releasing,
          TypeOK, rowVars, reqVars, Exclusive, IndInv, Engaged, CheckoutFresh,
          EligibleHolds, BuyerHolds, CancelHolds, TeardownHolds, Served,
          Ordered, InFlight, PurchasePc, BuyingPc, CancelPc, Request, NoRequest
  <1>1. ASSUME NEW r \in Requests, checkout_refreshed(r) PROVE GoneIsReleased'
    BY <1>1 DEF checkout_refreshed
  <1>2. ASSUME NEW r \in Requests, checkout_refused(r) PROVE GoneIsReleased'
    BY <1>2 DEF checkout_refused, Finish
  <1>3. ASSUME NEW r \in Requests, checkout_compliance_pending(r)
          PROVE GoneIsReleased'
    BY <1>3 DEF checkout_compliance_pending, HoldForCompliance, Finish, Free
  <1>4. ASSUME NEW r \in Requests, checkout_purchase(r) PROVE GoneIsReleased'
    BY <1>4 DEF checkout_purchase, Goto, Free
  <1>5. ASSUME NEW r \in Requests, eligibility_commits(r) PROVE GoneIsReleased'
    BY <1>5 DEF eligibility_commits, Unlocked
  <1>6. ASSUME NEW r \in Requests, purchase_refused(r) PROVE GoneIsReleased'
    BY <1>6 DEF purchase_refused, Unlocked, Finish
  <1>7. ASSUME NEW r \in Requests, purchase_compliance_pending(r)
          PROVE GoneIsReleased'
    BY <1>7 DEF purchase_compliance_pending, HoldForCompliance, Unlocked,
        Finish, Writable
  <1>8. ASSUME NEW r \in Requests, purchase_pending(r) PROVE GoneIsReleased'
    BY <1>8 DEF purchase_pending, SetStatus, SetAge, Unlocked, Writable
  <1>9. ASSUME NEW r \in Requests, purchase_provisioning(r)
          PROVE GoneIsReleased'
    BY <1>9 DEF purchase_provisioning, SetStatus, Goto, Free
  <1>10. ASSUME NEW r \in Requests, purchase_activate(r) PROVE GoneIsReleased'
    BY <1>10 DEF purchase_activate, SetStatus, Finish, Free
  <1>11. ASSUME NEW r \in Requests, purchase_failed(r) PROVE GoneIsReleased'
    BY <1>11 DEF purchase_failed, SetStatus, Finish, Free
  <1>12. ASSUME NEW r \in Requests, buy_number_sold(r) PROVE GoneIsReleased'
    <2>1. req[r].num \in Numbers /\ status[req[r].num] \in InFlight
      BY <1>12 DEF buy_number_sold
    <2>2. ~Releasing(req[r].num)
      BY <2>1
    <2>3. \A n \in Numbers : Releasing(n)' => Releasing(n)
      BY <1>12 DEF buy_number_sold, Goto
    <2>4. \A n \in Numbers : n # req[r].num => held'[n] = held[n]
      BY <1>12, <2>1 DEF buy_number_sold, Sell
    <2>5. CancelledIsReleased'
      BY <1>12, <2>1, <2>4 DEF buy_number_sold
    <2> HIDE DEF Releasing
    <2> QED
      BY <2>2, <2>3, <2>4, <2>5
  <1>13. ASSUME NEW r \in Requests, buy_number_refused(r) PROVE GoneIsReleased'
    BY <1>13 DEF buy_number_refused, Goto
  <1>14. ASSUME NEW r \in Requests, buy_number_reply_lost(r)
          PROVE GoneIsReleased'
    BY <1>14 DEF buy_number_reply_lost, Sell, Goto
  <1>15. ASSUME NEW r \in Requests, cancel_release(r) PROVE GoneIsReleased'
    BY <1>15 DEF cancel_release, TakeBack, Goto
  <1>16. ASSUME NEW r \in Requests,
          cancel_release_fails(r) \/ cancel_reply_lost(r)
          PROVE GoneIsReleased'
    BY <1>16 DEF cancel_release_fails, cancel_reply_lost, ReplyLost, TakeBack,
        Unlocked, Finish
  <1>17. ASSUME NEW r \in Requests, cancel_commit(r) PROVE GoneIsReleased'
    BY <1>17 DEF cancel_commit, SetStatus, SetAge, Unlocked, Finish
  <1>18. ASSUME NEW r \in Requests, worker_dies(r) PROVE GoneIsReleased'
    BY <1>18 DEF worker_dies, AllUnlocked, Finish
  <1>19. ASSUME NEW r \in Requests, NEW a \in Accounts, NEW n \in Numbers,
          checkout_read(r, a, n) PROVE GoneIsReleased'
    BY <1>19 DEF checkout_read, Begin, MayCheckout, Purchasing, Purchasable
  <1>20. ASSUME NEW r \in Requests, NEW a \in Accounts, NEW n \in Numbers,
          purchase_number(r, a, n) PROVE GoneIsReleased'
    BY <1>20 DEF purchase_number, Begin, MayPurchase, Free, Purchasable
  <1>21. ASSUME NEW r \in Requests, NEW a \in Accounts, NEW n \in Numbers,
          cancel_number(r, a, n) PROVE GoneIsReleased'
    BY <1>21 DEF cancel_number, Begin, Free
  <1>22. ASSUME NEW r \in Requests, NEW n \in Numbers, retry_provisioning(r, n)
          PROVE GoneIsReleased'
    BY <1>22 DEF retry_provisioning, SetStatus, SetAge, Begin, Free, IsStuck
  <1>23. ASSUME NEW a \in Accounts, NEW n \in Numbers, reserve_number(a, n)
          PROVE GoneIsReleased'
    BY <1>23 DEF reserve_number, Reserve, SetStatus, Free
  <1>24. ASSUME NEW a \in Accounts, NEW n \in Numbers, suspend_number(a, n)
          PROVE GoneIsReleased'
    BY <1>24 DEF suspend_number, Change, Free, Owned
  <1>25. ASSUME NEW a \in Accounts, suspend_numbers_for_account_by_system(a)
          PROVE GoneIsReleased'
    BY <1>25 DEF suspend_numbers_for_account_by_system, Change, Free, Owned
  <1>26. ASSUME NEW a \in Accounts, reactivate_numbers_for_account_by_staff(a)
          PROVE GoneIsReleased'
    BY <1>26 DEF reactivate_numbers_for_account_by_staff, Change, Free, Owned
  <1>27. ASSUME NEW a \in Accounts, release_numbers_for_account_by_system(a)
          PROVE GoneIsReleased'
    BY <1>27 DEF release_numbers_for_account_by_system, Owned, Free, TearingDown
  <1>28. ASSUME NEW a \in Accounts, NEW n \in Numbers, teardown_release(a, n)
          PROVE GoneIsReleased'
    BY <1>28 DEF teardown_release, TakeBack
  <1>29. ASSUME NEW a \in Accounts, NEW n \in Numbers,
          teardown_release_fails(a, n) \/ teardown_reply_lost(a, n)
          PROVE GoneIsReleased'
    <2>1. CASE teardown_release_fails(a, n)
      BY <2>1 DEF teardown_release_fails, GivenUp, teardown_flush,
          AllUnlocked, Writable
    <2>2. CASE teardown_reply_lost(a, n)
      BY <2>2 DEF teardown_reply_lost, ReplyLost, TakeBack, GivenUp,
          teardown_flush, AllUnlocked, Writable
    <2> QED
      BY <1>29, <2>1, <2>2
  <1>30. ASSUME NEW a \in Accounts, teardown_commit(a) PROVE GoneIsReleased'
    BY <1>30 DEF teardown_commit, teardown_flush, AllUnlocked, Writable,
        TearingDown
  <1>31. ASSUME NEW a \in Accounts, teardown_dies(a) PROVE GoneIsReleased'
    BY <1>31 DEF teardown_dies, AllUnlocked, TearingDown
  <1>32. ASSUME NEW n \in Numbers, release_stuck_provisioning(n)
          PROVE GoneIsReleased'
    BY <1>32 DEF release_stuck_provisioning, SetStatus, Free, IsStuck
  <1>33. ASSUME NEW n \in Numbers, reservation_lapses(n) PROVE GoneIsReleased'
    BY <1>33 DEF reservation_lapses
  <1>34. ASSUME NEW n \in Numbers, provisioning_ages(n) PROVE GoneIsReleased'
    BY <1>34 DEF provisioning_ages, SetAge, Buying
  <1>35. ASSUME NEW n \in Numbers, quarantine_ends(n) PROVE GoneIsReleased'
    BY <1>35 DEF quarantine_ends, SetAge, TearingDown
  <1>36. CASE UNCHANGED vars
    BY <1>36 DEF vars
  <1> QED
    BY <1>1, <1>2, <1>3, <1>4, <1>5, <1>6, <1>7, <1>8, <1>9, <1>10, <1>11,
        <1>12, <1>13, <1>14, <1>15, <1>16, <1>17, <1>18, <1>19, <1>20, <1>21,
        <1>22, <1>23, <1>24, <1>25, <1>26, <1>27, <1>28, <1>29, <1>30, <1>31,
        <1>32, <1>33, <1>34, <1>35, <1>36 
        DEF Next, Step, AnswerLost, Teardown, TeardownAnswerLost, Death,
            Arrival, TimePasses

\* A CANCELLED row is a number the provider does not bill the platform for.
THEOREM CancelledNumbersAreReleased ==
    ASSUME Exclusive PROVE Spec => []CancelledIsReleased
  <1>1. Init => GoneIsReleased
    BY DEF Init, GoneIsReleased, CancelledIsReleased, Releasing
  <1>2. TypeOK /\ TypeOK' /\ IndInv /\ GoneIsReleased /\ [Next]_vars =>
          GoneIsReleased'
    BY GoneStep
  <1>3. GoneIsReleased => CancelledIsReleased
    BY DEF GoneIsReleased
  <1> QED
    BY <1>1, <1>2, <1>3, TypeCorrect, Invariance, PTL DEF Spec

-----------------------------------------------------------------------------
(* What holds until somebody dies or an answer is lost.                    *)

\* Every number in flight is in the hands of a request that is buying it.
InHand == \A n \in Numbers : status[n] \in InFlight => \E r \in Requests : Buying(r, n)

\* A purchase sets its row in flight as it begins to buy, and back as it ends.
LEMMA InHandStep ==
    ASSUME Exclusive, TypeOK, IndInv, InHand, [Next]_vars, faultless'
    PROVE  InHand'
  <1> USE DEF InHand, Buying, TypeOK, rowVars, reqVars, Exclusive, IndInv, Engaged,
          CheckoutFresh, EligibleHolds, BuyerHolds, CancelHolds, TeardownHolds, OnePurchase,
          Ordered, InFlight, Served, PurchasePc, BuyingPc, CancelPc, NoRequest
  <1>1. ASSUME NEW r \in Requests, checkout_refreshed(r) PROVE InHand'
    BY <1>1 DEF checkout_refreshed
  <1>2. ASSUME NEW r \in Requests, checkout_refused(r) PROVE InHand'
    BY <1>2 DEF checkout_refused, Finish
  <1>3. ASSUME NEW r \in Requests, checkout_compliance_pending(r) PROVE
          InHand'
    BY <1>3 DEF checkout_compliance_pending, HoldForCompliance, Finish, Free
  <1>4. ASSUME NEW r \in Requests, checkout_purchase(r) PROVE InHand'
    BY <1>4 DEF checkout_purchase, Goto, Free
  <1>5. ASSUME NEW r \in Requests, eligibility_commits(r) PROVE InHand'
    BY <1>5 DEF eligibility_commits
  <1>6. ASSUME NEW r \in Requests, purchase_refused(r) PROVE InHand'
    BY <1>6 DEF purchase_refused, Finish
  <1>7. ASSUME NEW r \in Requests, purchase_compliance_pending(r) PROVE
          InHand'
    BY <1>7 DEF purchase_compliance_pending, HoldForCompliance, Finish,
        Writable
  <1>8. ASSUME NEW r \in Requests, purchase_pending(r) PROVE InHand'
    BY <1>8 DEF purchase_pending, SetStatus, SetAge, Writable
  <1>9. ASSUME NEW r \in Requests, purchase_provisioning(r) PROVE InHand'
    BY <1>9 DEF purchase_provisioning, SetStatus, Goto, Free
  <1>10. ASSUME NEW r \in Requests, purchase_activate(r) PROVE InHand'
    BY <1>10 DEF purchase_activate, SetStatus, Finish, Free
  <1>11. ASSUME NEW r \in Requests, purchase_failed(r) PROVE InHand'
    BY <1>11 DEF purchase_failed, SetStatus, Finish, Free
  <1>12. ASSUME NEW r \in Requests, buy_number_sold(r) PROVE InHand'
    BY <1>12 DEF buy_number_sold, Sell, Goto
  <1>13. ASSUME NEW r \in Requests, buy_number_refused(r) PROVE InHand'
    BY <1>13 DEF buy_number_refused, Goto
  <1>14. ASSUME NEW r \in Requests, cancel_release(r) PROVE InHand'
    BY <1>14 DEF cancel_release, TakeBack, Goto
  <1>15. ASSUME NEW r \in Requests, cancel_release_fails(r) PROVE InHand'
    BY <1>15 DEF cancel_release_fails, Finish
  <1>16. ASSUME NEW r \in Requests, cancel_commit(r) PROVE InHand'
    BY <1>16 DEF cancel_commit, SetStatus, SetAge, Finish
  <1>17. ASSUME NEW r \in Requests, NEW a \in Accounts, NEW n \in Numbers,
          checkout_read(r, a, n) PROVE InHand'
    BY <1>17 DEF checkout_read, Begin
  <1>18. ASSUME NEW r \in Requests, NEW a \in Accounts, NEW n \in Numbers,
          purchase_number(r, a, n) PROVE InHand'
    BY <1>18 DEF purchase_number, Begin, Free, Purchasable
  <1>19. ASSUME NEW r \in Requests, NEW a \in Accounts, NEW n \in Numbers,
          cancel_number(r, a, n) PROVE InHand'
    BY <1>19 DEF cancel_number, Begin, Free
  <1>20. ASSUME NEW r \in Requests, NEW n \in Numbers, retry_provisioning(r,
          n) PROVE InHand'
    BY <1>20 DEF retry_provisioning, SetStatus, SetAge, Begin, Free, IsStuck
  <1>21. ASSUME NEW a \in Accounts, NEW n \in Numbers, reserve_number(a, n)
          PROVE InHand'
    BY <1>21 DEF reserve_number, Reserve, SetStatus, Free
  <1>22. ASSUME NEW a \in Accounts, NEW n \in Numbers, suspend_number(a, n)
          PROVE InHand'
    BY <1>22 DEF suspend_number, Change, Owned
  <1>23. ASSUME NEW a \in Accounts, suspend_numbers_for_account_by_system(a)
          PROVE InHand'
    BY <1>23 DEF suspend_numbers_for_account_by_system, Change, Owned
  <1>24. ASSUME NEW a \in Accounts,
          reactivate_numbers_for_account_by_staff(a) PROVE InHand'
    BY <1>24 DEF reactivate_numbers_for_account_by_staff, Change, Owned
  <1>25. ASSUME NEW a \in Accounts, release_numbers_for_account_by_system(a)
          PROVE InHand'
    BY <1>25 DEF release_numbers_for_account_by_system, Owned, TearingDown
  <1>26. ASSUME NEW a \in Accounts, NEW n \in Numbers, teardown_release(a,
          n) PROVE InHand'
    BY <1>26 DEF teardown_release, TakeBack
  <1>27. ASSUME NEW a \in Accounts, NEW n \in Numbers,
          teardown_release_fails(a, n) PROVE InHand'
    BY <1>27 DEF teardown_release_fails, GivenUp, teardown_flush
  <1>28. ASSUME NEW a \in Accounts, teardown_commit(a) PROVE InHand'
    BY <1>28 DEF teardown_commit, teardown_flush, TearingDown
  <1>29. ASSUME NEW n \in Numbers, release_stuck_provisioning(n) PROVE
          InHand'
    BY <1>29 DEF release_stuck_provisioning, SetStatus, Free, IsStuck
  <1>30. ASSUME NEW n \in Numbers, reservation_lapses(n) PROVE InHand'
    BY <1>30 DEF reservation_lapses
  <1>31. ASSUME NEW n \in Numbers, provisioning_ages(n) PROVE InHand'
    BY <1>31 DEF provisioning_ages, SetAge
  <1>32. ASSUME NEW n \in Numbers, quarantine_ends(n) PROVE InHand'
    BY <1>32 DEF quarantine_ends, SetAge
  <1>33. CASE UNCHANGED vars
    BY <1>33 DEF vars
  <1> HIDE DEF InHand, Buying, TypeOK, rowVars, reqVars, Exclusive, IndInv,
          Engaged, CheckoutFresh, EligibleHolds, BuyerHolds, CancelHolds,
          TeardownHolds, OnePurchase, Ordered, InFlight, Served, PurchasePc,
          BuyingPc, CancelPc, NoRequest
  <1> QED
    BY <1>1, <1>2, <1>3, <1>4, <1>5, <1>6, <1>7, <1>8, <1>9, <1>10, <1>11,
        <1>12, <1>13, <1>14, <1>15, <1>16, <1>17, <1>18, <1>19, <1>20, <1>21,
        <1>22, <1>23, <1>24, <1>25, <1>26, <1>27, <1>28, <1>29, <1>30, <1>31,
        <1>32, <1>33
        DEF Next, Step, AnswerLost, Teardown, TeardownAnswerLost, Death,
            Arrival, TimePasses

\* The cancellation of a number gives back that number only.
LEMMA OneReleased ==
    ASSUME TypeOK, NEW r \in Requests, cancel_release(r)
    PROVE  \A m \in Numbers \ {req[r].num} :
               (Releasing(m)' <=> Releasing(m)) /\ held'[m] = held[m]
  <1>1. /\ req' = req /\ tear' = tear
        /\ \A q \in Requests : q # r => pc'[q] = pc[q]
    BY DEF cancel_release, Goto, TypeOK
  <1>2. \A m \in Numbers \ {req[r].num} : held'[m] = held[m]
    BY DEF cancel_release, TakeBack, TypeOK
  <1> QED
    BY <1>1, <1>2 DEF Releasing

\* The provider's record and the row change together, but for the moments
\* that Releasing and "bought" name.
LEMMA AgreeStep ==
    ASSUME Exclusive, TypeOK, IndInv, ProviderAgrees, [Next]_vars, faultless'
    PROVE  ProviderAgrees'
  <1> USE DEF ProviderAgrees, Releasing, TypeOK, rowVars, reqVars, Exclusive,
          IndInv, Engaged, CheckoutFresh, EligibleHolds, BuyerHolds, CancelHolds,
          TeardownHolds, OnePurchase, Ordered, InFlight, Served, PurchasePc, BuyingPc,
          CancelPc, NoRequest
  <1>1. ASSUME NEW r \in Requests, checkout_refreshed(r) PROVE
          ProviderAgrees'
    BY <1>1 DEF checkout_refreshed
  <1>2. ASSUME NEW r \in Requests, checkout_refused(r) PROVE ProviderAgrees'
    BY <1>2 DEF checkout_refused, Finish
  <1>3. ASSUME NEW r \in Requests, checkout_compliance_pending(r) PROVE
          ProviderAgrees'
    BY <1>3 DEF checkout_compliance_pending, HoldForCompliance, Finish, Free
  <1>4. ASSUME NEW r \in Requests, checkout_purchase(r) PROVE
          ProviderAgrees'
    BY <1>4 DEF checkout_purchase, Goto, Free
  <1>5. ASSUME NEW r \in Requests, eligibility_commits(r) PROVE
          ProviderAgrees'
    BY <1>5 DEF eligibility_commits
  <1>6. ASSUME NEW r \in Requests, purchase_refused(r) PROVE ProviderAgrees'
    BY <1>6 DEF purchase_refused, Finish
  <1>7. ASSUME NEW r \in Requests, purchase_compliance_pending(r) PROVE
          ProviderAgrees'
    BY <1>7 DEF purchase_compliance_pending, HoldForCompliance, Finish,
        Writable
  <1>8. ASSUME NEW r \in Requests, purchase_pending(r) PROVE ProviderAgrees'
    BY <1>8 DEF purchase_pending, SetStatus, SetAge, Writable
  <1>9. ASSUME NEW r \in Requests, purchase_provisioning(r) PROVE
          ProviderAgrees'
    BY <1>9 DEF purchase_provisioning, SetStatus, Goto, Free
  <1>10. ASSUME NEW r \in Requests, purchase_activate(r) PROVE
          ProviderAgrees'
    <2>1. PICK n \in Numbers : n = req[r].num /\ status[n] \in InFlight
      BY <1>10 DEF purchase_activate
    <2>2. held[n] /\ held' = held
      BY <1>10, <2>1 DEF purchase_activate
    <2>3. ~Releasing(n)
      BY <2>1
    <2>4. \A m \in Numbers : Releasing(m)' <=> Releasing(m)
      BY <1>10 DEF purchase_activate, Finish
    <2>5. status'[n] \in Served /\ \A m \in Numbers \ {n} : status'[m] = status[m]
      BY <1>10, <2>1 DEF purchase_activate, SetStatus
    <2>6. \A m \in Numbers \ {n} : \A q \in Requests :
            (req[q].num = m /\ pc[q] = "bought")' <=> (req[q].num = m /\ pc[q] = "bought")
      BY <1>10, <2>1, NoneAssumption DEF purchase_activate, Finish
    <2> HIDE DEF Releasing, TypeOK, IndInv
    <2> QED
      BY <2>2, <2>3, <2>4, <2>5, <2>6
  <1>11. ASSUME NEW r \in Requests, purchase_failed(r) PROVE ProviderAgrees'
    BY <1>11 DEF purchase_failed, SetStatus, Finish, Free
  <1>12. ASSUME NEW r \in Requests, buy_number_sold(r) PROVE ProviderAgrees'
    BY <1>12 DEF buy_number_sold, Sell, Goto
  <1>13. ASSUME NEW r \in Requests, buy_number_refused(r) PROVE
          ProviderAgrees'
    BY <1>13 DEF buy_number_refused, Goto
  <1>14. ASSUME NEW r \in Requests, cancel_release(r) PROVE ProviderAgrees'
    <2> DEFINE bought(m) == \E q \in Requests : req[q].num = m /\ pc[q] = "bought"
    <2>1. PICK n \in Numbers : n = req[r].num /\ status[n] \in Served
      BY <1>14 DEF cancel_release
    <2>2. ~bought(n) /\ \A m \in Numbers : bought(m)' <=> bought(m)
      BY <1>14, <2>1 DEF cancel_release, Goto
    <2>3. Releasing(n)' /\ ~held'[n]
      BY <1>14, <2>1 DEF cancel_release, TakeBack, Goto
    <2>4. \A m \in Numbers \ {n} : (Releasing(m)' <=> Releasing(m)) /\ held'[m] = held[m]
      BY <1>14, <2>1, OneReleased
    <2>5. status' = status
      BY <1>14 DEF cancel_release
    <2> HIDE DEF Releasing, bought
    <2>6. \A m \in Numbers : held[m] <=> (status[m] \in Served /\ ~Releasing(m)) \/ bought(m)
      BY DEF bought
    <2>7. \A m \in Numbers :
            held'[m] <=> (status'[m] \in Served /\ ~Releasing(m)') \/ bought(m)'
      BY <2>2, <2>3, <2>4, <2>5, <2>6
    <2> QED
      BY <2>7 DEF bought
  <1>15. ASSUME NEW r \in Requests, cancel_release_fails(r) PROVE
          ProviderAgrees'
    BY <1>15 DEF cancel_release_fails, Finish
  <1>16. ASSUME NEW r \in Requests, cancel_commit(r) PROVE ProviderAgrees'
    BY <1>16 DEF cancel_commit, SetStatus, SetAge, Finish
  <1>17. ASSUME NEW r \in Requests, NEW a \in Accounts, NEW n \in Numbers,
          checkout_read(r, a, n) PROVE ProviderAgrees'
    BY <1>17 DEF checkout_read, Begin
  <1>18. ASSUME NEW r \in Requests, NEW a \in Accounts, NEW n \in Numbers,
          purchase_number(r, a, n) PROVE ProviderAgrees'
    BY <1>18 DEF purchase_number, Begin, Free, Purchasable
  <1>19. ASSUME NEW r \in Requests, NEW a \in Accounts, NEW n \in Numbers,
          cancel_number(r, a, n) PROVE ProviderAgrees'
    BY <1>19 DEF cancel_number, Begin, Free
  <1>20. ASSUME NEW r \in Requests, NEW n \in Numbers, retry_provisioning(r,
          n) PROVE ProviderAgrees'
    BY <1>20 DEF retry_provisioning, SetStatus, SetAge, Begin, Free, IsStuck
  <1>21. ASSUME NEW a \in Accounts, NEW n \in Numbers, reserve_number(a, n)
          PROVE ProviderAgrees'
    BY <1>21 DEF reserve_number, Reserve, SetStatus, Free
  <1>22. ASSUME NEW a \in Accounts, NEW n \in Numbers, suspend_number(a, n)
          PROVE ProviderAgrees'
    BY <1>22 DEF suspend_number, Change, Owned
  <1>23. ASSUME NEW a \in Accounts, suspend_numbers_for_account_by_system(a)
          PROVE ProviderAgrees'
    BY <1>23 DEF suspend_numbers_for_account_by_system, Change, Owned
  <1>24. ASSUME NEW a \in Accounts,
          reactivate_numbers_for_account_by_staff(a) PROVE ProviderAgrees'
    BY <1>24 DEF reactivate_numbers_for_account_by_staff, Change, Owned
  <1>25. ASSUME NEW a \in Accounts, release_numbers_for_account_by_system(a)
          PROVE ProviderAgrees'
    BY <1>25 DEF release_numbers_for_account_by_system, Owned, TearingDown
  <1>26. ASSUME NEW a \in Accounts, NEW n \in Numbers, teardown_release(a,
          n) PROVE ProviderAgrees'
    BY <1>26 DEF teardown_release, TakeBack
  <1>27. ASSUME NEW a \in Accounts, NEW n \in Numbers,
          teardown_release_fails(a, n) PROVE ProviderAgrees'
    BY <1>27 DEF teardown_release_fails, GivenUp, teardown_flush
  <1>28. ASSUME NEW a \in Accounts, teardown_commit(a) PROVE ProviderAgrees'
    BY <1>28 DEF teardown_commit, teardown_flush, TearingDown
  <1>29. ASSUME NEW n \in Numbers, release_stuck_provisioning(n) PROVE
          ProviderAgrees'
    BY <1>29 DEF release_stuck_provisioning, SetStatus, Free, IsStuck
  <1>30. ASSUME NEW n \in Numbers, reservation_lapses(n) PROVE
          ProviderAgrees'
    BY <1>30 DEF reservation_lapses
  <1>31. ASSUME NEW n \in Numbers, provisioning_ages(n) PROVE
          ProviderAgrees'
    BY <1>31 DEF provisioning_ages, SetAge
  <1>32. ASSUME NEW n \in Numbers, quarantine_ends(n) PROVE ProviderAgrees'
    BY <1>32 DEF quarantine_ends, SetAge
  <1>33. CASE UNCHANGED vars
    BY <1>33 DEF vars
  <1> HIDE DEF ProviderAgrees, Releasing, TypeOK, rowVars, reqVars, Exclusive,
          IndInv, Engaged, CheckoutFresh, EligibleHolds, BuyerHolds,
          CancelHolds, TeardownHolds, OnePurchase, Ordered, InFlight, Served,
          PurchasePc, BuyingPc, CancelPc, NoRequest
  <1> QED
    BY <1>1, <1>2, <1>3, <1>4, <1>5, <1>6, <1>7, <1>8, <1>9, <1>10, <1>11,
        <1>12, <1>13, <1>14, <1>15, <1>16, <1>17, <1>18, <1>19, <1>20, <1>21,
        <1>22, <1>23, <1>24, <1>25, <1>26, <1>27, <1>28, <1>29, <1>30, <1>31,
        <1>32, <1>33
        DEF Next, Step, AnswerLost, Teardown, TeardownAnswerLost, Death,
            Arrival, TimePasses

\* A fault is never undone: what has been faultless is faultless before.
LEMMA FaultsStay == [Next]_vars /\ faultless' => faultless
  BY DEF Next, vars, Step, AnswerLost, Teardown, TeardownAnswerLost, Death

\* A purchase that returns leaves no number in PURCHASE_PENDING or PROVISIONING,
\* until somebody dies: no number is in flight that nobody is buying.
THEOREM NumbersInFlightAreBought == ASSUME Exclusive PROVE Spec => []PurchasesSettle
  <1>1. Init => PurchasesSettle
    BY DEF Init, PurchasesSettle, InFlight
  <1>2. TypeOK /\ IndInv /\ PurchasesSettle /\ [Next]_vars => PurchasesSettle'
    BY InHandStep, FaultsStay DEF PurchasesSettle, InHand
  <1> QED
    BY <1>1, <1>2, TypeCorrect, Invariance, PTL DEF Spec

\* The platform pays the provider for exactly the numbers in service, until
\* somebody dies or an answer is lost.
THEOREM ProviderIsInStep == ASSUME Exclusive PROVE Spec => []RowsMatchProvider
  <1>1. Init => RowsMatchProvider
    BY DEF Init, RowsMatchProvider, ProviderAgrees, Releasing, Served
  <1>2. TypeOK /\ IndInv /\ RowsMatchProvider /\ [Next]_vars => RowsMatchProvider'
    BY AgreeStep, FaultsStay DEF RowsMatchProvider
  <1> QED
    BY <1>1, <1>2, TypeCorrect, Invariance, PTL DEF Spec

-----------------------------------------------------------------------------
(* The rows implement NumberMarket.                                        *)

View == [n \in Numbers |-> MarketOf(n)]

\* What a step may do to one number of the abstract market.
Move(n) ==
    \/ MarketOf(n)' = MarketOf(n)
    \/ \E a \in Accounts : MarketOf(n) = Market!Open /\ MarketOf(n)' =
            Market!For("promised", a)
    \/ MarketOf(n).phase = "promised" /\ MarketOf(n)' = Market!Open
    \/ \E a \in Accounts : /\ MarketOf(n) = Market!For("promised", a)
                          /\ MarketOf(n)' = Market!For("serving", a)
    \/ \E a \in Accounts : MarketOf(n) = Market!For("serving",
            a) /\ MarketOf(n)' = Market!Resting
    \/ MarketOf(n) = Market!Resting /\ MarketOf(n)' = Market!Open

\* A move of one number, the others left alone, is a step of the market.
LEMMA OneNumber ==
    ASSUME NEW n \in Numbers, Move(n),
           \A m \in Numbers \ {n} : MarketOf(m)' = MarketOf(m)
    PROVE  Market!Next \/ View' = View
  <1> DEFINE moved(v) == View' = [View EXCEPT ![n] = v]
  <1>1. moved(MarketOf(n)')
    BY DEF View
  <1>2. View[n] = MarketOf(n)
    BY DEF View
  <1>3. CASE MarketOf(n)' = MarketOf(n)
    BY <1>3 DEF View
  <1>4. ASSUME NEW a \in Accounts, MarketOf(n) = Market!Open,
               MarketOf(n)' = Market!For("promised", a)
        PROVE  Market!Next
    <2>1. Market!Promise(a, n)
      BY <1>1, <1>2, <1>4 DEF Market!Promise, View
    <2> QED
      BY <2>1 DEF Market!Next
  <1>5. CASE MarketOf(n).phase = "promised" /\ MarketOf(n)' = Market!Open
    <2>1. Market!Lapse(n)
      BY <1>1, <1>2, <1>5 DEF Market!Lapse, View
    <2> QED
      BY <2>1 DEF Market!Next
  <1>6. ASSUME NEW a \in Accounts, MarketOf(n) = Market!For("promised", a),
               MarketOf(n)' = Market!For("serving", a)
        PROVE  Market!Next
    <2>1. Market!Serve(a, n)
      BY <1>1, <1>2, <1>6 DEF Market!Serve, View
    <2> QED
      BY <2>1 DEF Market!Next
  <1>7. ASSUME NEW a \in Accounts, MarketOf(n) = Market!For("serving", a),
               MarketOf(n)' = Market!Resting
        PROVE  Market!Next
    <2>1. Market!End(a, {n})
      BY <1>1, <1>2, <1>7 DEF Market!End, View
    <2> QED
      BY <2>1 DEF Market!Next
  <1>8. CASE MarketOf(n) = Market!Resting /\ MarketOf(n)' = Market!Open
    <2>1. Market!Reopen(n)
      BY <1>1, <1>2, <1>8 DEF Market!Reopen, View
    <2> QED
      BY <2>1 DEF Market!Next
  <1> QED
    BY <1>3, <1>4, <1>5, <1>6, <1>7, <1>8 DEF Move

\* A teardown's commit ends the service of the numbers it has released.
LEMMA FlushEnds ==
    ASSUME TypeOK, IndInv, NEW a \in Accounts, teardown_flush(a)
    PROVE  Market!Next \/ View' = View
  <1> DEFINE S == {n \in tear[a].done : status[n] \in Served}
  <1>1. tear[a].done \subseteq Numbers /\ S \in SUBSET Numbers
    BY DEF TypeOK
  <1>2. \A n \in S : View[n] = Market!For("serving", a)
    <2> SUFFICES ASSUME NEW n \in S PROVE View[n] = Market!For("serving", a)
      OBVIOUS
    <2>1. n \in Numbers /\ status[n] \in Served /\ account[n] = a
      BY <1>1 DEF IndInv, TeardownHolds
    <2>2. MarketOf(n) = Market!For("serving", a)
      BY <2>1 DEF MarketOf, Market!For, Served
    <2>3. View[n] = MarketOf(n)
      BY <2>1 DEF View
    <2> QED
      BY <2>2, <2>3
  <1>3. \A n \in Numbers : MarketOf(n)' = IF n \in S THEN Market!Resting ELSE
          MarketOf(n)
    <2> TAKE n \in Numbers
    <2>1. CASE n \in S
      BY <2>1, <1>1 DEF MarketOf, Market!Resting, teardown_flush, Served, TypeOK
    <2>2. CASE n \in tear[a].done /\ n \notin S
      BY <2>2, <1>1 DEF MarketOf, teardown_flush, Served, IndInv,
          TeardownHolds, TypeOK
    <2>3. CASE n \notin tear[a].done
      BY <2>3, <1>1 DEF MarketOf, teardown_flush, TypeOK
    <2> QED
      BY <2>1, <2>2, <2>3
  <1>4. View' = [n \in Numbers |-> IF n \in S THEN Market!Resting ELSE View[n]]
    BY <1>3 DEF View
  <1>5. Market!End(a, S)
    BY <1>2, <1>4 DEF Market!End, View
  <1> QED
    BY <1>1, <1>5 DEF Market!Next

\* Every step of the service is a step of the market, or changes nothing in it.
LEMMA MarketStep ==
    ASSUME Exclusive, TypeOK, IndInv, [Next]_vars
    PROVE  Market!Next \/ View' = View
  <1> USE DEF TypeOK, Exclusive, IndInv
  <1>0. ASSUME UNCHANGED rowVars PROVE View' = View
    BY <1>0 DEF rowVars, View, MarketOf
  <1>1. ASSUME NEW r \in Requests, checkout_refreshed(r)
        PROVE  Market!Next \/ View' = View
    BY <1>1, <1>0 DEF checkout_refreshed
  <1>2. ASSUME NEW r \in Requests, checkout_refused(r)
        PROVE  Market!Next \/ View' = View
    BY <1>2, <1>0 DEF checkout_refused
  <1>3. ASSUME NEW r \in Requests, checkout_compliance_pending(r)
        PROVE  Market!Next \/ View' = View
    <2>1. PICK n \in Numbers : n = req[r].num
      BY <1>3 DEF checkout_compliance_pending, Engaged
    <2>2. \A m \in Numbers \ {n} : MarketOf(m)' = MarketOf(m)
      BY <1>3, <2>1 DEF checkout_compliance_pending, HoldForCompliance, Finish,
          Free, MarketOf
    <2>3. Move(n)
      BY <1>3, <2>1 DEF checkout_compliance_pending, HoldForCompliance, Finish,
          Free, MarketOf, Move, Market!Open, Market!For, Market!Resting,
          Engaged, LocksHeld, CheckoutFresh, EligibleHolds, BuyerHolds,
          CancelHolds, Status, Served, Ordered, InFlight, PurchasePc, BuyingPc,
          CancelPc
    <2> QED
      BY <2>1, <2>2, <2>3, OneNumber
  <1>4. ASSUME NEW r \in Requests, checkout_purchase(r)
        PROVE  Market!Next \/ View' = View
    BY <1>4, <1>0 DEF checkout_purchase
  <1>5. ASSUME NEW r \in Requests, eligibility_commits(r)
        PROVE  Market!Next \/ View' = View
    BY <1>5, <1>0 DEF eligibility_commits
  <1>6. ASSUME NEW r \in Requests, purchase_refused(r)
        PROVE  Market!Next \/ View' = View
    BY <1>6, <1>0 DEF purchase_refused
  <1>7. ASSUME NEW r \in Requests, purchase_compliance_pending(r)
        PROVE  Market!Next \/ View' = View
    <2>1. PICK n \in Numbers : n = req[r].num
      BY <1>7 DEF purchase_compliance_pending, Engaged
    <2>2. \A m \in Numbers \ {n} : MarketOf(m)' = MarketOf(m)
      BY <1>7, <2>1 DEF purchase_compliance_pending, HoldForCompliance,
          Unlocked, Finish, Writable, MarketOf
    <2>3. Move(n)
      <3>1. status[n] \in Ordered /\ account[n] \in Accounts /\ UNCHANGED <<account, age, until>>
        BY <1>7, <2>1 DEF purchase_compliance_pending, HoldForCompliance, EligibleHolds, Engaged,
            Ordered
      <3>2. CASE req[r].seen = "open"
        <4>1. status' = status
          BY <1>7, <3>2 DEF purchase_compliance_pending, HoldForCompliance
        <4> QED
          BY <3>1, <4>1 DEF Move, MarketOf
      <3>3. CASE req[r].seen # "open"
        <4>1. status'[n] = "COMPLIANCE_PENDING"
          BY <1>7, <2>1, <3>3 DEF purchase_compliance_pending, HoldForCompliance
        <4>2. MarketOf(n)' = Market!For("promised", account[n])
          BY <3>1, <4>1 DEF MarketOf, Market!For, Served
        <4>3. CASE status[n] = "RESERVED" /\ until[n] = "over"
          <5>1. MarketOf(n) = Market!Open
            BY <4>3 DEF MarketOf, Market!Open, Served
          <5> QED
            BY <3>1, <4>2, <5>1 DEF Move
        <4>4. CASE ~(status[n] = "RESERVED" /\ until[n] = "over")
          <5>1. MarketOf(n) = Market!For("promised", account[n])
            BY <3>1, <4>4 DEF MarketOf, Market!For, Served, Ordered
          <5> QED
            BY <4>2, <5>1 DEF Move
        <4> QED
          BY <4>3, <4>4
      <3> QED
        BY <3>2, <3>3
    <2> QED
      BY <2>1, <2>2, <2>3, OneNumber
  <1>8. ASSUME NEW r \in Requests, purchase_pending(r)
        PROVE  Market!Next \/ View' = View
    <2>1. PICK n \in Numbers : n = req[r].num
      BY <1>8 DEF purchase_pending, Engaged
    <2>2. \A m \in Numbers \ {n} : MarketOf(m)' = MarketOf(m)
      BY <1>8, <2>1 DEF purchase_pending, SetStatus, SetAge, Unlocked,
          Writable, MarketOf
    <2>3. Move(n)
      BY <1>8, <2>1 DEF purchase_pending, SetStatus, SetAge, Unlocked,
          Writable, MarketOf, Move, Market!Open, Market!For, Market!Resting,
          Engaged, LocksHeld, CheckoutFresh, EligibleHolds, BuyerHolds,
          CancelHolds, Status, Served, Ordered, InFlight, PurchasePc, BuyingPc,
          CancelPc
    <2> QED
      BY <2>1, <2>2, <2>3, OneNumber
  <1>9. ASSUME NEW r \in Requests, purchase_provisioning(r)
        PROVE  Market!Next \/ View' = View
    <2>1. PICK n \in Numbers : n = req[r].num
      BY <1>9 DEF purchase_provisioning, Engaged
    <2>2. \A m \in Numbers \ {n} : MarketOf(m)' = MarketOf(m)
      BY <1>9, <2>1 DEF purchase_provisioning, SetStatus, Goto, Free, MarketOf
    <2>3. Move(n)
      BY <1>9, <2>1 DEF purchase_provisioning, SetStatus, Goto, Free, MarketOf,
          Move, Market!Open, Market!For, Market!Resting, Engaged, LocksHeld,
          CheckoutFresh, EligibleHolds, BuyerHolds, CancelHolds, Status,
          Served, Ordered, InFlight, PurchasePc, BuyingPc, CancelPc
    <2> QED
      BY <2>1, <2>2, <2>3, OneNumber
  <1>10. ASSUME NEW r \in Requests, purchase_activate(r)
        PROVE  Market!Next \/ View' = View
    <2>1. PICK n \in Numbers : n = req[r].num
      BY <1>10 DEF purchase_activate, Engaged
    <2>2. \A m \in Numbers \ {n} : MarketOf(m)' = MarketOf(m)
      BY <1>10, <2>1 DEF purchase_activate, SetStatus, Finish, Free, MarketOf
    <2>3. Move(n)
      BY <1>10, <2>1 DEF purchase_activate, SetStatus, Finish, Free, MarketOf,
          Move, Market!Open, Market!For, Market!Resting, Engaged, LocksHeld,
          CheckoutFresh, EligibleHolds, BuyerHolds, CancelHolds, Status,
          Served, Ordered, InFlight, PurchasePc, BuyingPc, CancelPc
    <2> QED
      BY <2>1, <2>2, <2>3, OneNumber
  <1>11. ASSUME NEW r \in Requests, purchase_failed(r)
        PROVE  Market!Next \/ View' = View
    <2>1. PICK n \in Numbers : n = req[r].num
      BY <1>11 DEF purchase_failed, Engaged
    <2>2. \A m \in Numbers \ {n} : MarketOf(m)' = MarketOf(m)
      BY <1>11, <2>1 DEF purchase_failed, SetStatus, Finish, Free, MarketOf
    <2>3. Move(n)
      BY <1>11, <2>1 DEF purchase_failed, SetStatus, Finish, Free, MarketOf,
          Move, Market!Open, Market!For, Market!Resting, Engaged, LocksHeld,
          CheckoutFresh, EligibleHolds, BuyerHolds, CancelHolds, Status,
          Served, Ordered, InFlight, PurchasePc, BuyingPc, CancelPc
    <2> QED
      BY <2>1, <2>2, <2>3, OneNumber
  <1>12. ASSUME NEW r \in Requests, buy_number_sold(r)
        PROVE  Market!Next \/ View' = View
    BY <1>12, <1>0 DEF buy_number_sold
  <1>13. ASSUME NEW r \in Requests, buy_number_refused(r)
        PROVE  Market!Next \/ View' = View
    BY <1>13, <1>0 DEF buy_number_refused
  <1>14. ASSUME NEW r \in Requests, buy_number_reply_lost(r)
        PROVE  Market!Next \/ View' = View
    BY <1>14, <1>0 DEF buy_number_reply_lost
  <1>15. ASSUME NEW r \in Requests, cancel_release(r)
        PROVE  Market!Next \/ View' = View
    BY <1>15, <1>0 DEF cancel_release
  <1>16. ASSUME NEW r \in Requests,
          cancel_release_fails(r) \/ cancel_reply_lost(r)
        PROVE  Market!Next \/ View' = View
    BY <1>16, <1>0 DEF cancel_release_fails, cancel_reply_lost
  <1>17. ASSUME NEW r \in Requests, cancel_commit(r)
        PROVE  Market!Next \/ View' = View
    <2>1. PICK n \in Numbers : n = req[r].num
      BY <1>17 DEF cancel_commit, Engaged
    <2>2. \A m \in Numbers \ {n} : MarketOf(m)' = MarketOf(m)
      BY <1>17, <2>1 DEF cancel_commit, SetStatus, SetAge, Unlocked, Finish,
          MarketOf
    <2>3. Move(n)
      BY <1>17, <2>1 DEF cancel_commit, SetStatus, SetAge, Unlocked, Finish,
          MarketOf, Move, Market!Open, Market!For, Market!Resting, Engaged,
          LocksHeld, CheckoutFresh, EligibleHolds, BuyerHolds, CancelHolds,
          Status, Served, Ordered, InFlight, PurchasePc, BuyingPc, CancelPc
    <2> QED
      BY <2>1, <2>2, <2>3, OneNumber
  <1>18. ASSUME NEW r \in Requests, worker_dies(r)
        PROVE  Market!Next \/ View' = View
    BY <1>18, <1>0 DEF worker_dies
  <1>19. ASSUME NEW r \in Requests, NEW a \in Accounts, NEW n \in Numbers,
          checkout_read(r, a, n)
        PROVE  Market!Next \/ View' = View
    BY <1>19, <1>0 DEF checkout_read
  <1>20. ASSUME NEW r \in Requests, NEW a \in Accounts, NEW n \in Numbers,
          purchase_number(r, a, n)
        PROVE  Market!Next \/ View' = View
    BY <1>20, <1>0 DEF purchase_number
  <1>21. ASSUME NEW r \in Requests, NEW a \in Accounts, NEW n \in Numbers,
          cancel_number(r, a, n)
        PROVE  Market!Next \/ View' = View
    BY <1>21, <1>0 DEF cancel_number
  <1>22. ASSUME NEW r \in Requests, NEW n \in Numbers, retry_provisioning(r, n)
        PROVE  Market!Next \/ View' = View
    <2>1. n \in Numbers
      BY <1>22 DEF retry_provisioning, Engaged
    <2>2. \A m \in Numbers \ {n} : MarketOf(m)' = MarketOf(m)
      BY <1>22, <2>1 DEF retry_provisioning, SetStatus, SetAge, Begin, Free,
          IsStuck, MarketOf
    <2>3. Move(n)
      BY <1>22, <2>1 DEF retry_provisioning, SetStatus, SetAge, Begin, Free,
          IsStuck, MarketOf, Move, Market!Open, Market!For, Market!Resting,
          Engaged, LocksHeld, CheckoutFresh, EligibleHolds, BuyerHolds,
          CancelHolds, Status, Served, Ordered, InFlight, PurchasePc, BuyingPc,
          CancelPc
    <2> QED
      BY <2>1, <2>2, <2>3, OneNumber
  <1>23. ASSUME NEW a \in Accounts, NEW n \in Numbers, reserve_number(a, n)
        PROVE  Market!Next \/ View' = View
    <2>1. n \in Numbers
      BY <1>23 DEF reserve_number, Engaged
    <2>2. \A m \in Numbers \ {n} : MarketOf(m)' = MarketOf(m)
      BY <1>23, <2>1 DEF reserve_number, Reserve, SetStatus, Free, MarketOf
    <2>3. Move(n)
      BY <1>23, <2>1 DEF reserve_number, Reserve, SetStatus, Free, MarketOf,
          Move, Market!Open, Market!For, Market!Resting, Engaged, LocksHeld,
          CheckoutFresh, EligibleHolds, BuyerHolds, CancelHolds, Status,
          Served, Ordered, InFlight, PurchasePc, BuyingPc, CancelPc
    <2> QED
      BY <2>1, <2>2, <2>3, OneNumber
  <1>24. ASSUME NEW a \in Accounts, NEW n \in Numbers, suspend_number(a, n)
        PROVE  Market!Next \/ View' = View
    <2>1. \A m \in Numbers : MarketOf(m)' = MarketOf(m)
      BY <1>24 DEF suspend_number, Change, Free, Owned, MarketOf, Served
    <2> QED
      BY <2>1 DEF View
  <1>25. ASSUME NEW a \in Accounts, suspend_numbers_for_account_by_system(a)
        PROVE  Market!Next \/ View' = View
    <2>1. \A m \in Numbers : MarketOf(m)' = MarketOf(m)
      BY <1>25 DEF suspend_numbers_for_account_by_system, Change, Free, Owned,
          MarketOf, Served
    <2> QED
      BY <2>1 DEF View
  <1>26. ASSUME NEW a \in Accounts, reactivate_numbers_for_account_by_staff(a)
        PROVE  Market!Next \/ View' = View
    <2>1. \A m \in Numbers : MarketOf(m)' = MarketOf(m)
      BY <1>26 DEF reactivate_numbers_for_account_by_staff, Change, Free,
          Owned, MarketOf, Served
    <2> QED
      BY <2>1 DEF View
  <1>27. ASSUME NEW a \in Accounts, release_numbers_for_account_by_system(a)
        PROVE  Market!Next \/ View' = View
    BY <1>27, <1>0 DEF release_numbers_for_account_by_system
  <1>28. ASSUME NEW a \in Accounts, NEW n \in Numbers, teardown_release(a, n)
        PROVE  Market!Next \/ View' = View
    BY <1>28, <1>0 DEF teardown_release
  <1>29. ASSUME NEW a \in Accounts, NEW n \in Numbers,
          teardown_release_fails(a, n) \/ teardown_reply_lost(a, n)
        PROVE  Market!Next \/ View' = View
    BY <1>29, FlushEnds DEF teardown_release_fails, teardown_reply_lost, GivenUp
  <1>30. ASSUME NEW a \in Accounts, teardown_commit(a)
        PROVE  Market!Next \/ View' = View
    BY <1>30, FlushEnds DEF teardown_commit
  <1>31. ASSUME NEW a \in Accounts, teardown_dies(a)
        PROVE  Market!Next \/ View' = View
    BY <1>31, <1>0 DEF teardown_dies
  <1>32. ASSUME NEW n \in Numbers, release_stuck_provisioning(n)
        PROVE  Market!Next \/ View' = View
    <2>1. n \in Numbers
      BY <1>32 DEF release_stuck_provisioning, Engaged
    <2>2. \A m \in Numbers \ {n} : MarketOf(m)' = MarketOf(m)
      BY <1>32, <2>1 DEF release_stuck_provisioning, SetStatus, Free, IsStuck,
          MarketOf
    <2>3. Move(n)
      BY <1>32, <2>1 DEF release_stuck_provisioning, SetStatus, Free, IsStuck,
          MarketOf, Move, Market!Open, Market!For, Market!Resting, Engaged,
          LocksHeld, CheckoutFresh, EligibleHolds, BuyerHolds, CancelHolds,
          Status, Served, Ordered, InFlight, PurchasePc, BuyingPc, CancelPc
    <2> QED
      BY <2>1, <2>2, <2>3, OneNumber
  <1>33. ASSUME NEW n \in Numbers, reservation_lapses(n)
        PROVE  Market!Next \/ View' = View
    <2>1. n \in Numbers
      BY <1>33 DEF reservation_lapses, Engaged
    <2>2. \A m \in Numbers \ {n} : MarketOf(m)' = MarketOf(m)
      BY <1>33, <2>1 DEF reservation_lapses, MarketOf
    <2>3. Move(n)
      BY <1>33, <2>1 DEF reservation_lapses, MarketOf, Move, Market!Open,
          Market!For, Market!Resting, Engaged, LocksHeld, CheckoutFresh,
          EligibleHolds, BuyerHolds, CancelHolds, Status, Served, Ordered,
          InFlight, PurchasePc, BuyingPc, CancelPc
    <2> QED
      BY <2>1, <2>2, <2>3, OneNumber
  <1>34. ASSUME NEW n \in Numbers, provisioning_ages(n)
        PROVE  Market!Next \/ View' = View
    <2>1. n \in Numbers
      BY <1>34 DEF provisioning_ages, Engaged
    <2>2. \A m \in Numbers \ {n} : MarketOf(m)' = MarketOf(m)
      BY <1>34, <2>1 DEF provisioning_ages, SetAge, Buying, MarketOf
    <2>3. Move(n)
      BY <1>34, <2>1 DEF provisioning_ages, SetAge, Buying, MarketOf, Move,
          Market!Open, Market!For, Market!Resting, Engaged, LocksHeld,
          CheckoutFresh, EligibleHolds, BuyerHolds, CancelHolds, Status,
          Served, Ordered, InFlight, PurchasePc, BuyingPc, CancelPc
    <2> QED
      BY <2>1, <2>2, <2>3, OneNumber
  <1>35. ASSUME NEW n \in Numbers, quarantine_ends(n)
        PROVE  Market!Next \/ View' = View
    <2>1. n \in Numbers
      BY <1>35 DEF quarantine_ends, Engaged
    <2>2. \A m \in Numbers \ {n} : MarketOf(m)' = MarketOf(m)
      BY <1>35, <2>1 DEF quarantine_ends, SetAge, TearingDown, MarketOf
    <2>3. Move(n)
      BY <1>35, <2>1 DEF quarantine_ends, SetAge, TearingDown, MarketOf, Move,
          Market!Open, Market!For, Market!Resting, Engaged, LocksHeld,
          CheckoutFresh, EligibleHolds, BuyerHolds, CancelHolds, Status,
          Served, Ordered, InFlight, PurchasePc, BuyingPc, CancelPc
    <2> QED
      BY <2>1, <2>2, <2>3, OneNumber
  <1>36. CASE UNCHANGED vars
    BY <1>36, <1>0 DEF vars
  <1> QED
    BY <1>1, <1>2, <1>3, <1>4, <1>5, <1>6, <1>7, <1>8, <1>9, <1>10, <1>11,
        <1>12, <1>13, <1>14, <1>15, <1>16, <1>17, <1>18, <1>19, <1>20, <1>21,
        <1>22, <1>23, <1>24, <1>25, <1>26, <1>27, <1>28, <1>29, <1>30, <1>31,
        <1>32, <1>33, <1>34, <1>35, <1>36 
        DEF Next, Step, AnswerLost, Teardown, TeardownAnswerLost, Death,
            Arrival, TimePasses

\* The number service implements the number market.
THEOREM MarketImplemented == ASSUME Exclusive PROVE Spec => MarketSpec
  <1>1. Init => Market!Init
    BY DEF Init, Market!Init, Market!Open, MarketOf, Served
  <1>2. TypeOK /\ IndInv /\ [Next]_vars => [Market!Next]_View
    BY MarketStep
  <1> QED
    BY <1>1, <1>2, TypeCorrect, Invariance, PTL DEF Spec, MarketSpec,
        Market!Spec, View

-----------------------------------------------------------------------------
(* Locks, whatever the faults.                                             *)

\* Releasing one number leaves every teardown under way.
LEMMA ReleaseGoesOn ==
    ASSUME TypeOK, NEW a \in Accounts, NEW n \in Numbers, teardown_release(a, n),
           NEW b \in Accounts, TearingDown(b)
    PROVE  TearingDown(b)'
  <1>1. tear[a] \in [todo : SUBSET Numbers, done : SUBSET Numbers] /\ n \in tear[a].todo
    BY DEF TypeOK, teardown_release
  <1>2. tear' = [tear EXCEPT ![a] = [todo |-> tear[a].todo \ {n},
                                      done |-> tear[a].done \cup {n}]]
    BY DEF teardown_release
  <1>3. CASE b = a
    <2>1. tear'[b].done = tear[a].done \cup {n}
      BY <1>2, <1>3 DEF TypeOK
    <2> QED
      BY <2>1 DEF TearingDown
  <1>4. CASE b # a
    BY <1>2, <1>4 DEF TearingDown, TypeOK
  <1> QED
    BY <1>3, <1>4

\* A step that ends a request or a teardown drops the locks it held.
LEMMA LocksStep ==
    ASSUME TypeOK, LocksAccounted, [Next]_vars
    PROVE  LocksAccounted'
  <1> USE NoneAssumption, HoldersAssumption
      DEF LocksAccounted, TearingDown, TypeOK, rowVars, reqVars, CancelPc,
              Request, NoRequest
  <1>1. ASSUME NEW r \in Requests, checkout_refreshed(r) PROVE LocksAccounted'
    BY <1>1 DEF checkout_refreshed
  <1>2. ASSUME NEW r \in Requests, checkout_refused(r) PROVE LocksAccounted'
    BY <1>2 DEF checkout_refused, Finish
  <1>3. ASSUME NEW r \in Requests, checkout_compliance_pending(r)
          PROVE LocksAccounted'
    BY <1>3 DEF checkout_compliance_pending, HoldForCompliance, Finish, Free
  <1>4. ASSUME NEW r \in Requests, checkout_purchase(r) PROVE LocksAccounted'
    BY <1>4 DEF checkout_purchase, Goto, Free
  <1>5. ASSUME NEW r \in Requests, eligibility_commits(r) PROVE LocksAccounted'
    BY <1>5 DEF eligibility_commits, Unlocked
  <1>6. ASSUME NEW r \in Requests, purchase_refused(r) PROVE LocksAccounted'
    BY <1>6 DEF purchase_refused, Unlocked, Finish
  <1>7. ASSUME NEW r \in Requests, purchase_compliance_pending(r)
          PROVE LocksAccounted'
    BY <1>7 DEF purchase_compliance_pending, HoldForCompliance, Unlocked,
        Finish, Writable
  <1>8. ASSUME NEW r \in Requests, purchase_pending(r) PROVE LocksAccounted'
    BY <1>8 DEF purchase_pending, SetStatus, SetAge, Unlocked, Writable
  <1>9. ASSUME NEW r \in Requests, purchase_provisioning(r)
          PROVE LocksAccounted'
    BY <1>9 DEF purchase_provisioning, SetStatus, Goto, Free
  <1>10. ASSUME NEW r \in Requests, purchase_activate(r) PROVE LocksAccounted'
    BY <1>10 DEF purchase_activate, SetStatus, Finish, Free
  <1>11. ASSUME NEW r \in Requests, purchase_failed(r) PROVE LocksAccounted'
    BY <1>11 DEF purchase_failed, SetStatus, Finish, Free
  <1>12. ASSUME NEW r \in Requests, buy_number_sold(r) PROVE LocksAccounted'
    BY <1>12 DEF buy_number_sold, Sell, Goto
  <1>13. ASSUME NEW r \in Requests, buy_number_refused(r) PROVE LocksAccounted'
    BY <1>13 DEF buy_number_refused, Goto
  <1>14. ASSUME NEW r \in Requests, buy_number_reply_lost(r)
          PROVE LocksAccounted'
    BY <1>14 DEF buy_number_reply_lost, Sell, Goto
  <1>15. ASSUME NEW r \in Requests, cancel_release(r) PROVE LocksAccounted'
    BY <1>15 DEF cancel_release, TakeBack, Goto
  <1>16. ASSUME NEW r \in Requests,
          cancel_release_fails(r) \/ cancel_reply_lost(r)
          PROVE LocksAccounted'
    <2>1. CASE cancel_release_fails(r)
      BY <2>1 DEF cancel_release_fails, Unlocked, Finish
    <2>2. CASE cancel_reply_lost(r)
      BY <2>2 DEF cancel_reply_lost, ReplyLost, TakeBack, Unlocked, Finish
    <2> QED
      BY <1>16, <2>1, <2>2
  <1>17. ASSUME NEW r \in Requests, cancel_commit(r) PROVE LocksAccounted'
    BY <1>17 DEF cancel_commit, SetStatus, SetAge, Unlocked, Finish
  <1>18. ASSUME NEW r \in Requests, worker_dies(r) PROVE LocksAccounted'
    BY <1>18 DEF worker_dies, AllUnlocked, Finish
  <1>19. ASSUME NEW r \in Requests, NEW a \in Accounts, NEW n \in Numbers,
          checkout_read(r, a, n) PROVE LocksAccounted'
    BY <1>19 DEF checkout_read, Begin, MayCheckout, Purchasing, Purchasable
  <1>20. ASSUME NEW r \in Requests, NEW a \in Accounts, NEW n \in Numbers,
          purchase_number(r, a, n) PROVE LocksAccounted'
    BY <1>20 DEF purchase_number, Begin, MayPurchase, Free, Purchasable
  <1>21. ASSUME NEW r \in Requests, NEW a \in Accounts, NEW n \in Numbers,
          cancel_number(r, a, n) PROVE LocksAccounted'
    BY <1>21 DEF cancel_number, Begin, Free
  <1>22. ASSUME NEW r \in Requests, NEW n \in Numbers, retry_provisioning(r, n)
          PROVE LocksAccounted'
    BY <1>22 DEF retry_provisioning, SetStatus, SetAge, Begin, Free, IsStuck
  <1>23. ASSUME NEW a \in Accounts, NEW n \in Numbers, reserve_number(a, n)
          PROVE LocksAccounted'
    BY <1>23 DEF reserve_number, Reserve, SetStatus, Free
  <1>24. ASSUME NEW a \in Accounts, NEW n \in Numbers, suspend_number(a, n)
          PROVE LocksAccounted'
    BY <1>24 DEF suspend_number, Change, Free, Owned
  <1>25. ASSUME NEW a \in Accounts, suspend_numbers_for_account_by_system(a)
          PROVE LocksAccounted'
    BY <1>25 DEF suspend_numbers_for_account_by_system, Change, Free, Owned
  <1>26. ASSUME NEW a \in Accounts, reactivate_numbers_for_account_by_staff(a)
          PROVE LocksAccounted'
    BY <1>26 DEF reactivate_numbers_for_account_by_staff, Change, Free, Owned
  <1>27. ASSUME NEW a \in Accounts, release_numbers_for_account_by_system(a)
          PROVE LocksAccounted'
    BY <1>27 DEF release_numbers_for_account_by_system, Owned, Free, TearingDown
  <1>28. ASSUME NEW a \in Accounts, NEW n \in Numbers, teardown_release(a, n)
          PROVE LocksAccounted'
    <2>1. UNCHANGED <<lock, pc, req>>
      BY <1>28 DEF teardown_release
    <2> HIDE DEF TearingDown, TypeOK
    <2>2. ASSUME NEW b \in Accounts, TearingDown(b) PROVE TearingDown(b)'
      BY <1>28, <2>2, ReleaseGoesOn
    <2> QED
      BY <2>1, <2>2
  <1>29. ASSUME NEW a \in Accounts, NEW n \in Numbers,
          teardown_release_fails(a, n) \/ teardown_reply_lost(a, n)
          PROVE LocksAccounted'
    BY <1>29 DEF teardown_release_fails, teardown_reply_lost, GivenUp, ReplyLost, TakeBack,
        teardown_flush, AllUnlocked, Writable
  <1>30. ASSUME NEW a \in Accounts, teardown_commit(a) PROVE LocksAccounted'
    BY <1>30 DEF teardown_commit, teardown_flush, AllUnlocked, Writable,
        TearingDown
  <1>31. ASSUME NEW a \in Accounts, teardown_dies(a) PROVE LocksAccounted'
    BY <1>31 DEF teardown_dies, AllUnlocked, TearingDown
  <1>32. ASSUME NEW n \in Numbers, release_stuck_provisioning(n)
          PROVE LocksAccounted'
    BY <1>32 DEF release_stuck_provisioning, SetStatus, Free, IsStuck
  <1>33. ASSUME NEW n \in Numbers, reservation_lapses(n) PROVE LocksAccounted'
    BY <1>33 DEF reservation_lapses
  <1>34. ASSUME NEW n \in Numbers, provisioning_ages(n) PROVE LocksAccounted'
    BY <1>34 DEF provisioning_ages, SetAge, Buying
  <1>35. ASSUME NEW n \in Numbers, quarantine_ends(n) PROVE LocksAccounted'
    BY <1>35 DEF quarantine_ends, SetAge, TearingDown
  <1>36. CASE UNCHANGED vars
    BY <1>36 DEF vars
  <1> QED
    BY <1>1, <1>2, <1>3, <1>4, <1>5, <1>6, <1>7, <1>8, <1>9, <1>10, <1>11,
        <1>12, <1>13, <1>14, <1>15, <1>16, <1>17, <1>18, <1>19, <1>20, <1>21,
        <1>22, <1>23, <1>24, <1>25, <1>26, <1>27, <1>28, <1>29, <1>30, <1>31,
        <1>32, <1>33, <1>34, <1>35, <1>36 
        DEF Next, Step, AnswerLost, Teardown, TeardownAnswerLost, Death,
            Arrival, TimePasses

\* No dead or finished request or teardown holds a lock, whatever the faults.
THEOREM LocksAreDropped == Spec => []LocksAccounted
  <1>1. Init => LocksAccounted
    BY NoneAssumption DEF Init, LocksAccounted
  <1> QED
    BY <1>1, LocksStep, TypeCorrect, PTL DEF Spec
=============================================================================
