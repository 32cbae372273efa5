---------------------------- MODULE Trust_proofs ----------------------------
(***************************************************************************)
(* What holds of every instance of the components that decide whom to      *)
(* trust: a compliance case, for any sessions, customers and documents;    *)
(* the risk of an account, for any signals, scores and thresholds;         *)
(* retention and erasure, for any recordings and any number of sweeps and  *)
(* erasures at once.                                                       *)
(***************************************************************************)
EXTENDS ComplianceCase, Retention, RiskEngine, TLAPS

-----------------------------------------------------------------------------
(* Compliance cases.                                                       *)

\* What a case and a request of its customer can be.
Case == [status : {"none", "pending", "approved", "rejected", "expired"},
         inquiry : Sessions \cup {NoSession}, documents : SUBSET Papers]
Request ==
    {Asking} \cup [step : {"kyc"}, seen : {"pending", "rejected", "expired"}]
             \cup [step : {"upload"}, seen : SUBSET Papers, paper : Papers]

Decider == {NoDecision} \cup Decision

\* A case that is changed is a case.
LEMMA CaseWritten ==
    ASSUME CaseTypeOK
    PROVE  /\ kase \in Case
           /\ \A st \in {"none", "pending", "approved", "rejected", "expired"} :
                 [kase EXCEPT !.status = st] \in Case
           /\ \A d \in SUBSET Papers : [kase EXCEPT !.documents = d] \in Case
           /\ \A s \in Sessions : [kase EXCEPT !.inquiry = s, !.status = "pending"] \in Case
           /\ \A s \in Sessions : [kase EXCEPT !.inquiry = s] \in Case
  BY DEF CaseTypeOK, Case

\* A restart makes the case pending with the new session, or leaves the status
\* it had.
LEMMA RestartedIs ==
    ASSUME CaseTypeOK, NEW c \in Customers, NEW s \in Sessions
    PROVE  /\ Restarted(c, s) \in Case
           /\ Restarted(c, s).inquiry = s
  <1>1. kase \in Case
    BY CaseWritten
  <1>2. CASE customer[c].seen = "pending"
    BY <1>1, <1>2 DEF Restarted, Case
  <1>3. CASE customer[c].seen # "pending"
    BY <1>1, <1>3 DEF Restarted, Case
  <1> QED
    BY <1>2, <1>3

\* A customer's request that begins or ends is a request.
LEMMA RequestWritten ==
    ASSUME CaseTypeOK, NEW c \in Customers
    PROVE  /\ customer[c] \in Request
           /\ \A x \in Request : Asks(c, x) => customer' \in [Customers -> Request]
           /\ Asking \in Request
  <1>1. customer \in [Customers -> Request]
    BY DEF CaseTypeOK, Request
  <1> QED
    BY <1>1 DEF Asks, Request

\* So is a decision.
LEMMA DecisionWritten ==
    ASSUME CaseTypeOK, NEW x \in Deciders
    PROVE  /\ decider \in [Deciders -> Decider]
           /\ \A d \in Decider : [decider EXCEPT ![x] = d] \in [Deciders -> Decider]
           /\ NoDecision \in Decider
           /\ decider[x] # NoDecision => decider[x] \in Decision
           /\ \A by \in Sessions \cup {NoSession}, to \in {"approved", "rejected"} :
                 [step |-> "decided", by |-> by, to |-> to] \in Decider
  BY DEF CaseTypeOK, Decider, Decision

\* The outcomes that count are those of sessions.
LEMMA CountedIs ==
    ASSUME CaseTypeOK, NEW by, Counted(by)
    PROVE  /\ verdicts' \in [Sessions -> Nat]
           /\ \A s \in Sessions : verdicts'[s] = verdicts[s] + IF s = by THEN 1 ELSE 0
<1>1. verdicts \in [Sessions -> Nat]
    BY DEF CaseTypeOK
<1>2. \A s \in Sessions : verdicts[s] + (IF s = by THEN 1 ELSE 0) \in Nat
    BY <1>1
<1> QED
    BY <1>2 DEF Counted

\* A step keeps the types.
LEMMA CaseTypeStep ==
    ASSUME CaseTypeOK, [CaseNext]_caseVars
    PROVE  CaseTypeOK'
<1> DEFINE Sessioned == identity \in [Sessions -> {"none", "requires_input"} \cup Verdicts]
<1>0. /\ kase \in Case /\ Sessioned /\ customer \in [Customers -> Request]
      /\ clock \in [overdue : BOOLEAN, due : BOOLEAN]
    BY DEF CaseTypeOK, Case, Request
<1>1. CASE \/ open_compliance_case \/ expire_overdue_cases \/ case_expired \/ sweep_fails
  <2>1. kase' \in Case
    BY <1>1, <1>0, CaseWritten
    DEF open_compliance_case, StatusSet, expire_overdue_cases, case_expired, sweep_fails
  <2> QED
    BY <1>1, <2>1
    DEF open_compliance_case, expire_overdue_cases, case_expired, sweep_fails, CaseTypeOK, Case
<1>2. CASE \/ ninety_days_pass \/ a_year_passes \/ flag_cases_due_for_reverification
  <2>1. clock' \in [overdue : BOOLEAN, due : BOOLEAN]
    BY <1>2, <1>0 DEF ninety_days_pass, a_year_passes, flag_cases_due_for_reverification
  <2> QED
    BY <1>2, <2>1
    DEF ninety_days_pass, a_year_passes, flag_cases_due_for_reverification, CaseTypeOK
<1>3. ASSUME NEW c \in Customers, NEW paper \in Papers, submit_document(c, paper)
      PROVE  CaseTypeOK'
  <2>1. [step |-> "upload", seen |-> kase.documents, paper |-> paper] \in Request
    BY <1>0 DEF Case, Request
  <2>2. customer' \in [Customers -> Request]
    BY <1>3, <2>1, RequestWritten DEF submit_document
  <2> QED
    BY <1>3, <2>2 DEF submit_document, CaseTypeOK, Request
<1>4. ASSUME NEW c \in Customers, document_uploaded(c)
      PROVE  CaseTypeOK'
  <2>1. customer[c] \in [step : {"upload"}, seen : SUBSET Papers, paper : Papers]
    BY <1>4, RequestWritten DEF document_uploaded, Request, Asking
  <2>2. kase' \in Case
    BY <1>4, <2>1, CaseWritten DEF document_uploaded
  <2>3. customer' \in [Customers -> Request]
    BY <1>4, RequestWritten DEF document_uploaded
  <2> QED
    BY <1>4, <2>2, <2>3 DEF document_uploaded, CaseTypeOK, Case, Request
<1>5. ASSUME NEW c \in Customers, start_kyc_verification(c)
      PROVE  CaseTypeOK'
  <2>1. [step |-> "kyc", seen |-> kase.status] \in Request
    BY <1>0, <1>5 DEF start_kyc_verification, Case, Request
  <2>2. customer' \in [Customers -> Request]
    BY <1>5, <2>1, RequestWritten DEF start_kyc_verification
  <2> QED
    BY <1>5, <2>2 DEF start_kyc_verification, CaseTypeOK, Request
<1>6. ASSUME NEW c \in Customers, NEW s \in Sessions, session_created(c, s)
      PROVE  CaseTypeOK'
  <2>1. kase' \in Case
    BY <1>6, RestartedIs DEF session_created
  <2>2. customer' \in [Customers -> Request]
    BY <1>6, RequestWritten DEF session_created
  <2> QED
    BY <1>6, <2>1, <2>2 DEF session_created, CaseTypeOK, Case, Request
<1>7. ASSUME NEW c \in Customers, customer_request_fails(c)
      PROVE  CaseTypeOK'
  <2>1. customer' \in [Customers -> Request]
    BY <1>7, RequestWritten DEF customer_request_fails
  <2> QED
    BY <1>7, <2>1 DEF customer_request_fails, CaseTypeOK, Request
<1>8. ASSUME NEW s \in Sessions, NEW verdict \in Verdicts, stripe_decides(s, verdict)
      PROVE  CaseTypeOK'
    BY <1>8 DEF stripe_decides, CaseTypeOK
<1>9. ASSUME NEW x \in Deciders, NEW by \in Sessions \cup {NoSession},
             NEW to \in {"approved", "rejected"}, Decides(x, by, to)
      PROVE  CaseTypeOK'
  <2>1. decider' \in [Deciders -> Decider] /\ alone' \in BOOLEAN
    BY <1>9, DecisionWritten DEF Decides, CaseTypeOK
  <2> QED
    BY <1>9, <2>1 DEF Decides, CaseTypeOK, Decider
<1>10. ASSUME NEW x \in Deciders, approve_case(x) \/ reject_case(x)
       PROVE  CaseTypeOK'
  <2>1. kase' \in Case
    BY <1>10, CaseWritten DEF approve_case, reject_case, StatusSet
  <2>2. verdicts' \in [Sessions -> Nat]
    BY <1>10, CountedIs DEF approve_case, reject_case
  <2>3. clock' \in [overdue : BOOLEAN, due : BOOLEAN]
    BY <1>10, <1>0 DEF approve_case, reject_case
  <2>4. decider' \in [Deciders -> Decider]
    BY <1>10, DecisionWritten DEF approve_case, reject_case
  <2> QED
    BY <1>10, <2>1, <2>2, <2>3, <2>4 DEF approve_case, reject_case, CaseTypeOK, Case, Decider
<1>11. ASSUME NEW x \in Deciders, decision_fails(x)
       PROVE  CaseTypeOK'
  <2>1. decider' \in [Deciders -> Decider]
    BY <1>11, DecisionWritten DEF decision_fails
  <2> QED
    BY <1>11, <2>1 DEF decision_fails, CaseTypeOK, Decider
<1>12. CASE UNCHANGED caseVars
    BY <1>12 DEF caseVars, CaseTypeOK
<1>13. ASSUME NEW x \in Deciders, NEW s \in Sessions, handle_stripe_identity_webhook(x, s)
       PROVE  CaseTypeOK'
    BY <1>9, <1>13 DEF handle_stripe_identity_webhook
<1>14. ASSUME NEW x \in Deciders, NEW to \in {"approved", "rejected"}, staff_decides(x, to)
       PROVE  CaseTypeOK'
    BY <1>9, <1>14 DEF staff_decides
<1> QED
    BY <1>1, <1>2, <1>3, <1>4, <1>5, <1>6, <1>7, <1>8, <1>10, <1>11, <1>12, <1>13, <1>14
    DEF CaseNext

\* At first there is no case and no session.
LEMMA CaseStarts == CaseInit => CaseTypeOK /\ SpentSession /\ SessionDecidesOnce
<1> SUFFICES ASSUME CaseInit
             PROVE  CaseTypeOK /\ SpentSession /\ SessionDecidesOnce
    OBVIOUS
<1>1. kase \in Case /\ kase.inquiry = NoSession
    BY DEF CaseInit, Case
<1>2. Asking \in Request
    BY DEF Request
<1>3. customer \in [Customers -> Request]
    BY <1>2 DEF CaseInit
<1>4. CaseTypeOK
    BY <1>1, <1>3 DEF CaseInit, CaseTypeOK, Case, Request
<1>5. /\ \A s \in Sessions : verdicts[s] = 0
      /\ \A x \in Deciders : decider[x] = NoDecision
    BY DEF CaseInit
<1> QED
    BY <1>1, <1>4, <1>5 DEF SpentSession, SessionDecidesOnce

\* The types of the case, its sessions and the customers' requests.
THEOREM CaseTypeCorrect == CaseSpec => []CaseTypeOK
  BY CaseStarts, CaseTypeStep, PTL DEF CaseSpec

\* A step that neither creates a session nor begins or ends a decision leaves the
\* sessions that have decided spent.
LEMMA SpentStays ==
    ASSUME CaseTypeOK, SpentSession, SessionDecidesOnce,
           verdicts' = verdicts, decider' = decider, alone' = alone,
           \A s \in Sessions : identity[s] # "none" => identity'[s] # "none",
           kase'.inquiry = kase.inquiry,
           kase'.status = "pending" => kase.status \in {"none", "pending"},
           kase.status = "none" => kase.inquiry = NoSession
    PROVE  SpentSession' /\ SessionDecidesOnce'
<1>1. SessionDecidesOnce'
    BY DEF SessionDecidesOnce
<1>2. kase.inquiry \in Sessions \cup {NoSession}
    BY CaseWritten DEF Case
<1>3. ASSUME NEW s \in Sessions, verdicts'[s] > 0
      PROVE  /\ identity'[s] # "none"
             /\ alone' => kase'.inquiry # s \/ kase'.status # "pending"
    BY <1>3, NoSessionAssumption DEF SpentSession
<1>4. kase'.inquiry # NoSession => identity'[kase'.inquiry] # "none"
    BY <1>2 DEF SpentSession
<1>5. ASSUME NEW x \in Deciders, decider'[x] # NoDecision
      PROVE  /\ decider'[x].by # NoSession => identity'[decider'[x].by] # "none"
             /\ alone' =>
                   /\ \A s \in Sessions : decider'[x].by = s => verdicts'[s] = 0
                   /\ \A y \in Deciders : y # x => decider'[y] = NoDecision
  <2>1. decider[x].by \in Sessions \cup {NoSession}
    BY <1>5, DecisionWritten DEF Decision
  <2> QED
    BY <1>5, <2>1 DEF SpentSession
<1> QED
    BY <1>1, <1>3, <1>4, <1>5 DEF SpentSession

\* The inductive invariant behind SessionDecidesOnce.
CaseInv ==
    /\ CaseTypeOK
    /\ SpentSession
    /\ SessionDecidesOnce
    /\ kase.status = "none" => kase.inquiry = NoSession
    /\ \A c \in Customers : customer[c] # Asking => kase.status # "none"

\* A step keeps it.
LEMMA CaseStep ==
    ASSUME CaseInv, [CaseNext]_caseVars
    PROVE  CaseInv'
<1> DEFINE Begun ==
       /\ kase.status = "none" => kase.inquiry = NoSession
       /\ \A c \in Customers : customer[c] # Asking => kase.status # "none"
<1>0. /\ CaseTypeOK /\ CaseTypeOK' /\ SpentSession /\ SessionDecidesOnce /\ Begun
      /\ kase \in Case /\ customer \in [Customers -> Request]
    BY CaseTypeStep, CaseWritten DEF CaseInv, CaseTypeOK, Request
<1>1. CASE \/ open_compliance_case
           \/ ninety_days_pass \/ a_year_passes \/ flag_cases_due_for_reverification
           \/ expire_overdue_cases \/ sweep_fails
  <2>1. /\ verdicts' = verdicts /\ identity' = identity /\ customer' = customer
        /\ decider' = decider /\ alone' = alone
        /\ kase'.inquiry = kase.inquiry
        /\ kase'.status = "pending" => kase.status \in {"none", "pending"}
        /\ kase'.status = "none" => kase.status = "none"
    BY <1>1, <1>0
    DEF open_compliance_case, ninety_days_pass, a_year_passes,
        flag_cases_due_for_reverification, expire_overdue_cases, sweep_fails, Case
  <2>2. SpentSession' /\ SessionDecidesOnce'
    BY <1>0, <2>1, SpentStays
  <2> QED
    BY <1>0, <2>1, <2>2 DEF CaseInv
<1>2. CASE case_expired
  <2>1. /\ verdicts' = verdicts /\ identity' = identity /\ customer' = customer
        /\ decider' = decider /\ alone' = alone
        /\ kase'.inquiry = kase.inquiry
        /\ kase'.status = "expired"
    BY <1>2, <1>0 DEF case_expired, StatusSet, Case
  <2>2. SpentSession' /\ SessionDecidesOnce'
    BY <1>0, <2>1, SpentStays
  <2> QED
    BY <1>0, <2>1, <2>2 DEF CaseInv
<1>3. ASSUME NEW c \in Customers,
             \/ \E paper \in Papers : submit_document(c, paper)
             \/ start_kyc_verification(c)
             \/ document_uploaded(c)
             \/ customer_request_fails(c)
      PROVE  CaseInv'
  <2>1. /\ verdicts' = verdicts /\ identity' = identity
        /\ decider' = decider /\ alone' = alone
        /\ kase'.inquiry = kase.inquiry /\ kase'.status = kase.status
    BY <1>3, <1>0
    DEF submit_document, start_kyc_verification, document_uploaded, customer_request_fails, Case
  <2>2. /\ kase.status # "none"
        /\ \E x : customer' = [customer EXCEPT ![c] = x]
    BY <1>3, <1>0
    DEF submit_document, start_kyc_verification, document_uploaded, customer_request_fails, Asks,
        Asking
  <2>3. SpentSession' /\ SessionDecidesOnce'
    BY <1>0, <2>1, SpentStays
  <2> QED
    BY <1>0, <2>1, <2>2, <2>3 DEF CaseInv
<1>4. ASSUME NEW c \in Customers, NEW s \in Sessions, session_created(c, s)
      PROVE  CaseInv'
  <2>1. /\ kase'.inquiry = s /\ verdicts' = verdicts
        /\ decider' = decider /\ alone' = alone
        /\ identity[s] = "none" /\ identity' = [identity EXCEPT ![s] = "requires_input"]
        /\ customer' = [customer EXCEPT ![c] = Asking]
    BY <1>4, <1>0, RestartedIs DEF session_created, Asks
  <2>2. kase.status # "none" /\ kase'.status # "none"
    BY <1>4, <1>0 DEF session_created, Restarted, Case, Asking
  <2>3. verdicts[s] = 0 /\ identity'[s] # "none"
    BY <1>0, <2>1 DEF SpentSession, CaseTypeOK
  <2>4. \A t \in Sessions : identity[t] # "none" => identity'[t] # "none"
    BY <1>0, <2>1 DEF CaseTypeOK
  <2>5. \A x \in Deciders : decider[x] # NoDecision =>
           decider[x].by \in Sessions \cup {NoSession}
    BY DecisionWritten, <1>0 DEF Decision
  <2>6. SpentSession'
    BY <1>0, <2>1, <2>3, <2>4, <2>5, NoSessionAssumption DEF SpentSession
  <2> QED
    BY <1>0, <2>1, <2>2, <2>6 DEF CaseInv, SessionDecidesOnce
<1>5. ASSUME NEW s \in Sessions, NEW verdict \in Verdicts, stripe_decides(s, verdict)
      PROVE  CaseInv'
  <2>1. /\ verdicts' = verdicts /\ kase' = kase /\ customer' = customer
        /\ decider' = decider /\ alone' = alone
        /\ \A t \in Sessions : identity[t] # "none" => identity'[t] # "none"
    BY <1>5, <1>0 DEF stripe_decides, Verdicts, CaseTypeOK
  <2>2. SpentSession' /\ SessionDecidesOnce'
    BY <1>0, <2>1, SpentStays
  <2> QED
    BY <1>0, <2>1, <2>2 DEF CaseInv
<1>6. ASSUME NEW x \in Deciders, NEW by \in Sessions \cup {NoSession},
             NEW to \in {"approved", "rejected"}, Decides(x, by, to),
             by \in Sessions => kase.inquiry = by /\ identity[by] # "none"
      PROVE  CaseInv'
  <2>1. /\ kase' = kase /\ kase.status = "pending" /\ verdicts' = verdicts
        /\ identity' = identity /\ customer' = customer
        /\ decider' = [decider EXCEPT ![x] = [step |-> "decided", by |-> by, to |-> to]]
        /\ alone' => alone /\ \A y \in Deciders : decider[y] = NoDecision
    BY <1>6, <1>0 DEF Decides, CaseTypeOK
  <2>2. decider'[x].by = by /\ \A y \in Deciders : y # x => decider'[y] = decider[y]
    BY <1>0, <2>1, DecisionWritten
  <2>3. alone' /\ by \in Sessions => verdicts[by] = 0
    BY <1>0, <2>1, <1>6 DEF SpentSession, CaseTypeOK
  <2>4. SessionDecidesOnce'
    BY <1>0, <2>1 DEF SessionDecidesOnce
  <2>5. SpentSession'
    BY <1>0, <1>6, <2>1, <2>2, <2>3 DEF SpentSession
  <2> QED
    BY <1>0, <2>1, <2>4, <2>5 DEF CaseInv
<1>7. ASSUME NEW x \in Deciders, approve_case(x) \/ reject_case(x)
      PROVE  CaseInv'
  <2>1. /\ kase'.inquiry = kase.inquiry /\ kase'.status \in {"approved", "rejected"}
        /\ identity' = identity /\ customer' = customer /\ alone' = alone
        /\ decider[x] # NoDecision /\ decider' = [decider EXCEPT ![x] = NoDecision]
        /\ Counted(decider[x].by)
    BY <1>7, <1>0 DEF approve_case, reject_case, StatusSet, Case
  <2>2. \A s \in Sessions : verdicts'[s] = verdicts[s] + IF s = decider[x].by THEN 1 ELSE 0
    BY <1>0, <2>1, CountedIs
  <2>3. /\ decider'[x] = NoDecision
        /\ \A y \in Deciders : y # x => decider'[y] = decider[y]
        /\ alone => \A y \in Deciders : decider'[y] = NoDecision
    BY <1>0, <2>1, DecisionWritten DEF SpentSession
  <2>4. alone => \A s \in Sessions : s = decider[x].by => verdicts[s] = 0
    BY <1>0, <2>1 DEF SpentSession
  <2>5. \A s \in Sessions : verdicts[s] \in Nat
    BY <1>0 DEF CaseTypeOK
  <2>6. SessionDecidesOnce'
    BY <1>0, <2>1, <2>2, <2>4, <2>5 DEF SessionDecidesOnce
  <2>7. \A s \in Sessions : verdicts'[s] > 0 => identity'[s] # "none"
    <3> SUFFICES ASSUME NEW s \in Sessions, verdicts'[s] > 0
                 PROVE  identity[s] # "none"
      BY <2>1
    <3>1. CASE s = decider[x].by
      BY <1>0, <2>1, <3>1, NoSessionAssumption DEF SpentSession
    <3>2. CASE s # decider[x].by
      BY <1>0, <2>2, <2>5, <3>2 DEF SpentSession
    <3> QED
      BY <3>1, <3>2
  <2>8. SpentSession'
    BY <1>0, <2>1, <2>3, <2>7 DEF SpentSession
  <2> QED
    BY <1>0, <2>1, <2>6, <2>8 DEF CaseInv
<1>8. ASSUME NEW x \in Deciders, decision_fails(x)
      PROVE  CaseInv'
  <2>1. /\ kase' = kase /\ verdicts' = verdicts /\ identity' = identity
        /\ customer' = customer /\ alone' = alone
        /\ decider' = [decider EXCEPT ![x] = NoDecision]
    BY <1>8 DEF decision_fails
  <2>2. \A y \in Deciders : decider'[y] # NoDecision => decider'[y] = decider[y]
    BY <1>0, <2>1, DecisionWritten
  <2>3. \A y \in Deciders : decider[y] = NoDecision => decider'[y] = NoDecision
    BY <1>0, <2>1, DecisionWritten
  <2>4. SpentSession' /\ SessionDecidesOnce'
    BY <1>0, <2>1, <2>2, <2>3 DEF SpentSession, SessionDecidesOnce
  <2> QED
    BY <1>0, <2>1, <2>4 DEF CaseInv
<1>9. CASE UNCHANGED caseVars
    BY <1>0, <1>9 DEF caseVars, CaseInv, SpentSession, SessionDecidesOnce
<1>10. ASSUME NEW x \in Deciders, NEW s \in Sessions, handle_stripe_identity_webhook(x, s)
       PROVE  CaseInv'
  <2>1. kase.inquiry = s /\ identity[s] # "none"
    BY <1>10 DEF handle_stripe_identity_webhook, Verdicts
  <2> QED
    BY <1>6, <1>10, <2>1 DEF handle_stripe_identity_webhook
<1>11. ASSUME NEW x \in Deciders, NEW to \in {"approved", "rejected"}, staff_decides(x, to)
       PROVE  CaseInv'
    BY <1>6, <1>11, NoSessionAssumption DEF staff_decides
<1> QED
    BY <1>1, <1>2, <1>3, <1>4, <1>5, <1>7, <1>8, <1>9, <1>10, <1>11 DEF CaseNext

\* No session has been opened to begin with.
LEMMA CaseBegins == CaseInit => CaseInv
  BY CaseStarts DEF CaseInit, CaseInv

\* However often Stripe delivers the outcome of a session, and whatever the sweep
\* and the customer do between a look at the case and the decision, the session
\* decides it once, as long as no two decisions overlap.
THEOREM OneVerdictPerSession == CaseSpec => []SessionDecidesOnce
<1>1. CaseInv => SessionDecidesOnce
    BY DEF CaseInv
<1> QED
    BY <1>1, CaseBegins, CaseStep, PTL DEF CaseSpec

-----------------------------------------------------------------------------
(* Risk.                                                                   *)

\* An account over the threshold is suspended, or a handler that has committed
\* its signal is still to suspend it, or has died on the way.
OverIsSuspended ==
    ~overruled /\ compute_account_risk_score >= AUTO_SUSPEND_THRESHOLD =>
        \/ \E s \in Signals : handler[s].step \in {"recorded", "crossed", "dead"}
        \/ /\ suspended
           /\ \/ risk_state = "SUSPENDED_FRAUD" \/ overwritten
              \/ \E s \in Signals : handler[s].step = "numbers"

\* The inductive invariant behind ThresholdSuspends.
RiskInv == RiskTypeOK /\ OverIsSuspended

\* The states and the transitions by name.
LEMMA StatesAre ==
    /\ States = {"TRIAL_LOW", "TRIAL_VERIFIED", "PAID_NORMAL", "REVIEW_REQUIRED",
                 "SUSPENDED_FRAUD"}
    /\ Baseline \subseteq States
    /\ \A st \in States : Rank[st] \in 0 .. 4 /\ (Rank[st] = 4 <=> st = "SUSPENDED_FRAUD")
    /\ DOMAIN Transitions = {"numbers", "opened", "confirmed", "approved", "purchased"}
    /\ \A d \in DOMAIN Transitions :
          /\ Transitions[d].to \in States
          /\ Transitions[d].next \in {"suspended", "marked", "done"}
    /\ Transitions["numbers"].to = "SUSPENDED_FRAUD"
<1>1. States = {"TRIAL_LOW", "TRIAL_VERIFIED", "PAID_NORMAL", "REVIEW_REQUIRED", "SUSPENDED_FRAUD"}
    BY DEF States, Rank
<1>2. /\ Rank["TRIAL_LOW"] = 0 /\ Rank["TRIAL_VERIFIED"] = 1 /\ Rank["PAID_NORMAL"] = 2
      /\ Rank["REVIEW_REQUIRED"] = 3 /\ Rank["SUSPENDED_FRAUD"] = 4
    BY DEF Rank
<1>3. DOMAIN Transitions = {"numbers", "opened", "confirmed", "approved", "purchased"}
    BY DEF Transitions
<1>4. /\ Transitions["numbers"] = [to |-> "SUSPENDED_FRAUD", next |-> "suspended"]
      /\ Transitions["opened"] = [to |-> "REVIEW_REQUIRED", next |-> "done"]
      /\ Transitions["confirmed"] = [to |-> "SUSPENDED_FRAUD", next |-> "marked"]
      /\ Transitions["approved"] = [to |-> "TRIAL_VERIFIED", next |-> "done"]
      /\ Transitions["purchased"] = [to |-> "PAID_NORMAL", next |-> "done"]
    BY DEF Transitions
<1> QED
    BY <1>1, <1>2, <1>3, <1>4 DEF Baseline

\* The steps by name.
LEMMA StepsAre ==
    Steps = {"new", "recorded", "crossed", "suspended", "below", "unopened", "confirming",
             "clearing", "cleared", "marked", "done", "dead",
             "numbers", "opened", "confirmed", "approved", "purchased"}
  BY StatesAre DEF Steps

\* A handler that goes on leaves the others where they are.
LEMMA OneGoesOn ==
    ASSUME RiskTypeOK, NEW a \in Signals \cup Requests, NEW j \in Handler, Continues(a, j)
    PROVE  /\ handler' \in [Signals \cup Requests -> Handler]
           /\ handler'[a] = j
           /\ \A b \in Signals \cup Requests : b # a => handler'[b] = handler[b]
  BY DEF RiskTypeOK, Continues

\* A handler that goes on is at the step it goes to.
LEMMA GoesOn ==
    ASSUME RiskTypeOK, NEW a \in Signals \cup Requests, NEW st \in Steps, Continues(a, At(st))
    PROVE  handler'[a].step = st
<1>1. At(st) \in Handler /\ At(st).step = st
    BY DEF At, Handler
<1>2. handler'[a] = At(st)
    BY <1>1, OneGoesOn
<1> QED
    BY <1>1, <1>2

\* What a handler goes on to is a step of one.
LEMMA HandlerWritten ==
    ASSUME RiskTypeOK, NEW a \in Signals \cup Requests
    PROVE  /\ handler[a] \in Handler
           /\ \A st \in Steps : At(st) \in Handler /\ At(st).step = st /\ ~At(st).ahead
           /\ \A st \in Steps, W \in SUBSET Signals :
                 /\ [At(st) EXCEPT !.cases = W] \in Handler
                 /\ [At(st) EXCEPT !.cases = W].step = st
           /\ handler[a].step \in DOMAIN Transitions =>
                 /\ [handler[a] EXCEPT !.ahead = TRUE] \in Handler
                 /\ [handler[a] EXCEPT !.ahead = TRUE].step = handler[a].step
<1>1. handler \in [Signals \cup Requests -> Handler] /\ handler[a] \in Handler
    BY DEF RiskTypeOK
<1>2. \A st \in Steps : At(st) \in Handler /\ At(st).step = st /\ ~At(st).ahead
    BY DEF At, Handler
<1>3. \A st \in Steps, W \in SUBSET Signals :
         [At(st) EXCEPT !.cases = W] \in Handler /\ [At(st) EXCEPT !.cases = W].step = st
    BY DEF At, Handler
<1>4. handler[a].step \in DOMAIN Transitions =>
         /\ [handler[a] EXCEPT !.ahead = TRUE] \in Handler
         /\ [handler[a] EXCEPT !.ahead = TRUE].step = handler[a].step
    BY <1>1 DEF Handler
<1> QED
    BY <1>1, <1>2, <1>3, <1>4

\* What a step makes of a handler is a handler.
LEMMA HandlersMove ==
    ASSUME RiskTypeOK, NEW a \in Signals \cup Requests,
           SignalStep(a) \/ RequestStep(a) \/ HandlerStep(a)
    PROVE  /\ handler' \in [Signals \cup Requests -> Handler]
           /\ \A b \in Signals \cup Requests : b # a => handler'[b] = handler[b]
<1> SUFFICES handler' = handler \/ \E j \in Handler : Continues(a, j)
    BY OneGoesOn DEF RiskTypeOK
<1>1. \A st \in Steps : Continues(a, At(st)) => \E j \in Handler : Continues(a, j)
    BY HandlerWritten
<1>2. \A st \in Steps, c \in Signals : Continues(a, [At(st) EXCEPT !.cases = {c}]) =>
                                         \E j \in Handler : Continues(a, j)
    BY HandlerWritten
<1>3. CASE SignalStep(a)
    BY <1>1, <1>2, <1>3, StepsAre
    DEF SignalStep, Goes, record_risk_signal, maybe_auto_suspend_for_risk,
        auto_resolve_open_case, open_fraud_case_if_needed, fraud_case_opened, signal_ages,
        OpenCases
<1>4. CASE RequestStep(a)
    BY <1>1, <1>2, <1>4, StepsAre
    DEF RequestStep, Goes, resolve_fraud_case, OpenCases,
        reactivate_numbers_for_account_by_staff, restore_risk_state, step_up_risk_state
<1>5. CASE transition_risk_state(a)
  <2>1. handler[a].step \in DOMAIN Transitions
    BY <1>5 DEF transition_risk_state
  <2>2. Target(a).next \in Steps
    BY <2>1, StatesAre, StepsAre DEF Target
  <2>3. [handler[a] EXCEPT !.ahead = TRUE] \in Handler
    BY <2>1, HandlerWritten
  <2> QED
    BY <1>1, <1>5, <2>2, <2>3 DEF transition_risk_state
<1>6. CASE risk_state_written(a)
  <2>1. handler[a].step \in DOMAIN Transitions
    BY <1>6, HandlerWritten DEF risk_state_written, Handler
  <2>2. Target(a).next \in Steps
    BY <2>1, StatesAre, StepsAre DEF Target
  <2> QED
    BY <1>1, <1>6, <2>2 DEF risk_state_written
<1>7. CASE suspend_numbers_for_account_by_system(a) \/ case_resolved(a) \/ handler_dies(a)
    BY <1>1, <1>7, StepsAre
    DEF Goes, suspend_numbers_for_account_by_system, case_resolved, handler_dies
<1> QED
    BY <1>3, <1>4, <1>5, <1>6, <1>7 DEF HandlerStep

\* A step keeps the types.
LEMMA RiskTypeStep ==
    ASSUME RiskTypeOK, [RiskNext]_riskVars
    PROVE  RiskTypeOK'
<1>0. /\ window \subseteq Signals /\ handler \in [Signals \cup Requests -> Handler]
      /\ fraud_case \in [Signals -> {"none", "open"} \cup Resolutions]
      /\ risk_state \in States
      /\ suspended \in BOOLEAN /\ overruled \in BOOLEAN /\ overwritten \in BOOLEAN
    BY DEF RiskTypeOK
<1>1. ASSUME NEW a \in Signals \cup Requests, SignalStep(a) \/ RequestStep(a) \/ HandlerStep(a)
      PROVE  handler' \in [Signals \cup Requests -> Handler]
    BY <1>1, HandlersMove
<1>2. ASSUME NEW s \in Signals, SignalStep(s)
      PROVE  RiskTypeOK'
  <2>1. /\ window' \subseteq Signals /\ overruled' \in BOOLEAN
        /\ UNCHANGED <<risk_state, suspended, overwritten>>
    BY <1>0, <1>2
    DEF SignalStep, record_risk_signal, maybe_auto_suspend_for_risk, accountState,
        auto_resolve_open_case, open_fraud_case_if_needed, fraud_case_opened, signal_ages
  <2>2. fraud_case' \in [Signals -> {"none", "open"} \cup Resolutions]
    BY <1>0, <1>2
    DEF SignalStep, record_risk_signal, maybe_auto_suspend_for_risk,
        auto_resolve_open_case, open_fraud_case_if_needed, fraud_case_opened, signal_ages
  <2> QED
    BY <1>0, <1>1, <1>2, <2>1, <2>2 DEF RiskTypeOK
<1>3. ASSUME NEW r \in Requests, RequestStep(r)
      PROVE  RiskTypeOK'
  <2>1. /\ window' = window /\ fraud_case' = fraud_case /\ risk_state' \in States
        /\ suspended' \in BOOLEAN /\ overruled' \in BOOLEAN /\ overwritten' \in BOOLEAN
    BY <1>0, <1>3, StatesAre
    DEF RequestStep, resolve_fraud_case, reactivate_numbers_for_account_by_staff,
        restore_risk_state, step_up_risk_state, ForceSet, accountState
  <2> QED
    BY <1>0, <1>1, <1>3, <2>1 DEF RiskTypeOK
<1>4. ASSUME NEW a \in Signals \cup Requests, HandlerStep(a)
      PROVE  RiskTypeOK'
  <2>1. /\ window' = window
        /\ suspended' \in BOOLEAN /\ overruled' \in BOOLEAN /\ overwritten' \in BOOLEAN
    BY <1>0, <1>4
    DEF HandlerStep, transition_risk_state, risk_state_written, case_resolved, handler_dies,
        suspend_numbers_for_account_by_system, accountState
  <2>2. fraud_case' \in [Signals -> {"none", "open"} \cup Resolutions]
    BY <1>0, <1>4
    DEF HandlerStep, transition_risk_state, risk_state_written, case_resolved, handler_dies,
        suspend_numbers_for_account_by_system, CasesResolved, Resolutions
  <2>3. risk_state' \in States
    <3>1. CASE risk_state_written(a)
      <4>1. handler[a].step \in DOMAIN Transitions
        BY <3>1, HandlerWritten DEF risk_state_written, Handler
      <4> QED
        BY <3>1, <4>1, StatesAre DEF risk_state_written, Target
    <3>2. CASE ~risk_state_written(a)
      BY <1>0, <1>4, <3>2
      DEF HandlerStep, transition_risk_state, case_resolved, handler_dies,
          suspend_numbers_for_account_by_system, accountState
    <3> QED
      BY <3>1, <3>2
  <2> QED
    BY <1>0, <1>1, <1>4, <2>1, <2>2, <2>3 DEF RiskTypeOK
<1>5. CASE \E state \in States : set_account_risk_state(state)
    BY <1>0, <1>5 DEF set_account_risk_state, ForceSet, RiskTypeOK
<1>6. CASE UNCHANGED riskVars
    BY <1>0, <1>6 DEF riskVars, RiskTypeOK
<1> QED
    BY <1>2, <1>3, <1>4, <1>5, <1>6 DEF RiskNext

\* Nothing has been recorded to begin with.
LEMMA RiskStarts == RiskInit => RiskTypeOK
<1> SUFFICES ASSUME RiskInit PROVE RiskTypeOK
    OBVIOUS
<1>1. At("new") \in Handler /\ At("done") \in Handler
    BY StepsAre DEF At, Handler
<1>2. handler \in [Signals \cup Requests -> Handler]
    BY <1>1 DEF RiskInit
<1> QED
    BY <1>2, StatesAre DEF RiskInit, RiskTypeOK

\* The types of the signals, their cases and the account's risk.
THEOREM RiskTypeCorrect == RiskSpec => []RiskTypeOK
  BY RiskStarts, RiskTypeStep, PTL DEF RiskSpec

\* Ageing lowers the score.
LEMMA ScoreFalls ==
    ASSUME RiskTypeOK, window' \subseteq window,
           (compute_account_risk_score >= AUTO_SUSPEND_THRESHOLD)'
    PROVE  compute_account_risk_score >= AUTO_SUSPEND_THRESHOLD
<1>1. window \in SUBSET Signals /\ window' \in SUBSET window /\ window' \in SUBSET Signals
    BY DEF RiskTypeOK
<1>2. Score[window'] <= Score[window] /\ Score[window'] \in Nat /\ Score[window] \in Nat
    BY <1>1, ScoreAssumption
<1> QED
    BY <1>2, ScoreAssumption DEF compute_account_risk_score

\* A step that leaves the numbers suspended and no signal's suspension undone
\* keeps an account over the threshold suspended, whatever it writes to the
\* account's risk state.
LEMMA SuspendedStays ==
    ASSUME RiskInv, UNCHANGED window, UNCHANGED overruled, suspended => suspended',
           \A s \in Signals : handler[s].step \in {"recorded", "crossed", "dead"} =>
                                 handler'[s].step \in {"recorded", "crossed", "dead"},
           risk_state = "SUSPENDED_FRAUD" \/ overwritten
              => risk_state' = "SUSPENDED_FRAUD" \/ overwritten',
           \A s \in Signals : handler[s].step = "numbers" =>
              \/ handler'[s].step \in {"numbers", "dead"}
              \/ risk_state' = "SUSPENDED_FRAUD"
    PROVE  OverIsSuspended'
<1>1. compute_account_risk_score' = compute_account_risk_score
    BY DEF compute_account_risk_score
<1>2. CASE \E s \in Signals : handler[s].step \in {"recorded", "crossed", "dead"}
    BY <1>2 DEF OverIsSuspended
<1>3. CASE suspended /\ (risk_state = "SUSPENDED_FRAUD" \/ overwritten)
    BY <1>3 DEF OverIsSuspended
<1>4. CASE suspended /\ \E s \in Signals : handler[s].step = "numbers"
    BY <1>4 DEF OverIsSuspended
<1> QED
    BY <1>1, <1>2, <1>3, <1>4 DEF OverIsSuspended, RiskInv

\* A signal's step.
LEMMA SignalKeeps ==
    ASSUME RiskInv, NEW s \in Signals, SignalStep(s)
    PROVE  OverIsSuspended'
<1>0. RiskTypeOK /\ OverIsSuspended
    BY DEF RiskInv
<1>1. \A st \in Steps : Continues(s, At(st)) => handler'[s].step = st
    BY <1>0, GoesOn
<1>2. CASE record_risk_signal(s)
  <2>1. handler'[s].step = "recorded"
    BY <1>1, <1>2, StepsAre DEF record_risk_signal, Goes
  <2> QED
    BY <2>1 DEF OverIsSuspended
<1>3. CASE maybe_auto_suspend_for_risk(s)
  <2>1. /\ UNCHANGED <<window, overruled, suspended, risk_state, overwritten>>
        /\ handler[s].step = "recorded"
        /\ handler'[s].step = IF Crossed(s) THEN "crossed" ELSE "below"
    BY <1>1, <1>3, StepsAre DEF maybe_auto_suspend_for_risk, Goes, accountState
  <2> QED
    BY <2>1 DEF OverIsSuspended, Crossed, compute_account_risk_score
<1>4. CASE auto_resolve_open_case(s) \/ open_fraud_case_if_needed(s) \/ fraud_case_opened(s)
  <2>1. /\ UNCHANGED <<window, overruled, suspended, risk_state, overwritten>>
        /\ handler[s].step \in {"suspended", "below", "unopened"}
    BY <1>4
    DEF auto_resolve_open_case, open_fraud_case_if_needed, fraud_case_opened, Goes, accountState
  <2>2. \A t \in Signals : t # s => handler'[t] = handler[t]
    BY <1>0, HandlersMove
  <2> QED
    BY <2>1, <2>2, SuspendedStays
<1>5. CASE signal_ages(s)
  <2>1. /\ window' \subseteq window
        /\ UNCHANGED <<overruled, suspended, risk_state, overwritten, handler>>
    BY <1>5 DEF signal_ages, accountState
  <2>2. (compute_account_risk_score >= AUTO_SUSPEND_THRESHOLD)' =>
            compute_account_risk_score >= AUTO_SUSPEND_THRESHOLD
    BY <1>0, <2>1, ScoreFalls
  <2> QED
    BY <1>0, <2>1, <2>2 DEF OverIsSuspended
<1> QED
    BY <1>2, <1>3, <1>4, <1>5 DEF SignalStep

\* A step of staff, or of an account that steps up.
LEMMA RequestKeeps ==
    ASSUME RiskInv, NEW r \in Requests, RequestStep(r)
    PROVE  OverIsSuspended'
<1>0. RiskTypeOK
    BY DEF RiskInv
<1>1. CASE reactivate_numbers_for_account_by_staff(r) \/ restore_risk_state(r)
    BY <1>1
    DEF reactivate_numbers_for_account_by_staff, restore_risk_state, ForceSet, OverIsSuspended
<1>2. CASE \/ \E c \in Signals, status \in Resolutions : resolve_fraud_case(r, c, status)
           \/ step_up_risk_state(r)
  <2>1. /\ UNCHANGED <<window, overruled, suspended, risk_state, overwritten>>
        /\ handler[r].step = "done"
    BY <1>2 DEF resolve_fraud_case, step_up_risk_state, Goes, accountState
  <2>2. \A t \in Signals : t # r => handler'[t] = handler[t]
    BY <1>0, HandlersMove
  <2>3. \A t \in Signals :
           handler[t].step \in {"recorded", "crossed", "dead", "numbers"} => handler'[t] = handler[t]
    BY <2>1, <2>2
  <2>4. /\ suspended => suspended'
        /\ risk_state = "SUSPENDED_FRAUD" \/ overwritten
              => risk_state' = "SUSPENDED_FRAUD" \/ overwritten'
    BY <2>1
  <2> QED
    BY <2>1, <2>3, <2>4, SuspendedStays
<1> QED
    BY <1>1, <1>2 DEF RequestStep

\* A step that the handlers of signals and the requests have in common.
LEMMA HandlerKeeps ==
    ASSUME RiskInv, NEW a \in Signals \cup Requests, HandlerStep(a)
    PROVE  OverIsSuspended'
<1>0. RiskTypeOK /\ risk_state \in States
    BY DEF RiskInv, RiskTypeOK
<1>1. \A t \in Signals : t # a => handler'[t] = handler[t]
    BY <1>0, HandlersMove
<1>2. \A st \in Steps : Continues(a, At(st)) => handler'[a].step = st
    BY <1>0, GoesOn
<1>3. CASE transition_risk_state(a)
  <2>1. /\ UNCHANGED <<window, overruled, suspended, risk_state, overwritten>>
        /\ handler[a].step \in DOMAIN Transitions
    BY <1>3 DEF transition_risk_state, accountState
  <2>2. CASE Rank[Target(a).to] > Rank[risk_state]
    <3>1. Continues(a, [handler[a] EXCEPT !.ahead = TRUE])
      BY <1>3, <2>2 DEF transition_risk_state
    <3>2. handler'[a] = [handler[a] EXCEPT !.ahead = TRUE]
      BY <1>0, <2>1, <3>1, HandlerWritten, OneGoesOn
    <3>3. handler'[a].step = handler[a].step
      BY <1>0, <2>1, <3>2, HandlerWritten
    <3> QED
      BY <1>1, <2>1, <3>3, SuspendedStays
  <2>3. CASE ~(Rank[Target(a).to] > Rank[risk_state])
    <3>1. handler[a].step = "numbers" => risk_state = "SUSPENDED_FRAUD"
      BY <1>0, <2>3, StatesAre DEF Target
    <3>2. handler[a].step \notin {"recorded", "crossed", "dead"}
      BY <2>1, StatesAre
    <3> QED
      BY <1>1, <2>1, <3>1, <3>2, SuspendedStays
  <2> QED
    BY <2>2, <2>3
<1>4. CASE risk_state_written(a)
  <2>1. handler[a].step \in DOMAIN Transitions
    BY <1>0, <1>4, HandlerWritten DEF risk_state_written, Handler
  <2>2. /\ UNCHANGED <<window, overruled, suspended>>
        /\ risk_state' = Target(a).to /\ Target(a).to \in States
        /\ overwritten' = (\/ Rank[risk_state] > Rank[Target(a).to]
                           \/ overwritten /\ Target(a).to # "SUSPENDED_FRAUD")
    BY <1>4, <2>1, StatesAre DEF risk_state_written, Target
  <2>3. risk_state = "SUSPENDED_FRAUD" \/ overwritten
           => risk_state' = "SUSPENDED_FRAUD" \/ overwritten'
    BY <1>0, <2>2, StatesAre
  <2>4. handler[a].step = "numbers" => risk_state' = "SUSPENDED_FRAUD"
    BY <2>2, StatesAre DEF Target
  <2>5. handler[a].step \notin {"recorded", "crossed", "dead"}
    BY <2>1, StatesAre
  <2> QED
    BY <1>1, <2>2, <2>3, <2>4, <2>5, SuspendedStays
<1>5. CASE suspend_numbers_for_account_by_system(a)
  <2>1. UNCHANGED <<window, overruled, risk_state, overwritten>> /\ suspended'
    BY <1>5 DEF suspend_numbers_for_account_by_system
  <2>2. CASE a \in Signals /\ handler[a].step = "crossed"
    <3>1. handler'[a].step = "numbers"
      BY <1>2, <1>5, <2>2, StepsAre DEF suspend_numbers_for_account_by_system, Goes
    <3> QED
      BY <2>1, <2>2, <3>1 DEF OverIsSuspended
  <2>3. CASE ~(a \in Signals /\ handler[a].step = "crossed")
    <3>1. a \in Signals => handler[a].step = "marked"
      BY <1>5, <2>3 DEF suspend_numbers_for_account_by_system, Goes
    <3> QED
      BY <1>1, <2>1, <3>1, SuspendedStays
  <2> QED
    BY <2>2, <2>3
<1>6. CASE case_resolved(a)
  <2>1. /\ UNCHANGED <<window, overruled, suspended, risk_state, overwritten>>
        /\ handler[a].step \in {"confirming", "clearing"}
    BY <1>6 DEF case_resolved, Goes, accountState
  <2> QED
    BY <1>1, <2>1, SuspendedStays
<1>7. CASE handler_dies(a)
  <2>1. UNCHANGED <<window, overruled, suspended, risk_state, overwritten>>
    BY <1>7 DEF handler_dies, accountState
  <2>2. a \in Signals => handler'[a].step = "dead"
    BY <1>2, <1>7, StepsAre DEF handler_dies
  <2> QED
    BY <1>1, <2>1, <2>2, SuspendedStays
<1> QED
    BY <1>3, <1>4, <1>5, <1>6, <1>7 DEF HandlerStep

\* A step of anybody.
LEMMA RiskStep == RiskInv /\ [RiskNext]_riskVars => RiskInv'
<1> SUFFICES ASSUME RiskInv, [RiskNext]_riskVars PROVE RiskInv'
    OBVIOUS
<1>0. RiskTypeOK'
    BY RiskTypeStep DEF RiskInv
<1>1. CASE \E state \in States : set_account_risk_state(state)
    BY <1>0, <1>1 DEF set_account_risk_state, ForceSet, RiskInv, OverIsSuspended
<1>2. CASE UNCHANGED riskVars
    BY <1>0, <1>2 DEF riskVars, RiskInv, OverIsSuspended, compute_account_risk_score
<1> QED
    BY <1>0, <1>1, <1>2, SignalKeeps, RequestKeeps, HandlerKeeps DEF RiskNext, RiskInv

\* Nothing counts against the account to begin with.
LEMMA RiskBegins == RiskInit => RiskInv
<1> SUFFICES ASSUME RiskInit PROVE OverIsSuspended
    BY RiskStarts DEF RiskInv
<1>1. compute_account_risk_score = 0
    BY ScoreAssumption DEF RiskInit, compute_account_risk_score
<1> QED
    BY <1>1, ScoreAssumption DEF OverIsSuspended

\* However many signals cross the threshold together, and whatever cases are
\* opened, resolved and lost on the way, an account over it is suspended once its
\* signals have been handled, unless staff decided otherwise: its numbers are, and
\* its risk state is unless a transition that had read it earlier overwrote it.
THEOREM RiskyAccountsAreSuspended == RiskSpec => []ThresholdSuspends
<1>1. RiskInv => ThresholdSuspends
    BY DEF RiskInv, OverIsSuspended, ThresholdSuspends, SignalHandled
<1> QED
    BY <1>1, RiskBegins, RiskStep, PTL DEF RiskSpec

-----------------------------------------------------------------------------
(* Retention and erasure.                                                  *)

\* What a purge can be.
Purge == [op : {"none", "sweep", "erase", "erase_call"},
          left : SUBSET Recordings, hand : SUBSET Recordings]

\* A purge that begins or goes on is a purge.
LEMMA PurgeWritten ==
    ASSUME RetentionTypeOK, NEW p \in Purgers
    PROVE  /\ purge[p] \in Purge
           /\ \A x \in Purge : [purge EXCEPT ![p] = x] \in [Purgers -> Purge]
           /\ \A op, L, H :
                 /\ [op |-> op, left |-> L, hand |-> H] \in Purge
                 /\ Purging(p, op, L, H)
                 => purge' \in [Purgers -> Purge]
           /\ \A op \in {"none", "sweep", "erase", "erase_call"},
                 L \in SUBSET Recordings, H \in SUBSET Recordings :
                 [op |-> op, left |-> L, hand |-> H] \in Purge
<1>1. purge \in [Purgers -> Purge]
    BY DEF RetentionTypeOK, Purge
<1>2. \A x \in Purge : [purge EXCEPT ![p] = x] \in [Purgers -> Purge]
    BY <1>1
<1>3. \A op \in {"none", "sweep", "erase", "erase_call"},
         L \in SUBSET Recordings, H \in SUBSET Recordings :
         [op |-> op, left |-> L, hand |-> H] \in Purge
    BY DEF Purge
<1> QED
    BY <1>1, <1>2, <1>3 DEF Purging

\* A recording that is linked or deleted.
LEMMA RowWritten ==
    ASSUME RetentionTypeOK, NEW r \in Recordings
    PROVE  /\ \A l \in {"none", "url"} \cup Markers :
                 [link EXCEPT ![r] = l] \in [Recordings -> {"none", "url"} \cup Markers]
           /\ [media EXCEPT ![r] = "deleted"] \in [Recordings -> {"kept", "deleted"}]
  BY DEF RetentionTypeOK

\* A step keeps the types.
LEMMA RetentionTypeStep ==
    ASSUME RetentionTypeOK, [RetentionNext]_retentionVars
    PROVE  RetentionTypeOK'
<1>1. ASSUME NEW on \in BOOLEAN, set_account_legal_hold(on)
      PROVE  RetentionTypeOK'
    BY <1>1 DEF set_account_legal_hold, RetentionTypeOK, Kept, Purge
<1>2. CASE create_erasure_request \/ reject_erasure_request
    BY <1>2 DEF create_erasure_request, reject_erasure_request, RetentionTypeOK
<1>3. ASSUME NEW r \in Recordings, record_call_recording(r)
      PROVE  RetentionTypeOK'
    BY <1>3, RowWritten DEF record_call_recording, RetentionTypeOK
<1>4. ASSUME NEW p \in Purgers,
             \/ purge_expired_recordings(p) \/ erase_account_data(p) \/ sweep_ends(p)
             \/ resolve_erasure_request(p) \/ purger_dies(p)
      PROVE  RetentionTypeOK'
  <2>1. Selected \in SUBSET Recordings
    BY DEF Selected
  <2>2. purge' \in [Purgers -> Purge]
    BY <1>4, <2>1, PurgeWritten
    DEF purge_expired_recordings, erase_account_data, sweep_ends, resolve_erasure_request,
        purger_dies
  <2> QED
    BY <1>4, <2>2
    DEF purge_expired_recordings, erase_account_data, sweep_ends, resolve_erasure_request,
        purger_dies, RetentionTypeOK, Purge
<1>5. ASSUME NEW p \in Purgers, NEW r \in Recordings, erase_single_call_content(p, r)
      PROVE  RetentionTypeOK'
  <2>1. purge' \in [Purgers -> Purge]
    BY <1>5, PurgeWritten DEF erase_single_call_content
  <2> QED
    BY <1>5, <2>1 DEF erase_single_call_content, RetentionTypeOK, Purge
<1>6. ASSUME NEW p \in Purgers, NEW r \in Recordings, NEW expired \in BOOLEAN,
             _purge_call_recordings(p, r, expired)
      PROVE  RetentionTypeOK'
  <2>1. purge[p] \in Purge
    BY PurgeWritten
  <2>2. purge[p].left \ {r} \in SUBSET Recordings
    BY <2>1 DEF Purge
  <2>3. \E H \in SUBSET Recordings : Purging(p, purge[p].op, purge[p].left \ {r}, H)
    BY <1>6 DEF _purge_call_recordings
  <2>4. purge[p].op \in {"none", "sweep", "erase", "erase_call"}
    BY <2>1 DEF Purge
  <2>5. purge' \in [Purgers -> Purge]
    BY <2>2, <2>3, <2>4, PurgeWritten
  <2> QED
    BY <1>6, <2>5 DEF _purge_call_recordings, RetentionTypeOK, Purge
<1>7. ASSUME NEW p \in Purgers, NEW r \in Recordings,
             delete_recording(p, r) \/ delete_fails(p, r)
      PROVE  RetentionTypeOK'
  <2>1. purge[p] \in Purge
    BY PurgeWritten
  <2>2. purge' \in [Purgers -> Purge]
    <3>1. NextRow(p)
      BY <1>7 DEF delete_recording, delete_fails
    <3>2. \E op \in {"none", "sweep", "erase", "erase_call"} :
              Purging(p, op, purge[p].left, {})
      BY <2>1, <3>1 DEF NextRow, Purge
    <3>3. purge[p].left \in SUBSET Recordings
      BY <2>1 DEF Purge
    <3> QED
      BY <3>2, <3>3, PurgeWritten
  <2>3. /\ link' \in [Recordings -> {"none", "url"} \cup Markers]
        /\ media' \in [Recordings -> {"kept", "deleted"}]
    BY <1>7, RowWritten DEF delete_recording, delete_fails, RetentionTypeOK, Markers
  <2> QED
    BY <1>7, <2>2, <2>3 DEF delete_recording, delete_fails, RetentionTypeOK, Purge
<1>8. CASE UNCHANGED retentionVars
    BY <1>8 DEF retentionVars, RetentionTypeOK
<1> QED
    BY <1>1, <1>2, <1>3, <1>4, <1>5, <1>6, <1>7, <1>8 DEF RetentionNext

\* At first nobody purges, and the types are right.
LEMMA RetentionStarts == RetentionInit => RetentionTypeOK /\ purge = [p \in Purgers |-> AtRest]
<1> SUFFICES ASSUME RetentionInit
             PROVE  RetentionTypeOK /\ purge = [p \in Purgers |-> AtRest]
    OBVIOUS
<1>1. AtRest \in Purge
    BY DEF AtRest, Purge
<1>2. purge = [p \in Purgers |-> AtRest] /\ purge \in [Purgers -> Purge]
    BY <1>1 DEF RetentionInit
<1> QED
    BY <1>2 DEF RetentionInit, RetentionTypeOK, Purge

\* The types of the rows, the hold, the requests and the purges.
THEOREM RetentionTypeCorrect == RetentionSpec => []RetentionTypeOK
<1>1. RetentionInit => RetentionTypeOK
    BY RetentionStarts
<1> QED
    BY <1>1, RetentionTypeStep, PTL DEF RetentionSpec

\* Why the evidence stays: there is none without a hold, and under one nothing
\* of it comes into anybody's hands.
EvidenceAtRest ==
    /\ RetentionTypeOK
    /\ evidence \subseteq Kept
    /\ hold \/ evidence = {}
    /\ \A p \in Purgers : purge[p].hand \cap evidence = {}

\* What a purger that goes on has in its hands afterwards, and nobody else.
LEMMA HandsOf ==
    ASSUME RetentionTypeOK, NEW p \in Purgers, NEW op, NEW L, NEW H, Purging(p, op, L, H),
           NEW q \in Purgers
    PROVE  purge'[q].hand = IF q = p THEN H ELSE purge[q].hand
  BY DEF RetentionTypeOK, Purging

\* A step keeps the evidence out of everybody's hands.
LEMMA EvidenceStep ==
    ASSUME EvidenceAtRest, [RetentionNext]_retentionVars
    PROVE  EvidenceAtRest'
<1>0. RetentionTypeOK /\ RetentionTypeOK'
    BY RetentionTypeStep DEF EvidenceAtRest
<1>1. ASSUME NEW on \in BOOLEAN, set_account_legal_hold(on)
      PROVE  EvidenceAtRest'
  <2>1. Kept' = Kept /\ purge' = purge
    BY <1>1 DEF set_account_legal_hold, Kept
  <2>2. \A p \in Purgers : purge[p].hand \cap (Kept \ InHand) = {}
    BY DEF InHand
  <2> QED
    BY <1>0, <1>1, <2>1, <2>2 DEF set_account_legal_hold, EvidenceAtRest
<1>2. CASE create_erasure_request \/ reject_erasure_request
    BY <1>0, <1>2 DEF create_erasure_request, reject_erasure_request, EvidenceAtRest, Kept
<1>3. ASSUME NEW r \in Recordings, record_call_recording(r)
      PROVE  EvidenceAtRest'
    BY <1>0, <1>3 DEF record_call_recording, EvidenceAtRest, Kept
<1>4. ASSUME NEW p \in Purgers,
             \/ purge_expired_recordings(p) \/ erase_account_data(p) \/ sweep_ends(p)
             \/ resolve_erasure_request(p) \/ purger_dies(p)
      PROVE  EvidenceAtRest'
  <2>1. /\ Kept' = Kept /\ evidence' = evidence /\ hold' = hold
        /\ \E op, L : Purging(p, op, L, {})
    BY <1>4
    DEF purge_expired_recordings, erase_account_data, sweep_ends, resolve_erasure_request,
        purger_dies, Kept
  <2>2. \A q \in Purgers : purge'[q].hand \in {{}, purge[q].hand}
    BY <1>0, <2>1, HandsOf
  <2> QED
    BY <1>0, <2>1, <2>2 DEF EvidenceAtRest
<1>5. ASSUME NEW p \in Purgers, NEW r \in Recordings, erase_single_call_content(p, r)
      PROVE  EvidenceAtRest'
  <2>1. evidence = {} /\ evidence' = evidence /\ hold' = hold /\ Kept' = Kept
    BY <1>5 DEF erase_single_call_content, EvidenceAtRest, Kept
  <2> QED
    BY <1>0, <2>1 DEF EvidenceAtRest
<1>6. ASSUME NEW p \in Purgers, NEW r \in Recordings, NEW expired \in BOOLEAN,
             _purge_call_recordings(p, r, expired)
      PROVE  EvidenceAtRest'
  <2>1. evidence' = evidence /\ hold' = hold /\ Kept' = Kept
    BY <1>6 DEF _purge_call_recordings, Kept
  <2>2. CASE hold
    <3>1. \E op, L : Purging(p, op, L, {})
      BY <1>6, <2>2 DEF _purge_call_recordings, MayPurge
    <3>2. \A q \in Purgers : purge'[q].hand \in {{}, purge[q].hand}
      BY <1>0, <3>1, HandsOf
    <3> QED
      BY <1>0, <2>1, <3>2 DEF EvidenceAtRest
  <2>3. CASE evidence = {}
    BY <1>0, <2>1, <2>3 DEF EvidenceAtRest
  <2> QED
    BY <2>2, <2>3 DEF EvidenceAtRest
<1>7. ASSUME NEW p \in Purgers, NEW r \in Recordings,
             delete_recording(p, r) \/ delete_fails(p, r)
      PROVE  EvidenceAtRest'
  <2>1. r \in purge[p].hand /\ evidence' = evidence /\ hold' = hold
    BY <1>7 DEF delete_recording, delete_fails
  <2>2. r \notin evidence
    BY <2>1 DEF EvidenceAtRest
  <2>3. Kept \ {r} \subseteq Kept'
    BY <1>0, <1>7 DEF delete_recording, delete_fails, Kept, RetentionTypeOK
  <2>4. \E op, L : Purging(p, op, L, {})
    BY <1>7 DEF delete_recording, delete_fails, NextRow
  <2>5. \A q \in Purgers : purge'[q].hand \in {{}, purge[q].hand}
    BY <1>0, <2>4, HandsOf
  <2> QED
    BY <1>0, <2>1, <2>2, <2>3, <2>5 DEF EvidenceAtRest
<1>8. CASE UNCHANGED retentionVars
    BY <1>0, <1>8 DEF retentionVars, EvidenceAtRest, Kept
<1> QED
    BY <1>1, <1>2, <1>3, <1>4, <1>5, <1>6, <1>7, <1>8 DEF RetentionNext

\* There is no evidence, and nobody purges, to begin with.
LEMMA EvidenceBegins == RetentionInit => EvidenceAtRest
  BY RetentionStarts DEF RetentionInit, AtRest, EvidenceAtRest, Kept

\* A legal hold keeps what was recorded when it was set, whatever sweeps and
\* erasures were under way.
THEOREM HoldIsKept == RetentionSpec => []HoldKeepsEvidence
<1>1. EvidenceAtRest => HoldKeepsEvidence
    BY DEF EvidenceAtRest, HoldKeepsEvidence
<1> QED
    BY <1>1, EvidenceBegins, EvidenceStep, PTL DEF RetentionSpec
=============================================================================
