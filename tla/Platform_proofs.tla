--------------------------- MODULE Platform_proofs ---------------------------
(***************************************************************************)
(* What holds of every instance of the components whose other properties   *)
(* are about what happens in the end (video, eligibility, the breaker,     *)
(* identity, notifications), and the types of all components together.     *)
(***************************************************************************)
EXTENDS
    MCPlatform, CallQueue_proofs, Records_proofs, Routing_proofs, Trust_proofs, TLAPS

-----------------------------------------------------------------------------
(* The breaker.                                                            *)

\* A breaker that is closed has counted less than the threshold, one that is not
\* has counted up to it, and only one that has opened can have rested.
OpensAtThreshold ==
    /\ breaker.state = "closed" => breaker.failures < FAILURE_THRESHOLD /\ ~breaker.rested
    /\ breaker.state # "closed" => breaker.failures = FAILURE_THRESHOLD

BreakerInv == BreakerTypeOK /\ OpensAtThreshold

\* Whatever a thread, the status page or the clock makes of the breaker.
LEMMA BreakerWritten ==
    ASSUME BreakerInv,
           \/ breaker' = breaker \/ breaker' = Read
           \/ breaker' = record_success \/ breaker' = record_failure
           \/ breaker.state = "open" /\ breaker' = [breaker EXCEPT !.rested = TRUE]
    PROVE  /\ breaker' \in [state : {"closed", "open", "half_open"},
                            failures : 0..FAILURE_THRESHOLD, rested : BOOLEAN]
           /\ OpensAtThreshold'
<1>0. /\ breaker.state \in {"closed", "open", "half_open"}
      /\ breaker.failures \in 0..FAILURE_THRESHOLD /\ breaker.rested \in BOOLEAN
      /\ FAILURE_THRESHOLD \in Nat \ {0}
      /\ breaker \in [state : {"closed", "open", "half_open"},
                      failures : 0..FAILURE_THRESHOLD, rested : BOOLEAN]
      /\ OpensAtThreshold
    BY ThresholdAssumption DEF BreakerInv, BreakerTypeOK
<1>1. CASE breaker' = breaker
    BY <1>0, <1>1 DEF OpensAtThreshold
<1>2. CASE breaker' = Read
    BY <1>0, <1>2 DEF Read, OpensAtThreshold
<1>3. CASE breaker' = record_success
    BY <1>0, <1>3 DEF record_success, Closed, OpensAtThreshold
<1>4. CASE breaker' = record_failure
    BY <1>0, <1>4 DEF record_failure, OpensAtThreshold
<1>5. CASE breaker.state = "open" /\ breaker' = [breaker EXCEPT !.rested = TRUE]
    BY <1>0, <1>5 DEF OpensAtThreshold
<1> QED
    BY <1>1, <1>2, <1>3, <1>4, <1>5

\* A step keeps it.
LEMMA BreakerStep == BreakerInv /\ [BreakerNext]_breakerVars => BreakerInv'
<1> SUFFICES ASSUME BreakerInv, [BreakerNext]_breakerVars PROVE BreakerInv'
    OBVIOUS
<1>1. \/ breaker' = breaker \/ breaker' = Read
      \/ breaker' = record_success \/ breaker' = record_failure
      \/ breaker.state = "open" /\ breaker' = [breaker EXCEPT !.rested = TRUE]
    BY DEF BreakerNext, breakerVars, with_failover, primary_answers, primary_fails,
           primary_refuses, state_shown, breaker_rests, health_changes
<1>2. attempt' \in [Threads -> SUBSET BOOLEAN] /\ up' \in BOOLEAN
  <2>1. attempt \in [Threads -> SUBSET BOOLEAN] /\ up \in BOOLEAN
    BY DEF BreakerInv, BreakerTypeOK
  <2>2. CASE health_changes
    BY <2>1, <2>2 DEF health_changes
  <2>3. ASSUME NEW t \in Threads, with_failover(t)
        PROVE  attempt' \in [Threads -> SUBSET BOOLEAN] /\ up' \in BOOLEAN
    BY <2>1, <2>3 DEF with_failover
  <2> QED
    BY <2>1, <2>2, <2>3
    DEF BreakerNext, breakerVars, primary_answers, primary_fails, primary_refuses,
        state_shown, breaker_rests
<1> QED
    BY <1>1, <1>2, BreakerWritten DEF BreakerInv, BreakerTypeOK

\* The breaker is closed to begin with.
LEMMA BreakerStarts == BreakerInit => BreakerInv
  BY ThresholdAssumption
  DEF BreakerInit, BreakerInv, BreakerTypeOK, Closed, OpensAtThreshold

\* Nothing but a count up to the threshold opens a breaker, and none that is
\* closed has one, whatever late answers the threads bring.
THEOREM BreakerCounts == BreakerSpec => []OpensAtThreshold
<1>1. BreakerInv => OpensAtThreshold
    BY DEF BreakerInv
<1> QED
    BY <1>1, BreakerStarts, BreakerStep, PTL DEF BreakerSpec
-----------------------------------------------------------------------------
(* Eligibility.                                                            *)

Submitted == {"review"} \cup Decisions
Answer == {Unasked} \cup [read : Row, answer : Submitted]

\* The case names only a bundle that has been submitted for review, a submission
\* under way has made its bundle, and only what was decided is called back.
NamesSubmittedBundle ==
    /\ filed.sid # NoBundle => bundle[filed.sid] \in Submitted
    /\ submitting # NoBundle => bundle[submitting] # "none"
    /\ pushed \subseteq {b \in Bundles : bundle[b] \in Decisions}

EligibilityInv == EligibilityTypeOK /\ NamesSubmittedBundle

\* A row that is changed is a row.
LEMMA FiledWritten ==
    ASSUME EligibilityTypeOK
    PROVE  /\ filed \in Row
           /\ \A st \in {"none", "pending"} \cup Decisions : [filed EXCEPT !.status = st] \in Row
           /\ [filed EXCEPT !.document = TRUE] \in Row
           /\ \A b \in Bundles : [filed EXCEPT !.sid = b, !.bundle_status = "review"] \in Row
           /\ \A st \in {"none", "pending"} \cup Decisions,
                 bs \in {"none", "review"} \cup Decisions :
                 /\ [filed EXCEPT !.bundle_status = bs, !.status = st] \in Row
                 /\ [filed EXCEPT !.bundle_status = bs, !.status = st].sid = filed.sid
           /\ \A st : [filed EXCEPT !.status = st].sid = filed.sid
           /\ [filed EXCEPT !.document = TRUE].sid = filed.sid
           /\ \A b \in Bundles : [filed EXCEPT !.sid = b, !.bundle_status = "review"].sid = b
  BY DEF EligibilityTypeOK, Row

\* An asker that learns something learns it of a submitted bundle.
LEMMA AskedWritten ==
    ASSUME EligibilityInv, NEW a \in Askers
    PROVE  /\ Learns(a) /\ filed.sid # NoBundle => asked' \in [Askers -> Answer]
           /\ asked' = [asked EXCEPT ![a] = Unasked] => asked' \in [Askers -> Answer]
           /\ asked[a] \in Answer
<1>1. asked \in [Askers -> Answer] /\ filed \in Row
    BY FiledWritten DEF EligibilityInv, EligibilityTypeOK, Answer, Submitted
<1>2. filed.sid # NoBundle => [read |-> filed, answer |-> bundle[filed.sid]] \in Answer
    BY <1>1 DEF EligibilityInv, NamesSubmittedBundle, Answer
<1>3. Unasked \in Answer
    BY DEF Answer
<1> QED
    BY <1>1, <1>2, <1>3 DEF Learns

\* Bundles only go forward.
LEMMA BundleWritten ==
    ASSUME EligibilityInv, NEW b \in Bundles,
           NEW st \in {"draft", "review"} \cup Decisions,
           bundle' = [bundle EXCEPT ![b] = st],
           bundle[b] \in Submitted => st \in Submitted,
           bundle[b] \in Decisions => st \in Decisions
    PROVE  /\ bundle' \in [Bundles -> {"none", "draft", "review"} \cup Decisions]
           /\ bundle'[b] = st
           /\ filed.sid # NoBundle => bundle'[filed.sid] \in Submitted
           /\ submitting # NoBundle => bundle'[submitting] # "none"
           /\ pushed \subseteq {c \in Bundles : bundle'[c] \in Decisions}
<1>1. bundle \in [Bundles -> {"none", "draft", "review"} \cup Decisions]
    BY DEF EligibilityInv, EligibilityTypeOK
<1>2. \A c \in Bundles : bundle'[c] = IF c = b THEN st ELSE bundle[c]
    BY <1>1
<1>3. st # "none"
    BY DEF Decisions
<1>4. filed.sid \in Bundles \cup {NoBundle} /\ submitting \in Bundles \cup {NoBundle}
    BY FiledWritten DEF EligibilityInv, EligibilityTypeOK, Row
<1> QED
    BY <1>1, <1>2, <1>3, <1>4 DEF EligibilityInv, NamesSubmittedBundle

\* A step keeps it.
LEMMA EligibilityStep ==
    EligibilityInv /\ [EligibilityNext]_eligibilityVars => EligibilityInv'
<1> SUFFICES ASSUME EligibilityInv, [EligibilityNext]_eligibilityVars
             PROVE  EligibilityInv'
    OBVIOUS
<1>0. /\ EligibilityTypeOK /\ filed \in Row /\ asked \in [Askers -> Answer]
      /\ bundle \in [Bundles -> {"none", "draft", "review"} \cup Decisions]
      /\ submitting \in Bundles \cup {NoBundle} /\ pushed \subseteq Bundles
      /\ NoBundle \notin Bundles /\ NamesSubmittedBundle
    BY BundleAssumption
    DEF EligibilityInv, EligibilityTypeOK, Answer, Submitted
<1>1. CASE \/ get_or_open_eligibility_case \/ submit_number_eligibility_document
           \/ submit_number_eligibility_evidence
           \/ \E decision \in Decisions : number_eligibility_case_decided(decision)
  <2>1. UNCHANGED <<bundle, submitting, asked, pushed>>
    BY <1>1
    DEF get_or_open_eligibility_case, submit_number_eligibility_document,
        submit_number_eligibility_evidence, number_eligibility_case_decided
  <2>2. filed' \in Row /\ filed'.sid = filed.sid
    <3>1. filed.status \in {"none", "pending"} \cup Decisions
      BY <1>0 DEF Row
    <3>2. \/ filed' = [filed EXCEPT !.document = TRUE]
          \/ \E st \in {"none", "pending"} \cup Decisions : filed' = [filed EXCEPT !.status = st]
      <4>1. CASE get_or_open_eligibility_case
        BY <4>1 DEF get_or_open_eligibility_case
      <4>2. CASE submit_number_eligibility_document
        BY <4>2 DEF submit_number_eligibility_document
      <4>3. CASE submit_number_eligibility_evidence
        <5> DEFINE st == IF filed.status = "rejected" THEN "pending" ELSE filed.status
        <5>1. st \in {"none", "pending"} \cup Decisions
          BY <3>1
        <5>2. filed' = [filed EXCEPT !.status = st]
          BY <4>3 DEF submit_number_eligibility_evidence
        <5> QED
          BY <5>1, <5>2
      <4>4. CASE \E decision \in Decisions : number_eligibility_case_decided(decision)
        BY <4>4 DEF number_eligibility_case_decided
      <4> QED
        BY <1>1, <4>1, <4>2, <4>3, <4>4
    <3> QED
      BY <1>0, <3>2, FiledWritten
  <2> QED
    BY <1>0, <2>1, <2>2
    DEF EligibilityInv, EligibilityTypeOK, Answer, Submitted, NamesSubmittedBundle
<1>2. ASSUME NEW b \in Bundles, submit_number_eligibility_bundle(b)
      PROVE  EligibilityInv'
  <2>1. /\ bundle' = [bundle EXCEPT ![b] = "draft"] /\ bundle[b] = "none" /\ submitting' = b
        /\ UNCHANGED <<filed, asked, pushed>>
    BY <1>2 DEF submit_number_eligibility_bundle
  <2>2. bundle[b] \notin Submitted /\ bundle[b] \notin Decisions
    BY <2>1 DEF Submitted, Decisions
  <2>3. /\ bundle' \in [Bundles -> {"none", "draft", "review"} \cup Decisions]
        /\ bundle'[b] = "draft"
        /\ filed.sid # NoBundle => bundle'[filed.sid] \in Submitted
        /\ pushed \subseteq {c \in Bundles : bundle'[c] \in Decisions}
    BY <2>1, <2>2, BundleWritten
  <2> QED
    BY <1>0, <2>1, <2>3
    DEF EligibilityInv, EligibilityTypeOK, Answer, Submitted, NamesSubmittedBundle
<1>3. CASE submit_bundle_for_review
  <2>1. /\ submitting \in Bundles /\ bundle[submitting] = "draft"
        /\ bundle' = [bundle EXCEPT ![submitting] = "review"]
        /\ UNCHANGED <<filed, submitting, asked, pushed>>
    BY <1>0, <1>3 DEF submit_bundle_for_review, Unlocked
  <2>2. bundle[submitting] \notin Decisions /\ "review" \in Submitted
    BY <2>1 DEF Decisions, Submitted
  <2>3. /\ bundle' \in [Bundles -> {"none", "draft", "review"} \cup Decisions]
        /\ filed.sid # NoBundle => bundle'[filed.sid] \in Submitted
        /\ submitting # NoBundle => bundle'[submitting] # "none"
        /\ pushed \subseteq {c \in Bundles : bundle'[c] \in Decisions}
    BY <2>1, <2>2, BundleWritten
  <2> QED
    BY <1>0, <2>1, <2>3
    DEF EligibilityInv, EligibilityTypeOK, Answer, Submitted, NamesSubmittedBundle
<1>4. CASE bundle_submitted
  <2>1. /\ submitting \in Bundles /\ bundle[submitting] # "draft"
        /\ filed' = [filed EXCEPT !.sid = submitting, !.bundle_status = "review"]
        /\ submitting' = NoBundle
        /\ UNCHANGED <<bundle, asked, pushed>>
    BY <1>0, <1>4 DEF bundle_submitted, Unlocked
  <2>2. filed' \in Row /\ filed'.sid = submitting
    BY <1>0, <2>1, FiledWritten
  <2>3. bundle[submitting] \in Submitted
    BY <1>0, <2>1 DEF NamesSubmittedBundle, Submitted
  <2> QED
    BY <1>0, <2>1, <2>2, <2>3
    DEF EligibilityInv, EligibilityTypeOK, Answer, Submitted, NamesSubmittedBundle
<1>5. CASE submission_fails
  <2>1. submitting' = NoBundle /\ UNCHANGED <<filed, bundle, asked, pushed>>
    BY <1>5 DEF submission_fails
  <2> QED
    BY <1>0, <2>1
    DEF EligibilityInv, EligibilityTypeOK, Answer, Submitted, NamesSubmittedBundle
<1>6. ASSUME NEW b \in Bundles, NEW decision \in Decisions, bundle_reviewed(b, decision)
      PROVE  EligibilityInv'
  <2>1. /\ bundle[b] = "review" /\ bundle' = [bundle EXCEPT ![b] = decision]
        /\ pushed' = pushed \cup {b} /\ UNCHANGED <<filed, submitting, asked>>
        /\ decision \in Submitted
    BY <1>6 DEF bundle_reviewed, Submitted
  <2>2. /\ bundle' \in [Bundles -> {"none", "draft", "review"} \cup Decisions]
        /\ bundle'[b] = decision
        /\ filed.sid # NoBundle => bundle'[filed.sid] \in Submitted
        /\ submitting # NoBundle => bundle'[submitting] # "none"
        /\ pushed \subseteq {c \in Bundles : bundle'[c] \in Decisions}
    BY <2>1, BundleWritten
  <2> QED
    BY <1>0, <2>1, <2>2
    DEF EligibilityInv, EligibilityTypeOK, Answer, Submitted, NamesSubmittedBundle
<1>7. ASSUME NEW b \in Bundles,
             push_is_lost(b) \/ \E a \in Askers : handle_bundle_status_webhook(a, b)
      PROVE  EligibilityInv'
  <2>1. /\ pushed' \in {pushed, pushed \ {b}} /\ UNCHANGED <<filed, bundle, submitting>>
        /\ asked' = asked \/ \E a \in Askers : Learns(a) /\ filed.sid = b
    BY <1>7 DEF push_is_lost, handle_bundle_status_webhook
  <2>2. asked' \in [Askers -> Answer]
    BY <1>0, <2>1, AskedWritten
  <2> QED
    BY <1>0, <2>1, <2>2
    DEF EligibilityInv, EligibilityTypeOK, Answer, Submitted, NamesSubmittedBundle
<1>8. CASE \/ sync_all_pending_eligibility_cases
           \/ \E a \in Askers : sync_number_eligibility_bundle_status(a) \/ asker_dies(a)
  <2>1. /\ UNCHANGED <<filed, bundle, submitting, pushed>>
        /\ \E a \in Askers : \/ Learns(a) /\ filed.sid # NoBundle
                             \/ asked' = [asked EXCEPT ![a] = Unasked]
    BY <1>8, SweeperAssumption
    DEF sync_all_pending_eligibility_cases, Sweepable, sync_number_eligibility_bundle_status,
        asker_dies
  <2>2. asked' \in [Askers -> Answer]
    BY <2>1, AskedWritten
  <2> QED
    BY <1>0, <2>1, <2>2
    DEF EligibilityInv, EligibilityTypeOK, Answer, Submitted, NamesSubmittedBundle
<1>9. ASSUME NEW a \in Askers, apply_bundle_status_result(a)
      PROVE  EligibilityInv'
  <2> DEFINE read == asked[a].read
             answer == asked[a].answer
             status == IF answer \in Decisions THEN answer ELSE read.status
             st == Written(read.status, status, filed.status)
             bs == Written(read.bundle_status, answer, filed.bundle_status)
  <2>1. read \in Row /\ answer \in Submitted
    BY <1>9, AskedWritten DEF apply_bundle_status_result, Answer
  <2>2. st \in {"none", "pending"} \cup Decisions /\ bs \in {"none", "review"} \cup Decisions
    BY <1>0, <2>1 DEF Row, Written, Submitted
  <2>3. /\ filed' = [filed EXCEPT !.bundle_status = bs, !.status = st]
        /\ asked' = [asked EXCEPT ![a] = Unasked] /\ UNCHANGED <<bundle, submitting, pushed>>
    BY <1>9 DEF apply_bundle_status_result
  <2> HIDE DEF st, bs
  <2>4. filed' \in Row /\ filed'.sid = filed.sid /\ asked' \in [Askers -> Answer]
    BY <1>0, <2>2, <2>3, FiledWritten, AskedWritten
  <2> QED
    BY <1>0, <2>3, <2>4
    DEF EligibilityInv, EligibilityTypeOK, Answer, Submitted, NamesSubmittedBundle
<1>10. CASE UNCHANGED eligibilityVars
    BY <1>0, <1>10
    DEF eligibilityVars, EligibilityInv, EligibilityTypeOK, Answer, Submitted,
        NamesSubmittedBundle
<1> QED
    BY <1>1, <1>2, <1>3, <1>4, <1>5, <1>6, <1>7, <1>8, <1>9, <1>10 DEF EligibilityNext

\* No case has been opened to begin with.
LEMMA EligibilityStarts == EligibilityInit => EligibilityInv
  BY DEF EligibilityInit, EligibilityInv, EligibilityTypeOK, NamesSubmittedBundle, Row

\* Wherever submissions fail and callbacks overtake them, a case names only a
\* bundle that Twilio has been given to review.
THEOREM BundlesAreSubmitted == EligibilitySpec => []NamesSubmittedBundle
<1>1. EligibilityInv => NamesSubmittedBundle
    BY DEF EligibilityInv
<1> QED
    BY <1>1, EligibilityStarts, EligibilityStep, PTL DEF EligibilitySpec
-----------------------------------------------------------------------------
(* Video sessions.                                                         *)

EgressStates == {"none", "running"} \cup Finished
VideoAsk ==
    {NoAsk} \cup [step : {"start", "started", "stop", "end", "close"},
                  egress : Egresses \cup {NoEgress}, again : BOOLEAN]

\* A session is ended only when its room is closed, by the requests or the webhook,
\* and nothing is recorded in a closed room.
EndedIsOver == session.status = "ended" => room = "closed" /\ Running = {}

\* And a request or a row names only egresses that LiveKit has started.
RoomInv ==
    /\ session.status = "ended" => room = "closed"
    /\ \A r \in VideoRequests : asks[r].step = "close" => room = "closed"
    /\ room = "closed" => Running = {}
    /\ session.egress # NoEgress => egress[session.egress] # "none"
    /\ \A r \in VideoRequests :
          asks[r] # NoAsk /\ asks[r].egress # NoEgress => egress[asks[r].egress] # "none"

VideoInv == VideoTypeOK /\ RoomInv

\* What LiveKit does with the egresses it ends.
LEMMA FinishWritten ==
    ASSUME VideoTypeOK, NEW E \in SUBSET Egresses, Finish(E)
    PROVE  /\ egress' \in [Egresses -> EgressStates] /\ ended' \subseteq Egresses
           /\ \A e \in Egresses : egress[e] # "none" => egress'[e] # "none"
           /\ Running' = Running \ E
<1>1. PICK results \in [E -> Finished] :
          egress' = [e \in Egresses |-> IF e \in E THEN results[e] ELSE egress[e]]
    BY DEF Finish
<1>2. \A e \in E : results[e] \in Finished
    OBVIOUS
<1>3. egress \in [Egresses -> EgressStates] /\ ended' = ended \cup E /\ ended \subseteq Egresses
    BY DEF VideoTypeOK, EgressStates, Finish
<1>4. \A e \in Egresses : egress'[e] = IF e \in E THEN results[e] ELSE egress[e]
    BY <1>1
<1>5. \A e \in Egresses : egress'[e] \in EgressStates
    BY <1>2, <1>3, <1>4 DEF EgressStates
<1>6. egress' \in [Egresses -> EgressStates]
    BY <1>1, <1>5
<1>7. \A e \in Egresses : egress[e] # "none" => egress'[e] # "none"
    BY <1>2, <1>4 DEF Finished
<1>8. Running' = Running \ E
    BY <1>2, <1>4 DEF Finished, Running
<1> QED
    BY <1>3, <1>6, <1>7, <1>8

\* A request that takes a step, or is done, is one of the requests.
LEMMA AskWritten ==
    ASSUME VideoTypeOK, NEW r \in VideoRequests,
           NEW step \in {"start", "started", "stop", "end", "close"},
           NEW e \in Egresses \cup {NoEgress}
    PROVE  /\ Ask(r, step, e) => /\ asks' \in [VideoRequests -> VideoAsk]
                                 /\ asks'[r].step = step /\ asks'[r].egress = e
           /\ Done(r) => /\ asks' \in [VideoRequests -> VideoAsk]
                         /\ asks'[r] = NoAsk /\ asks'[r].step = "idle"
           /\ Ask(r, step, e) \/ Done(r) =>
                 \A q \in VideoRequests : q # r => asks'[q] = asks[q]
           /\ asks[r] # NoAsk => asks[r].egress \in Egresses \cup {NoEgress}
<1>1. asks \in [VideoRequests -> VideoAsk]
    BY DEF VideoTypeOK, VideoAsk
<1>2. ASSUME NEW a \in VideoAsk
      PROVE  a # NoAsk => /\ a.step \in {"start", "started", "stop", "end", "close"}
                          /\ a.egress \in Egresses \cup {NoEgress}
                          /\ a.again \in BOOLEAN
    BY DEF VideoAsk
<1>3. NoAsk \in VideoAsk /\ NoAsk.step = "idle"
    BY DEF VideoAsk, NoAsk
<1>4. \A again \in BOOLEAN : [step |-> step, egress |-> e, again |-> again] \in VideoAsk
    BY DEF VideoAsk
<1>5. ASSUME Ask(r, step, e)
      PROVE  /\ asks' \in [VideoRequests -> VideoAsk]
             /\ asks'[r].step = step /\ asks'[r].egress = e
             /\ \A q \in VideoRequests : q # r => asks'[q] = asks[q]
    BY <1>1, <1>4, <1>5 DEF Ask
<1>6. ASSUME Done(r)
      PROVE  /\ asks' \in [VideoRequests -> VideoAsk]
             /\ asks'[r] = NoAsk /\ asks'[r].step = "idle"
             /\ \A q \in VideoRequests : q # r => asks'[q] = asks[q]
    BY <1>1, <1>3, <1>6 DEF Done
<1> QED
    BY <1>1, <1>2, <1>5, <1>6

\* So is one that is told the egress it has started.
LEMMA StartWritten ==
    ASSUME VideoTypeOK, NEW r \in VideoRequests, NEW again \in BOOLEAN,
           asks' = [asks EXCEPT ![r] = [step |-> "start", egress |-> NoEgress,
                                        again |-> again]]
    PROVE  /\ asks' \in [VideoRequests -> VideoAsk]
           /\ asks'[r].step = "start" /\ asks'[r].egress = NoEgress
           /\ \A q \in VideoRequests : q # r => asks'[q] = asks[q]
<1>1. asks \in [VideoRequests -> VideoAsk]
    BY DEF VideoTypeOK, VideoAsk
<1>2. [step |-> "start", egress |-> NoEgress, again |-> again] \in VideoAsk
    BY DEF VideoAsk
<1> QED
    BY <1>1, <1>2

\* And one that learns the egress it has started.
LEMMA StartedWritten ==
    ASSUME VideoTypeOK, NEW r \in VideoRequests, NEW e \in Egresses,
           asks[r].step = "start",
           asks' = [asks EXCEPT ![r] = [@ EXCEPT !.step = "started", !.egress = e]]
    PROVE  /\ asks' \in [VideoRequests -> VideoAsk]
           /\ asks'[r].step = "started" /\ asks'[r].egress = e
           /\ \A q \in VideoRequests : q # r => asks'[q] = asks[q]
<1>1. asks \in [VideoRequests -> VideoAsk]
    BY DEF VideoTypeOK, VideoAsk
<1>2. asks[r] # NoAsk
    BY DEF NoAsk
<1>3. asks[r] \in [step : {"start", "started", "stop", "end", "close"},
                   egress : Egresses \cup {NoEgress}, again : BOOLEAN]
    BY <1>1, <1>2 DEF VideoAsk
<1> DEFINE a == [asks[r] EXCEPT !.step = "started", !.egress = e]
<1>4. /\ a \in [step : {"start", "started", "stop", "end", "close"},
                egress : Egresses \cup {NoEgress}, again : BOOLEAN]
      /\ a.step = "started" /\ a.egress = e
    BY <1>3
<1>5. asks' = [asks EXCEPT ![r] = a]
    OBVIOUS
<1>6. a \in VideoAsk
    BY <1>4 DEF VideoAsk
<1>7. a.step = "started" /\ a.egress = e
    BY <1>4
<1> HIDE DEF a
<1>8. asks' \in [VideoRequests -> VideoAsk] /\ asks'[r] = a
    BY <1>1, <1>5, <1>6
<1>9. \A q \in VideoRequests : q # r => asks'[q] = asks[q]
    BY <1>1, <1>5
<1> QED
    BY <1>7, <1>8, <1>9

\* A step that leaves the session, and may close the room, keeps what a request
\* may be told.
LEMMA VideoWritten ==
    ASSUME VideoInv,
           session' \in [status : {"active", "ended"}, egress : Egresses \cup {NoEgress},
                         url : {"none", "failed", "file"}],
           room' \in {"open", "closed"}, room = "closed" => room' = "closed",
           egress' \in [Egresses -> EgressStates], ended' \subseteq Egresses,
           found' \subseteq Egresses,
           \A e \in Egresses : egress[e] # "none" => egress'[e] # "none",
           asks' \in [VideoRequests -> VideoAsk],
           swept' \in {NoAsk} \cup [step : {"sweep"}, url : {"failed", "file"}],
           session'.status = "ended" => room' = "closed",
           room' = "closed" => Running' = {},
           session'.egress \notin {NoEgress, session.egress} => egress'[session'.egress] # "none",
           \A r \in VideoRequests : asks'[r] # asks[r] =>
               /\ asks'[r].step = "close" => room' = "closed"
               /\ asks'[r] # NoAsk /\ asks'[r].egress # NoEgress
                     => egress'[asks'[r].egress] # "none"
    PROVE  VideoInv'
<1>1. VideoTypeOK'
    BY DEF VideoTypeOK, VideoAsk, EgressStates
<1>2. session.egress \in Egresses \cup {NoEgress}
    BY DEF VideoInv, VideoTypeOK
<1>3. session'.egress # NoEgress => egress'[session'.egress] # "none"
    BY <1>2 DEF VideoInv, RoomInv
<1>4. ASSUME NEW r \in VideoRequests
      PROVE  /\ asks'[r].step = "close" => room' = "closed"
             /\ asks'[r] # NoAsk /\ asks'[r].egress # NoEgress
                   => egress'[asks'[r].egress] # "none"
  <2>1. CASE asks'[r] # asks[r]
    BY <2>1
  <2>2. CASE asks'[r] = asks[r]
    <3>1. asks[r] # NoAsk => asks[r].egress \in Egresses \cup {NoEgress}
      BY AskWritten DEF VideoInv
    <3> QED
      BY <2>2, <3>1 DEF VideoInv, RoomInv
  <2> QED
    BY <2>1, <2>2
<1> QED
    BY <1>1, <1>3, <1>4 DEF VideoInv, RoomInv

\* A step keeps it.
LEMMA VideoStep == VideoInv /\ [VideoNext]_videoVars => VideoInv'
<1> SUFFICES ASSUME VideoInv, [VideoNext]_videoVars PROVE VideoInv'
    OBVIOUS
<1>0. /\ VideoTypeOK /\ RoomInv
      /\ session \in [status : {"active", "ended"}, egress : Egresses \cup {NoEgress},
                      url : {"none", "failed", "file"}]
      /\ room \in {"open", "closed"} /\ ended \subseteq Egresses /\ found \subseteq Egresses
      /\ egress \in [Egresses -> EgressStates] /\ asks \in [VideoRequests -> VideoAsk]
      /\ swept \in {NoAsk} \cup [step : {"sweep"}, url : {"failed", "file"}]
    BY DEF VideoInv, VideoTypeOK, EgressStates, VideoAsk
<1>1. ASSUME NEW r \in VideoRequests,
             stop_video_recording(r) \/ end_video_session(r) \/ request_fails(r)
      PROVE  VideoInv'
  <2>1. /\ \/ Ask(r, "stop", session.egress)
           \/ Ask(r, "end", session.egress) \/ Ask(r, "end", NoEgress) \/ Done(r)
        /\ UNCHANGED <<session, room, egress, ended, found, swept, Running>>
    BY <1>1 DEF stop_video_recording, end_video_session, request_fails, Running
  <2>2. session.egress \in Egresses \cup {NoEgress}
    BY <1>0
  <2>3. /\ asks' \in [VideoRequests -> VideoAsk] /\ asks'[r].step # "close"
        /\ \A q \in VideoRequests : q # r => asks'[q] = asks[q]
        /\ asks'[r] # NoAsk => asks'[r].egress \in {NoEgress, session.egress}
    BY <1>0, <2>1, <2>2, AskWritten
  <2> QED
    BY <1>0, <2>1, <2>3, VideoWritten DEF RoomInv
<1>10. ASSUME NEW r \in VideoRequests, start_video_recording(r)
       PROVE  VideoInv'
  <2>1. UNCHANGED <<session, room, egress, ended, found, swept, Running>>
    BY <1>10 DEF start_video_recording, Running
  <2>2. /\ asks' \in [VideoRequests -> VideoAsk]
        /\ asks'[r].step = "start" /\ asks'[r].egress = NoEgress
        /\ \A q \in VideoRequests : q # r => asks'[q] = asks[q]
    BY <1>0, <1>10, StartWritten DEF start_video_recording
  <2> QED
    BY <1>0, <2>1, <2>2, VideoWritten DEF RoomInv
<1>2. ASSUME NEW r \in VideoRequests, NEW e \in Egresses, start_room_recording(r, e)
      PROVE  VideoInv'
  <2>1. /\ room = "open" /\ egress' = [egress EXCEPT ![e] = "running"]
        /\ UNCHANGED <<session, room, ended, found, swept>>
    BY <1>2 DEF start_room_recording
  <2>2. /\ egress' \in [Egresses -> EgressStates] /\ egress'[e] = "running"
        /\ \A d \in Egresses : egress[d] # "none" => egress'[d] # "none"
    BY <1>0, <2>1 DEF EgressStates
  <2>3. /\ asks' \in [VideoRequests -> VideoAsk]
        /\ asks'[r].step = "started" /\ asks'[r].egress = e
        /\ \A q \in VideoRequests : q # r => asks'[q] = asks[q]
    BY <1>0, <1>2, StartedWritten DEF start_room_recording
  <2> QED
    BY <1>0, <2>1, <2>2, <2>3, VideoWritten DEF RoomInv
<1>3. ASSUME NEW r \in VideoRequests, recording_started(r)
      PROVE  VideoInv'
  <2>1. /\ asks[r].step = "started" /\ Done(r)
        /\ session' = [session EXCEPT !.egress = asks[r].egress,
                                      !.url = IF asks[r].again THEN "none" ELSE @]
        /\ UNCHANGED <<room, egress, ended, found, swept, Running>>
    BY <1>3 DEF recording_started, Running
  <2>2. asks[r] # NoAsk /\ asks[r].egress \in Egresses \cup {NoEgress}
    BY <1>0, <2>1, AskWritten DEF NoAsk
  <2>3. /\ asks' \in [VideoRequests -> VideoAsk] /\ asks'[r] = NoAsk
        /\ asks'[r].step = "idle"
        /\ \A q \in VideoRequests : q # r => asks'[q] = asks[q]
    BY <1>0, <2>1, AskWritten
  <2>4. /\ session'.egress = asks[r].egress /\ session'.status = session.status
        /\ session' \in [status : {"active", "ended"}, egress : Egresses \cup {NoEgress},
                         url : {"none", "failed", "file"}]
    BY <1>0, <2>1, <2>2
  <2> QED
    BY <1>0, <2>1, <2>2, <2>3, <2>4, VideoWritten DEF RoomInv
<1>4. ASSUME NEW r \in VideoRequests, stop_room_recording(r)
      PROVE  VideoInv'
  <2>1. /\ asks[r].step \in {"stop", "end"} /\ asks[r].egress # NoEgress
        /\ Ask(r, "end", NoEgress) \/ Done(r)
        /\ \/ Finish({asks[r].egress}) /\ asks[r].egress \in Running
           \/ UNCHANGED <<egress, ended>>
        /\ UNCHANGED <<session, room, found, swept>>
    BY <1>4 DEF stop_room_recording
  <2>2. /\ asks' \in [VideoRequests -> VideoAsk] /\ asks'[r].step # "close"
        /\ asks'[r] # NoAsk => asks'[r].egress = NoEgress
        /\ \A q \in VideoRequests : q # r => asks'[q] = asks[q]
    BY <1>0, <2>1, AskWritten
  <2>3. /\ egress' \in [Egresses -> EgressStates] /\ ended' \subseteq Egresses
        /\ \A e \in Egresses : egress[e] # "none" => egress'[e] # "none"
        /\ Running' \subseteq Running
    <3>1. CASE Finish({asks[r].egress}) /\ asks[r].egress \in Running
      BY <1>0, <3>1, FinishWritten DEF Running
    <3>2. CASE UNCHANGED <<egress, ended>>
      BY <1>0, <3>2 DEF Running
    <3> QED
      BY <2>1, <3>1, <3>2
  <2> QED
    BY <1>0, <2>1, <2>2, <2>3, VideoWritten DEF RoomInv
<1>5. ASSUME NEW r \in VideoRequests, end_room(r)
      PROVE  VideoInv'
  <2>1. /\ room' = "closed" /\ Finish(Running) /\ Ask(r, "close", NoEgress)
        /\ UNCHANGED <<session, found, swept>>
    BY <1>5 DEF end_room
  <2>2. /\ egress' \in [Egresses -> EgressStates] /\ ended' \subseteq Egresses
        /\ \A e \in Egresses : egress[e] # "none" => egress'[e] # "none"
        /\ Running' = {}
    BY <1>0, <2>1, FinishWritten DEF Running
  <2>3. /\ asks' \in [VideoRequests -> VideoAsk] /\ asks'[r].egress = NoEgress
        /\ \A q \in VideoRequests : q # r => asks'[q] = asks[q]
    BY <1>0, <2>1, AskWritten
  <2> QED
    BY <1>0, <2>1, <2>2, <2>3, VideoWritten DEF RoomInv
<1>6. ASSUME NEW r \in VideoRequests, session_ended(r)
      PROVE  VideoInv'
  <2>1. /\ asks[r].step = "close" /\ session' = [session EXCEPT !.status = "ended"] /\ Done(r)
        /\ UNCHANGED <<room, egress, ended, found, swept, Running>>
    BY <1>6 DEF session_ended, Running
  <2>2. /\ asks' \in [VideoRequests -> VideoAsk] /\ asks'[r] = NoAsk
        /\ asks'[r].step = "idle"
        /\ \A q \in VideoRequests : q # r => asks'[q] = asks[q]
    BY <1>0, <2>1, AskWritten
  <2> QED
    BY <1>0, <2>1, <2>2, VideoWritten DEF RoomInv
<1>7. CASE everyone_leaves
  <2>1. room' = "closed" /\ Finish(Running) /\ UNCHANGED <<session, found, asks, swept>>
    BY <1>7 DEF everyone_leaves
  <2>2. /\ egress' \in [Egresses -> EgressStates] /\ ended' \subseteq Egresses
        /\ \A e \in Egresses : egress[e] # "none" => egress'[e] # "none"
        /\ Running' = {}
    BY <1>0, <2>1, FinishWritten DEF Running
  <2> QED
    BY <1>0, <2>1, <2>2, VideoWritten DEF RoomInv
<1>8. ASSUME NEW e \in Egresses, egress_finishes(e)
      PROVE  VideoInv'
  <2>1. Finish({e}) /\ UNCHANGED <<session, room, found, asks, swept>>
    BY <1>8 DEF egress_finishes
  <2>2. /\ egress' \in [Egresses -> EgressStates] /\ ended' \subseteq Egresses
        /\ \A d \in Egresses : egress[d] # "none" => egress'[d] # "none"
        /\ Running' \subseteq Running
    BY <1>0, <2>1, FinishWritten
  <2> QED
    BY <1>0, <2>1, <2>2, VideoWritten DEF RoomInv
<1>9. CASE \/ room_finished
           \/ \E e \in Egresses :
                 handle_egress_ended(e) \/ recording_ended(e) \/ egress_ended_is_lost(e)
           \/ get_egress_status \/ sweep_stale_video_recordings \/ UNCHANGED videoVars
  <2>1. UNCHANGED <<room, egress, asks, Running>> /\ ended' \subseteq ended
        /\ found' \subseteq Egresses
    BY <1>0, <1>9
    DEF room_finished, handle_egress_ended, recording_ended, egress_ended_is_lost,
        get_egress_status, sweep_stale_video_recordings, videoVars, Running
  <2>2. swept' \in {NoAsk} \cup [step : {"sweep"}, url : {"failed", "file"}]
    BY <1>0, <1>9
    DEF room_finished, handle_egress_ended, recording_ended, egress_ended_is_lost,
        get_egress_status, sweep_stale_video_recordings, videoVars
  <2>3. /\ session' \in [status : {"active", "ended"}, egress : Egresses \cup {NoEgress},
                         url : {"none", "failed", "file"}]
        /\ session'.egress \in {NoEgress, session.egress}
        /\ session'.status = session.status \/ room = "closed"
    <3>1. swept # NoAsk => swept.url \in {"failed", "file"}
      BY <1>0
    <3> QED
      BY <1>0, <1>9, <3>1
      DEF room_finished, handle_egress_ended, recording_ended, egress_ended_is_lost,
          get_egress_status, sweep_stale_video_recordings, videoVars
  <2> QED
    BY <1>0, <2>1, <2>2, <2>3, VideoWritten DEF RoomInv
<1> QED
    BY <1>1, <1>2, <1>3, <1>4, <1>5, <1>6, <1>7, <1>8, <1>9, <1>10 DEF VideoNext

\* A session begins in an open room.
LEMMA VideoStarts == VideoInit => VideoInv
  BY DEF VideoInit, VideoInv, VideoTypeOK, RoomInv, NoAsk

\* Whichever of the host, an admin, LiveKit's webhook and the sweep come first, no
\* recording goes on in a session that is over.
THEOREM NothingRunsAfterTheEnd == VideoSpec => []EndedIsOver
<1>1. VideoInv => EndedIsOver
    BY DEF VideoInv, RoomInv, EndedIsOver
<1> QED
    BY <1>1, VideoStarts, VideoStep, PTL DEF VideoSpec
-----------------------------------------------------------------------------
(* Notifications.                                                          *)

Mail ==
    {Unsent}
    \cup [step : {"sending", "sent"}, template : Templates]
    \cup [step : {"recorded"}, template : Templates,
          status : {"suppressed", "failed", "sent"} \cup Reports]
Hook == {NotHooked} \cup [step : {"suppress"}, email : Emails, report : Fatal]

\* An e-mail that was held back has not reached Resend.
HeldBackMailStays ==
    \A m \in Emails :
        mail[m].step = "recorded" /\ mail[m].status = "suppressed" => fate[m] = "none"

\* And Resend knows only of e-mails that were handed to it, each once, and reports
\* only on those.
FateIsOfSentMail ==
    \A m \in Emails :
        /\ mail[m] = Unsent \/ mail[m].step = "sending" => fate[m] = "none"
        /\ fate[m] = "none" => webhooks[m] = {}

NoticeInv == NoticeTypeOK /\ HeldBackMailStays /\ FateIsOfSentMail

\* An e-mail recorded with a status.
LEMMA RecordWritten ==
    ASSUME NoticeTypeOK, NEW m \in Emails, NEW t \in Templates,
           NEW status \in {"suppressed", "failed", "sent"} \cup Reports, Record(m, t, status)
    PROVE  /\ mail' \in [Emails -> Mail]
           /\ mail'[m] # Unsent /\ mail'[m].step = "recorded" /\ mail'[m].status = status
           /\ \A n \in Emails : n # m => mail'[n] = mail[n]
  BY DEF NoticeTypeOK, Record, Mail, Unsent

\* What the step of one e-mail has to keep for the invariant to hold of all.
LEMMA NoticeWritten ==
    ASSUME NoticeInv, NEW m \in Emails,
           preference' \in [on : BOOLEAN, off : SUBSET Domains],
           suppressed' \subseteq Domains \cup {Global},
           mail' \in [Emails -> Mail], fate' \in [Emails -> {"none", "accepted"} \cup Reports],
           webhooks' \in [Emails -> SUBSET Reports], hook' \in [Hooks -> Hook],
           \A n \in Emails : n # m =>
               /\ mail'[n] = mail[n] /\ fate'[n] = fate[n]
               /\ webhooks'[n] \subseteq webhooks[n],
           mail'[m].step = "recorded" /\ mail'[m].status = "suppressed" => fate'[m] = "none",
           mail'[m] = Unsent \/ mail'[m].step = "sending" => fate'[m] = "none",
           fate'[m] = "none" => webhooks'[m] = {}
    PROVE  NoticeInv'
<1>1. NoticeTypeOK'
    BY DEF NoticeTypeOK, Mail, Hook
<1> QED
    BY <1>1 DEF NoticeInv, HeldBackMailStays, FateIsOfSentMail

\* A step keeps it.
LEMMA NoticeStep == NoticeInv /\ [NoticeNext]_noticeVars => NoticeInv'
<1> SUFFICES ASSUME NoticeInv, [NoticeNext]_noticeVars PROVE NoticeInv'
    OBVIOUS
<1>0. /\ NoticeTypeOK /\ HeldBackMailStays /\ FateIsOfSentMail
      /\ preference \in [on : BOOLEAN, off : SUBSET Domains]
      /\ suppressed \subseteq Domains \cup {Global}
      /\ mail \in [Emails -> Mail] /\ fate \in [Emails -> {"none", "accepted"} \cup Reports]
      /\ webhooks \in [Emails -> SUBSET Reports] /\ hook \in [Hooks -> Hook]
    BY DEF NoticeInv, NoticeTypeOK, Mail, Hook
<1>1. CASE \/ \E on \in BOOLEAN, off \in SUBSET (Domains \ {NoDomain}) : update_preference(on, off)
           \/ \E h \in Hooks : hook_dies(h)
           \/ UNCHANGED noticeVars
  <2>1. UNCHANGED <<suppressed, mail, fate, webhooks>>
    BY <1>1 DEF update_preference, hook_dies, noticeVars
  <2>2. preference' \in [on : BOOLEAN, off : SUBSET Domains] /\ hook' \in [Hooks -> Hook]
    BY <1>0, <1>1 DEF update_preference, hook_dies, noticeVars, Hook
  <2> QED
    BY <1>0, <2>1, <2>2
    DEF NoticeInv, NoticeTypeOK, HeldBackMailStays, FateIsOfSentMail, Hook
<1>2. ASSUME NEW m \in Emails, NEW t \in Templates, NEW quiet \in BOOLEAN,
             send_notification(m, t, quiet)
      PROVE  NoticeInv'
  <2>1. /\ mail[m] = Unsent /\ UNCHANGED <<preference, suppressed, fate, webhooks, hook>>
        /\ \/ Record(m, t, "suppressed")
           \/ mail' = [mail EXCEPT ![m] = [step |-> "sending", template |-> t]]
    BY <1>2 DEF send_notification
  <2>2. fate[m] = "none" /\ webhooks[m] = {}
    BY <1>0, <2>1 DEF FateIsOfSentMail
  <2>3. mail' \in [Emails -> Mail] /\ \A n \in Emails : n # m => mail'[n] = mail[n]
    <3>1. CASE Record(m, t, "suppressed")
      BY <1>0, <3>1, RecordWritten
    <3>2. CASE mail' = [mail EXCEPT ![m] = [step |-> "sending", template |-> t]]
      BY <1>0, <3>2 DEF Mail
    <3> QED
      BY <2>1, <3>1, <3>2
  <2> QED
    BY <1>0, <2>1, <2>2, <2>3, NoticeWritten
<1>3. ASSUME NEW m \in Emails, NEW taken \in BOOLEAN, NEW answered \in BOOLEAN,
             send_email(m, taken, answered)
      PROVE  NoticeInv'
  <2>1. /\ mail[m].step = "sending"
        /\ \/ Record(m, mail[m].template, "failed")
           \/ mail' = [mail EXCEPT ![m].step = "sent"] /\ taken
        /\ fate' = [fate EXCEPT ![m] = IF taken THEN "accepted" ELSE @]
        /\ UNCHANGED <<preference, suppressed, webhooks, hook>>
    BY <1>3 DEF send_email
  <2>2. /\ fate[m] = "none" /\ webhooks[m] = {} /\ mail[m].template \in Templates
        /\ mail[m] \in [step : {"sending", "sent"}, template : Templates]
    BY <1>0, <2>1 DEF FateIsOfSentMail, Mail, Unsent
  <2>3. /\ mail' \in [Emails -> Mail] /\ \A n \in Emails : n # m => mail'[n] = mail[n]
        /\ mail'[m] # Unsent /\ mail'[m].step # "sending"
        /\ mail'[m].step = "recorded" => mail'[m].status = "failed"
    <3>1. CASE Record(m, mail[m].template, "failed")
      BY <1>0, <2>2, <3>1, RecordWritten
    <3>2. CASE mail' = [mail EXCEPT ![m].step = "sent"]
      BY <1>0, <2>2, <3>2 DEF Mail, Unsent
    <3> QED
      BY <2>1, <3>1, <3>2
  <2>4. /\ fate' \in [Emails -> {"none", "accepted"} \cup Reports]
        /\ \A n \in Emails : n # m => fate'[n] = fate[n]
    BY <1>0, <2>1
  <2> QED
    BY <1>0, <2>1, <2>2, <2>3, <2>4, NoticeWritten
<1>4. ASSUME NEW m \in Emails, delivery_recorded(m) \/ sender_dies(m)
      PROVE  NoticeInv'
  <2>1. /\ mail[m].step \in {"sending", "sent"}
        /\ Record(m, mail[m].template, "sent") \/ Record(m, mail[m].template, "failed")
        /\ UNCHANGED <<preference, suppressed, fate, webhooks, hook>>
    BY <1>4 DEF delivery_recorded, sender_dies
  <2>2. mail[m].template \in Templates
    BY <1>0, <2>1 DEF Mail, Unsent
  <2>3. /\ mail' \in [Emails -> Mail] /\ \A n \in Emails : n # m => mail'[n] = mail[n]
        /\ mail'[m] # Unsent /\ mail'[m].step = "recorded" /\ mail'[m].status # "suppressed"
    BY <1>0, <2>1, <2>2, RecordWritten
  <2>4. fate[m] = "none" => webhooks[m] = {}
    BY <1>0 DEF FateIsOfSentMail
  <2> QED
    BY <1>0, <2>1, <2>3, <2>4, NoticeWritten
<1>5. ASSUME NEW m \in Emails, NEW report \in Reports, resend_reports(m, report)
      PROVE  NoticeInv'
  <2>1. /\ fate[m] # "none" /\ fate' = [fate EXCEPT ![m] = report]
        /\ webhooks' = [webhooks EXCEPT ![m] = @ \cup {report}]
        /\ UNCHANGED <<preference, suppressed, mail, hook>>
    BY <1>5 DEF resend_reports
  <2>2. /\ fate' \in [Emails -> {"none", "accepted"} \cup Reports] /\ fate'[m] # "none"
        /\ \A n \in Emails : n # m => fate'[n] = fate[n]
    BY <1>0, <2>1 DEF Reports
  <2>3. /\ webhooks' \in [Emails -> SUBSET Reports]
        /\ \A n \in Emails : n # m => webhooks'[n] = webhooks[n]
    BY <1>0, <2>1
  <2>4. ~(mail[m] = Unsent \/ mail[m].step = "sending")
    BY <1>0, <2>1 DEF FateIsOfSentMail
  <2>5. ~(mail[m].step = "recorded" /\ mail[m].status = "suppressed")
    BY <1>0, <2>1 DEF HeldBackMailStays
  <2> QED
    BY <1>0, <2>1, <2>2, <2>3, <2>4, <2>5, NoticeWritten
<1>6. ASSUME NEW m \in Emails, unsubscribe_via_token(m)
      PROVE  NoticeInv'
  <2>1. /\ fate[m] # "none" /\ suppressed' = suppressed \cup {Domain[mail[m].template]}
        /\ UNCHANGED <<preference, mail, fate, webhooks, hook>>
    BY <1>6 DEF unsubscribe_via_token
  <2>2. mail[m] # Unsent
    BY <1>0, <2>1 DEF FateIsOfSentMail
  <2>3. mail[m].template \in Templates
    BY <1>0, <2>2 DEF Mail
  <2>4. suppressed' \subseteq Domains \cup {Global}
    BY <1>0, <2>1, <2>3 DEF Domains
  <2> QED
    BY <1>0, <2>1, <2>4
    DEF NoticeInv, NoticeTypeOK, HeldBackMailStays, FateIsOfSentMail
<1>7. ASSUME NEW h \in Hooks, NEW m \in Emails, NEW report \in Reports,
             handle_resend_webhook(h, m, report)
      PROVE  NoticeInv'
  <2>1. /\ report \in webhooks[m]
        /\ mail' = IF Known(m) THEN [mail EXCEPT ![m].status = report] ELSE mail
        /\ \/ /\ report \in Fatal /\ webhooks' = webhooks
              /\ hook' = [hook EXCEPT ![h] =
                             [step |-> "suppress", email |-> m, report |-> report]]
           \/ webhooks' = [webhooks EXCEPT ![m] = @ \ {report}] /\ hook' = hook
        /\ UNCHANGED <<preference, suppressed, fate>>
    BY <1>7 DEF handle_resend_webhook, Suppresses
  <2>2. fate[m] # "none"
    BY <1>0, <2>1 DEF FateIsOfSentMail
  <2>3. ~(mail[m] = Unsent \/ mail[m].step = "sending")
    BY <1>0, <2>2 DEF FateIsOfSentMail
  <2>4. ~(mail[m].step = "recorded" /\ mail[m].status = "suppressed")
    BY <1>0, <2>2 DEF HeldBackMailStays
  <2>5. /\ mail' \in [Emails -> Mail] /\ \A n \in Emails : n # m => mail'[n] = mail[n]
        /\ ~(mail'[m] = Unsent \/ mail'[m].step = "sending")
        /\ ~(mail'[m].step = "recorded" /\ mail'[m].status = "suppressed")
    <3>1. CASE Known(m)
      <4>1. mail[m] \in [step : {"recorded"}, template : Templates,
                         status : {"suppressed", "failed", "sent"} \cup Reports]
        BY <1>0, <2>3, <3>1 DEF Known, Mail
      <4>2. mail' = [mail EXCEPT ![m] = [mail[m] EXCEPT !.status = report]]
        BY <2>1, <3>1
      <4>3. /\ [mail[m] EXCEPT !.status = report] \in Mail
            /\ [mail[m] EXCEPT !.status = report].step = "recorded"
            /\ [mail[m] EXCEPT !.status = report].status = report
        BY <4>1 DEF Mail
      <4> QED
        BY <1>0, <4>2, <4>3 DEF Reports, Unsent
    <3>2. CASE ~Known(m)
      BY <1>0, <2>1, <2>3, <2>4, <3>2
    <3> QED
      BY <3>1, <3>2
  <2>6. /\ webhooks' \in [Emails -> SUBSET Reports] /\ hook' \in [Hooks -> Hook]
        /\ \A n \in Emails : n # m => webhooks'[n] = webhooks[n]
    BY <1>0, <2>1 DEF Hook
  <2> QED
    BY <1>0, <2>1, <2>2, <2>5, <2>6, NoticeWritten
<1>8. ASSUME NEW h \in Hooks, NEW answered \in BOOLEAN, add_suppression(h, answered)
      PROVE  NoticeInv'
  <2>1. /\ hook[h].step = "suppress" /\ suppressed' = suppressed \cup {Global}
        /\ webhooks' \in {webhooks, [webhooks EXCEPT ![hook[h].email] = @ \ {hook[h].report}]}
        /\ hook' = [hook EXCEPT ![h] = NotHooked]
        /\ UNCHANGED <<preference, mail, fate>>
    BY <1>8 DEF add_suppression
  <2>2. hook[h].email \in Emails /\ hook' \in [Hooks -> Hook]
    BY <1>0, <2>1 DEF Hook, NotHooked
  <2>3. /\ webhooks' \in [Emails -> SUBSET Reports]
        /\ \A m \in Emails : webhooks'[m] \subseteq webhooks[m]
    BY <1>0, <2>1, <2>2
  <2> QED
    BY <1>0, <2>1, <2>2, <2>3
    DEF NoticeInv, NoticeTypeOK, HeldBackMailStays, FateIsOfSentMail, Hook
<1> QED
    BY <1>1, <1>2, <1>3, <1>4, <1>5, <1>6, <1>7, <1>8 DEF NoticeNext

\* Nothing has been sent to begin with.
LEMMA NoticeStarts == NoticeInit => NoticeInv
  BY DEF NoticeInit, NoticeInv, NoticeTypeOK, HeldBackMailStays, FateIsOfSentMail, Unsent

\* A send that a suppression, a preference or the quiet hours hold back stays here,
\* and its delivery says so, whatever webhooks arrive.
THEOREM SuppressedMailStays == NoticeSpec => []HeldBackMailStays
<1>1. NoticeInv => HeldBackMailStays
    BY DEF NoticeInv
<1> QED
    BY <1>1, NoticeStarts, NoticeStep, PTL DEF NoticeSpec
-----------------------------------------------------------------------------
(* Users, and the copies of their rows.                                    *)

Copy == {NoCopy} \cup [ttl : {AUTH_CACHE_TTL_SECONDS}, copy : UserRow]
Visit ==
    {Away}
    \cup [at : {"loaded", "serving"}, user : Users, copy : UserRow, from : {"cache", "db"}]
    \cup [at : {"committed"}, user : Users]

\* A copy that may be laid over a row, and a row with its changed columns.
CopyOf(record, copy) ==
    copy.life = "present" /\ copy.role = record.role /\ record.life # "absent"
WithChanges(record, copy, changed) ==
    [column \in DOMAIN copy |->
        IF changed[column] # copy[column] THEN changed[column] ELSE record[column]]

\* Copies are of users that there are or were, and agree with them on the role.
CopiesKnowTheRole ==
    /\ \A u \in Users : user[u].role = "owner" => Present(u)
    /\ \A u \in Users : cached[u] # NoCopy => CopyOf(user[u], cached[u].copy)
    /\ \A q \in Visits \cup Links :
          visit[q].at \in {"loaded", "serving"} => CopyOf(user[visit[q].user], visit[q].copy)

IdentityInv == IdentityTypeOK /\ CopiesKnowTheRole

\* A user stays what it was created as, and an owner is never removed.
RolesStay ==
    \A u \in Users : user[u].life # "absent" =>
        /\ user'[u].life # "absent" /\ user'[u].role = user[u].role
        /\ user[u].role = "owner" => user'[u].life = "present"

\* A row with other columns in it is a row.
LEMMA RowsAreMerged ==
    ASSUME NEW record \in UserRow, NEW copy \in UserRow, NEW changed \in UserRow
    PROVE  /\ WithChanges(record, copy, changed) \in UserRow
           /\ changed.role = copy.role => WithChanges(record, copy, changed).role = record.role
           /\ changed.life = copy.life => WithChanges(record, copy, changed).life = record.life
  BY DEF UserRow, WithChanges

\* What a step has to keep for the invariant to hold afterwards.
LEMMA IdentityWritten ==
    ASSUME IdentityInv, RolesStay,
           user' \in [Users -> UserRow], cached' \in [Users -> Copy],
           visit' \in [Visits \cup Links -> Visit],
           \A u \in Users : user'[u].role = "owner" => user'[u].life = "present",
           \A u \in Users : cached'[u] \in {cached[u], NoCopy} \/ CopyOf(user[u], cached'[u].copy),
           \A q \in Visits \cup Links :
               \/ visit'[q] = visit[q] \/ visit'[q].at \notin {"loaded", "serving"}
               \/ visit'[q].user \in Users /\ CopyOf(user[visit'[q].user], visit'[q].copy)
    PROVE  IdentityInv'
<1>1. IdentityTypeOK'
    BY DEF IdentityTypeOK, Copy, Visit
<1>2. \A u \in Users : \A copy : CopyOf(user[u], copy) => CopyOf(user'[u], copy)
    BY DEF RolesStay, CopyOf
<1>3. \A u \in Users : cached'[u] # NoCopy => CopyOf(user'[u], cached'[u].copy)
    BY <1>2 DEF IdentityInv, CopiesKnowTheRole
<1>4. ASSUME NEW q \in Visits \cup Links, visit'[q].at \in {"loaded", "serving"}
      PROVE  CopyOf(user'[visit'[q].user], visit'[q].copy)
  <2>1. visit'[q].user \in Users
    BY <1>4 DEF Visit, Away
  <2>2. CopyOf(user[visit'[q].user], visit'[q].copy)
    BY <1>4 DEF IdentityInv, CopiesKnowTheRole
  <2> QED
    BY <1>2, <2>1, <2>2
<1>5. \A u \in Users : user'[u].role = "owner" => user'[u].life = "present"
    OBVIOUS
<1> QED
    BY <1>1, <1>3, <1>4, <1>5 DEF IdentityInv, CopiesKnowTheRole, Present

\* A row that is written keeps the role, unless it is new.
LEMMA UserWritten ==
    ASSUME IdentityInv, NEW u \in Users, NEW record \in UserRow, user' = [user EXCEPT ![u] = record],
           record.role = "owner" => record.life = "present",
           user[u].life # "absent" => record.role = user[u].role /\ record.life # "absent"
    PROVE  /\ user' \in [Users -> UserRow] /\ RolesStay
           /\ \A w \in Users : user'[w].role = "owner" => user'[w].life = "present"
<1>1. user \in [Users -> UserRow] /\ \A w \in Users : user[w].role = "owner" => user[w].life = "present"
    BY DEF IdentityInv, IdentityTypeOK, CopiesKnowTheRole, Present
<1>2. \A w \in Users : user'[w] = IF w = u THEN record ELSE user[w]
    BY <1>1
<1>3. user' \in [Users -> UserRow]
    BY <1>1
<1> QED
    BY <1>1, <1>2, <1>3 DEF RolesStay

\* A request that gets somewhere is one of the requests.
LEMMA VisitWritten ==
    ASSUME IdentityInv, NEW q \in Visits \cup Links, NEW state \in Visit, Go(q, state)
    PROVE  /\ visit' \in [Visits \cup Links -> Visit] /\ visit'[q] = state
           /\ \A p \in Visits \cup Links : p # q => visit'[p] = visit[p]
  BY DEF IdentityInv, IdentityTypeOK, Visit, Go

\* A change of the profile is merged into a row, and leaves the role alone.
LEMMA MergeStep ==
    ASSUME IdentityInv, NEW q \in Visits, NEW changed \in UserRow, visit[q].at = "serving",
           changed.role = visit[q].copy.role, changed.life = visit[q].copy.life,
           Merge(q, changed)
    PROVE  IdentityInv' /\ RolesStay
<1> DEFINE u == visit[q].user
           copy == visit[q].copy
           merged == WithChanges(user[u], copy, changed)
<1>1. /\ u \in Users /\ copy \in UserRow /\ visit[q].from \in {"cache", "db"}
      /\ user \in [Users -> UserRow] /\ cached \in [Users -> Copy]
    BY DEF IdentityInv, IdentityTypeOK, Copy, Away
<1>2. copy.life = "present" /\ copy.role = user[u].role /\ user[u].life # "absent"
    BY DEF IdentityInv, CopiesKnowTheRole, CopyOf
<1>3. user[u].role = "owner" => user[u].life = "present"
    BY <1>1 DEF IdentityInv, CopiesKnowTheRole, Present
<1>4. /\ user' = [user EXCEPT ![u] = IF visit[q].from = "cache" THEN changed ELSE merged]
      /\ visit[q].from = "db" => user[u].life = "present"
      /\ Go(q, [at |-> "committed", user |-> u]) /\ cached' = cached
    BY DEF Merge, Committed, Present, WithChanges
<1>5. user[u] \in UserRow
    BY <1>1
<1>6. merged \in UserRow /\ merged.role = user[u].role /\ merged.life = user[u].life
    BY <1>1, <1>5, RowsAreMerged
<1> HIDE DEF merged
<1>7. /\ user' \in [Users -> UserRow] /\ RolesStay
      /\ \A w \in Users : user'[w].role = "owner" => user'[w].life = "present"
  <2>1. CASE visit[q].from = "cache"
    <3>1. user' = [user EXCEPT ![u] = changed]
      BY <1>4, <2>1
    <3> QED
      BY <1>1, <1>2, <1>3, <3>1, UserWritten
  <2>2. CASE visit[q].from = "db"
    <3>1. user' = [user EXCEPT ![u] = merged] /\ user[u].life = "present"
      BY <1>4, <2>2
    <3> QED
      BY <1>1, <1>2, <1>3, <1>6, <3>1, UserWritten
  <2> QED
    BY <1>1, <2>1, <2>2
<1>8. /\ visit' \in [Visits \cup Links -> Visit] /\ visit'[q].at = "committed"
      /\ \A p \in Visits \cup Links : p # q => visit'[p] = visit[p]
  <2>1. [at |-> "committed", user |-> u] \in Visit
    BY <1>1 DEF Visit
  <2> QED
    BY <1>4, <2>1, VisitWritten
<1> QED
    BY <1>1, <1>4, <1>7, <1>8, IdentityWritten

\* A step keeps it, and the roles.
LEMMA IdentityStep ==
    IdentityInv /\ [IdentityNext]_identityVars => IdentityInv' /\ RolesStay
<1> SUFFICES ASSUME IdentityInv, [IdentityNext]_identityVars PROVE IdentityInv' /\ RolesStay
    OBVIOUS
<1>0. /\ user \in [Users -> UserRow] /\ cached \in [Users -> Copy]
      /\ visit \in [Visits \cup Links -> Visit]
      /\ \A u \in Users : user[u].role = "owner" => user[u].life = "present"
      /\ CopiesKnowTheRole
    BY DEF IdentityInv, IdentityTypeOK, CopiesKnowTheRole, Present, Copy, Visit
<1>1. user' = user => RolesStay
    BY <1>0 DEF RolesStay
<1>2. ASSUME NEW u \in Users,
             \/ create_account_with_owner(u) \/ find_or_create_user_from_google(u)
             \/ add_team_member(u) \/ remove_team_member(u)
      PROVE  IdentityInv' /\ RolesStay
  <2>1. PICK record \in UserRow :
           /\ user' = [user EXCEPT ![u] = record] /\ UNCHANGED <<cached, visit>>
           /\ \/ user[u].life = "absent" /\ record.life = "present"
              \/ user[u].role # "owner" /\ record.life = "removed" /\ record.role = "member"
    <3>1. ASSUME NEW role \in {"owner", "member"}, NEW verified \in BOOLEAN,
                 Create(u, role, verified)
          PROVE  \E record \in UserRow :
                    /\ user' = [user EXCEPT ![u] = record] /\ UNCHANGED <<cached, visit>>
                    /\ user[u].life = "absent" /\ record.life = "present"
      <4> DEFINE record == [NoRow("present") EXCEPT !.role = role, !.email_verified = verified]
      <4>1. record \in UserRow /\ record.life = "present"
        <5>1. NoRow("present") \in UserRow /\ NoRow("present").life = "present"
          BY IdentityAssumption DEF NoRow, UserRow
        <5> QED
          BY <5>1 DEF UserRow
      <4>2. user' = [user EXCEPT ![u] = record] /\ user[u].life = "absent"
            /\ UNCHANGED <<cached, visit>>
        BY <3>1 DEF Create
      <4> QED
        BY <4>1, <4>2
    <3>2. NoRow("removed") \in UserRow
      BY IdentityAssumption DEF NoRow, UserRow
    <3>3. CASE remove_team_member(u)
      BY <3>2, <3>3 DEF remove_team_member, NoRow
    <3> QED
      BY <1>2, <3>1, <3>3
      DEF create_account_with_owner, find_or_create_user_from_google, add_team_member
  <2>2. user[u].role \in {"owner", "member"}
    BY <1>0 DEF UserRow
  <2>3. /\ user' \in [Users -> UserRow] /\ RolesStay
        /\ \A w \in Users : user'[w].role = "owner" => user'[w].life = "present"
    BY <1>0, <2>1, <2>2, UserWritten
  <2> QED
    BY <1>0, <2>1, <2>3, IdentityWritten
<1>3. ASSUME NEW u \in Users, copy_expires(u)
      PROVE  IdentityInv' /\ RolesStay
  <2>1. /\ cached' = [cached EXCEPT ![u] = NoCopy] /\ UNCHANGED <<user, visit>>
    BY <1>3 DEF copy_expires
  <2>2. /\ cached' \in [Users -> Copy]
        /\ \A w \in Users : cached'[w] \in {cached[w], NoCopy}
    BY <1>0, <2>1 DEF Copy
  <2> QED
    BY <1>0, <1>1, <2>1, <2>2, IdentityWritten
<1>4. ASSUME NEW q \in Visits, NEW u \in Users, cache_get_hits(q, u) \/ cache_get_misses(q, u)
      PROVE  IdentityInv' /\ RolesStay
  <2>1. PICK state \in Visit : /\ Go(q, state) /\ UNCHANGED <<user, cached>>
                               /\ state.user = u /\ CopyOf(user[u], state.copy)
    <3>1. CASE cache_get_hits(q, u)
      <4>1. cached[u] # NoCopy /\ cached[u].copy \in UserRow
        BY <1>0, <3>1 DEF cache_get_hits, Copy
      <4>2. CopyOf(user[u], cached[u].copy)
        BY <1>0, <4>1 DEF CopiesKnowTheRole
      <4> QED
        BY <3>1, <4>1, <4>2 DEF cache_get_hits, Visit
    <3>2. CASE cache_get_misses(q, u)
      BY <1>0, <3>2 DEF cache_get_misses, Present, Visit, CopyOf
    <3> QED
      BY <1>4, <3>1, <3>2
  <2>2. /\ visit' \in [Visits \cup Links -> Visit] /\ visit'[q] = state
        /\ \A p \in Visits \cup Links : p # q => visit'[p] = visit[p]
    BY <2>1, VisitWritten
  <2> QED
    BY <1>0, <1>1, <2>1, <2>2, IdentityWritten
<1>5. ASSUME NEW q \in Links, NEW u \in Users, verify_email(q, u) \/ reset_password(q, u)
      PROVE  IdentityInv' /\ RolesStay
  <2>1. PICK record \in UserRow : /\ user' = [user EXCEPT ![u] = record] /\ cached' = cached
                               /\ Go(q, [at |-> "committed", user |-> u])
                               /\ record.role = user[u].role /\ record.life = "present"
    <3>1. user[u] \in UserRow
      BY <1>0
    <3>2. CASE verify_email(q, u)
      <4> DEFINE record == [user[u] EXCEPT !.email_verified = TRUE]
      <4>1. record \in UserRow /\ record.role = user[u].role /\ record.life = user[u].life
        BY <3>1 DEF UserRow
      <4> QED
        BY <3>2, <4>1 DEF verify_email, Present, Committed
    <3>3. CASE reset_password(q, u)
      <4> DEFINE record == [user[u] EXCEPT !.password = user[u].password + 1]
      <4>1. user[u].password \in 0..MaxPassword /\ user[u].password < MaxPassword
        BY <3>1, <3>3 DEF UserRow, reset_password
      <4>2. user[u].password + 1 \in 0..MaxPassword
        BY <4>1, IdentityAssumption
      <4>3. record \in UserRow /\ record.role = user[u].role /\ record.life = user[u].life
        BY <3>1, <4>2 DEF UserRow
      <4> QED
        BY <3>3, <4>3 DEF reset_password, Present, Committed
    <3> QED
      BY <1>5, <3>2, <3>3
  <2>2. /\ user' \in [Users -> UserRow] /\ RolesStay
        /\ \A w \in Users : user'[w].role = "owner" => user'[w].life = "present"
    BY <2>1, UserWritten
  <2>3. [at |-> "committed", user |-> u] \in Visit
    BY DEF Visit
  <2>4. /\ visit' \in [Visits \cup Links -> Visit] /\ visit'[q].at = "committed"
        /\ \A p \in Visits \cup Links : p # q => visit'[p] = visit[p]
    BY <2>1, <2>3, VisitWritten
  <2> QED
    BY <1>0, <2>1, <2>2, <2>4, IdentityWritten
<1>6. ASSUME NEW q \in Visits, ChangeProfile(q)
      PROVE  IdentityInv' /\ RolesStay
  <2>1. PICK changed \in UserRow : /\ visit[q].at = "serving" /\ Merge(q, changed)
                                   /\ changed.role = visit[q].copy.role
                                   /\ changed.life = visit[q].copy.life
    <3> DEFINE copy == visit[q].copy
    <3>1. visit[q].at = "serving" /\ copy \in UserRow
      <4>1. visit[q].at = "serving"
        BY <1>6
        DEF ChangeProfile, start_mfa_setup, enable_mfa, disable_mfa, set_phone_number
      <4> QED
        BY <1>0, <4>1 DEF Visit, Away
    <3>2. CASE start_mfa_setup(q)
      <4>1. PICK s \in Secrets :
               Merge(q, [copy EXCEPT !.mfa_secret = s, !.mfa_enabled = FALSE])
        BY <3>2 DEF start_mfa_setup
      <4> DEFINE new == [copy EXCEPT !.mfa_secret = s, !.mfa_enabled = FALSE]
      <4>2. new \in UserRow /\ new.role = copy.role /\ new.life = copy.life
        BY <3>1 DEF UserRow
      <4> QED
        BY <3>1, <4>1, <4>2
    <3>3. CASE enable_mfa(q)
      <4> DEFINE new == [copy EXCEPT !.mfa_enabled = TRUE]
      <4>1. new \in UserRow /\ new.role = copy.role /\ new.life = copy.life
        BY <3>1 DEF UserRow
      <4> QED
        BY <3>1, <3>3, <4>1 DEF enable_mfa
    <3>4. CASE disable_mfa(q)
      <4> DEFINE new == [copy EXCEPT !.mfa_secret = NoSecret, !.mfa_enabled = FALSE]
      <4>1. new \in UserRow /\ new.role = copy.role /\ new.life = copy.life
        BY <3>1 DEF UserRow
      <4> QED
        BY <3>1, <3>4, <4>1 DEF disable_mfa
    <3>5. CASE \E p \in Phones \cup {NoPhone} : set_phone_number(q, p)
      <4>1. PICK p \in Phones \cup {NoPhone} : Merge(q, [copy EXCEPT !.phone_number = p])
        BY <3>5 DEF set_phone_number
      <4> DEFINE new == [copy EXCEPT !.phone_number = p]
      <4>2. new \in UserRow /\ new.role = copy.role /\ new.life = copy.life
        BY <3>1 DEF UserRow
      <4> QED
        BY <3>1, <4>1, <4>2
    <3> QED
      BY <1>6, <3>2, <3>3, <3>4, <3>5 DEF ChangeProfile
  <2> QED
    BY <2>1, MergeStep
<1>7. ASSUME NEW q \in Visits, cache_set(q)
      PROVE  IdentityInv' /\ RolesStay
  <2> DEFINE u == visit[q].user
             copy == visit[q].copy
             state == [visit[q] EXCEPT !.at = "serving"]
  <2>1. /\ visit[q].at = "loaded" /\ user' = user /\ Go(q, state)
        /\ \/ cached' = [cached EXCEPT ![u] = [ttl |-> AUTH_CACHE_TTL_SECONDS, copy |-> copy]]
           \/ cached' = cached
    BY <1>7 DEF cache_set
  <2>2. /\ u \in Users /\ copy \in UserRow
        /\ visit[q] \in [at : {"loaded", "serving"}, user : Users, copy : UserRow,
                         from : {"cache", "db"}]
    BY <1>0, <2>1 DEF Visit, Away
  <2>3. CopyOf(user[u], copy)
    BY <1>0, <2>1 DEF CopiesKnowTheRole
  <2>4. state \in Visit /\ state.user = u /\ state.copy = copy
    BY <2>2 DEF Visit
  <2> HIDE DEF state
  <2>5. /\ visit' \in [Visits \cup Links -> Visit] /\ visit'[q] = state
        /\ \A p \in Visits \cup Links : p # q => visit'[p] = visit[p]
    BY <2>1, <2>4, VisitWritten
  <2>6. /\ cached' \in [Users -> Copy]
        /\ \A w \in Users : cached'[w] \in {cached[w], NoCopy} \/ CopyOf(user[w], cached'[w].copy)
    BY <1>0, <2>1, <2>2, <2>3 DEF Copy
  <2> QED
    BY <1>0, <1>1, <2>1, <2>2, <2>3, <2>4, <2>5, <2>6, IdentityWritten
<1>8. ASSUME NEW q \in Visits \cup Links, visit_ends(q) \/ invalidate_cached_user(q)
      PROVE  IdentityInv' /\ RolesStay
  <2>1. /\ Go(q, Away) /\ user' = user
        /\ cached' = cached \/ cached' = [cached EXCEPT ![visit[q].user] = NoCopy]
    BY <1>8 DEF visit_ends, invalidate_cached_user
  <2>2. /\ visit' \in [Visits \cup Links -> Visit] /\ visit'[q] = Away
        /\ \A p \in Visits \cup Links : p # q => visit'[p] = visit[p]
    BY <2>1, VisitWritten DEF Visit
  <2>3. /\ cached' \in [Users -> Copy]
        /\ \A w \in Users : cached'[w] \in {cached[w], NoCopy}
    BY <1>0, <2>1 DEF Copy
  <2> QED
    BY <1>0, <1>1, <2>1, <2>2, <2>3, IdentityWritten DEF Away
<1>9. CASE UNCHANGED identityVars
    BY <1>0, <1>1, <1>9, IdentityWritten DEF identityVars
<1> QED
    BY <1>2, <1>3, <1>4, <1>5, <1>6, <1>7, <1>8, <1>9 DEF IdentityNext

\* There are no users to begin with.
LEMMA IdentityStarts == IdentityInit => IdentityInv
  BY IdentityAssumption
  DEF IdentityInit, IdentityInv, IdentityTypeOK, CopiesKnowTheRole, NoRow, UserRow, Away

\* However old a copy is that a request merges back, nobody is given another role by
\* it, and an account does not lose its owner ("there is exactly one owner per
\* account", numbering/identity/service.py).
THEOREM RolesAreKept == IdentitySpec => [][RolesStay]_identityVars
<1>1. IdentityInv /\ [IdentityNext]_identityVars => IdentityInv' /\ [RolesStay]_identityVars
    BY IdentityStep
<1> QED
    BY <1>1, IdentityStarts, PTL DEF IdentitySpec
-----------------------------------------------------------------------------
(* All components together.                                                *)

PlatformInv ==
    /\ QueueInv
    /\ AuditInv
    /\ FlowInv
    /\ Routed
    /\ VideoInv
    /\ PortInv
    /\ LedgerInv
    /\ CaseInv
    /\ RiskInv
    /\ EvidenceAtRest
    /\ OutboxInv
    /\ EligibilityInv
    /\ BreakerInv
    /\ IdentityInv
    /\ NoticeInv

\* A step of a scene is a step of its component, and of no other.
LEMMA ScenesAreApart ==
    ASSUME [Next]_platformVars
    PROVE  /\ [QueueNext]_queueVars
           /\ [AuditedNext]_<<recordVars, auditVars>>
           /\ [FlowNext]_flowVars
           /\ [FlowCallNext]_flowCallVars
           /\ [VideoNext]_videoVars
           /\ [PortNext]_portVars
           /\ [LedgerNext]_ledgerVars
           /\ [CaseNext]_caseVars
           /\ [RiskNext]_riskVars
           /\ [RetentionNext]_retentionVars
           /\ [OutboxNext]_outboxVars
           /\ [EligibilityNext]_eligibilityVars
           /\ [BreakerNext]_breakerVars
           /\ [IdentityNext]_identityVars
           /\ [NoticeNext]_noticeVars
<1>1. CASE QueueScene
    BY <1>1 DEF QueueScene
<1>2. CASE RecordsScene
    BY <1>2 DEF RecordsScene, RecordsAlone, AuditedNext
<1>3. CASE AuditScene
    BY <1>3 DEF AuditScene, AuditAlone
<1>4. CASE VersionsScene
    BY <1>4 DEF VersionsScene
<1>5. CASE FlowScene
    BY <1>5 DEF FlowScene
<1>6. CASE VideoScene
    BY <1>6 DEF VideoScene
<1>7. CASE PortingScene
    BY <1>7 DEF PortingScene
<1>8. CASE UsageScene
    BY <1>8 DEF UsageScene
<1>9. CASE ComplianceScene
    BY <1>9 DEF ComplianceScene
<1>10. CASE RiskScene
    BY <1>10 DEF RiskScene
<1>11. CASE RetentionScene
    BY <1>11 DEF RetentionScene
<1>12. CASE OutboxScene
    BY <1>12 DEF OutboxScene
<1>13. CASE EligibilityScene
    BY <1>13 DEF EligibilityScene, EligibilityAlone
<1>14. CASE BreakerScene
    BY <1>14 DEF BreakerScene, BreakerAlone
<1>15. CASE IdentityScene
    BY <1>15 DEF IdentityScene
<1>16. CASE NoticesScene
    BY <1>16 DEF NoticesScene, NoticesAlone
<1>17. CASE UNCHANGED platformVars
    BY <1>17 DEF platformVars
<1> QED
    BY <1>1, <1>2, <1>3, <1>4, <1>5, <1>6, <1>7, <1>8, <1>9, <1>10, <1>11, <1>12, <1>13,
       <1>14, <1>15, <1>16, <1>17 DEF Next

\* And so each component keeps its invariant.
LEMMA PlatformStep == PlatformInv /\ [Next]_platformVars => PlatformInv'
<1> SUFFICES ASSUME PlatformInv, [Next]_platformVars PROVE PlatformInv'
    OBVIOUS
<1>1. QueueInv'
    BY ScenesAreApart, QueueStep DEF PlatformInv
<1>2. AuditInv'
    BY ScenesAreApart, AuditStep DEF PlatformInv
<1>3. FlowInv'
    BY ScenesAreApart, FlowStep DEF PlatformInv
<1>4. Routed'
    BY ScenesAreApart, FlowCallStep DEF PlatformInv
<1>5. VideoInv'
    BY ScenesAreApart, VideoStep DEF PlatformInv
<1>6. PortInv'
    BY ScenesAreApart, PortStepKeeps DEF PlatformInv
<1>7. LedgerInv'
    BY ScenesAreApart, LedgerStepKeeps DEF PlatformInv
<1>8. CaseInv'
    BY ScenesAreApart, CaseStep DEF PlatformInv
<1>9. RiskInv'
    BY ScenesAreApart, RiskStep DEF PlatformInv
<1>10. EvidenceAtRest'
    BY ScenesAreApart, EvidenceStep DEF PlatformInv
<1>11. OutboxInv'
    BY ScenesAreApart, OutboxStepKeeps DEF PlatformInv
<1>12. EligibilityInv'
    BY ScenesAreApart, EligibilityStep DEF PlatformInv
<1>13. BreakerInv'
    BY ScenesAreApart, BreakerStep DEF PlatformInv
<1>14. IdentityInv'
    BY ScenesAreApart, IdentityStep DEF PlatformInv
<1>15. NoticeInv'
    BY ScenesAreApart, NoticeStep DEF PlatformInv
<1> QED
    BY <1>1, <1>2, <1>3, <1>4, <1>5, <1>6, <1>7, <1>8, <1>9, <1>10, <1>11, <1>12, <1>13,
       <1>14, <1>15 DEF PlatformInv

\* Every component begins with its own.
LEMMA PlatformStarts == Init => PlatformInv
<1> SUFFICES ASSUME Init PROVE PlatformInv
    OBVIOUS
<1>0. /\ QueueInit /\ RecordInit /\ AuditInit /\ FlowInit /\ FlowCallInit /\ VideoInit
      /\ PortInit /\ LedgerInit /\ CaseInit /\ RiskInit /\ RetentionInit /\ OutboxInit
      /\ EligibilityInit /\ BreakerInit /\ IdentityInit /\ NoticeInit
    BY DEF Init
<1>1. QueueInv /\ AuditInv /\ FlowInv /\ Routed /\ VideoInv
    BY <1>0, QueueStarts, AuditStarts, FlowStarts, FlowCallStarts, VideoStarts
<1>2. PortInv /\ LedgerInv /\ CaseInv /\ RiskInv /\ EvidenceAtRest
    BY <1>0, PortStarts, LedgerStarts, CaseBegins, RiskBegins, EvidenceBegins
<1>3. OutboxInv /\ EligibilityInv /\ BreakerInv /\ IdentityInv /\ NoticeInv
    BY <1>0, OutboxStarts, EligibilityStarts, BreakerStarts, IdentityStarts, NoticeStarts
<1> QED
    BY <1>1, <1>2, <1>3 DEF PlatformInv

\* Every state of every component has its type.
THEOREM PlatformTypeCorrect == Spec => []TypeOK
<1>1. PlatformInv => TypeOK
    BY DEF PlatformInv, TypeOK, QueueInv, AuditInv, RecordInv, FlowInv, Routed, VideoInv,
           PortInv, LedgerInv, CaseInv, RiskInv, EvidenceAtRest, OutboxInv, EligibilityInv,
           BreakerInv, IdentityInv, NoticeInv
<1> QED
    BY <1>1, PlatformStarts, PlatformStep, PTL DEF Spec

\* Side by side, the components keep what each of them keeps alone.
PlatformSafety ==
    /\ OneAgentPerCaller
    /\ MeteredOnce
    /\ ExceptionsAreCompleted
    /\ OnePublished
    /\ NoNodeIsMissing
    /\ EndedIsOver
    /\ CompletedOwnsNumber
    /\ LedgerExplainsCost
    /\ SessionDecidesOnce
    /\ ThresholdSuspends
    /\ HoldKeepsEvidence
    /\ NothingSkipped
    /\ NamesSubmittedBundle
    /\ OpensAtThreshold
    /\ HeldBackMailStays

\* All that is proved of a component holds of the platform they are part of.
THEOREM PlatformIsSafe == Spec => []PlatformSafety
<1>1. PlatformInv => PlatformSafety
    BY DEF PlatformInv, PlatformSafety, QueueInv, LogInv, AuditInv, RecordInv, FlowInv, Routed,
           VideoInv, RoomInv, EndedIsOver, PortInv, LedgerInv, CaseInv, RiskInv,
           OverIsSuspended, ThresholdSuspends, SignalHandled, EvidenceAtRest,
           HoldKeepsEvidence, OutboxInv, EligibilityInv, BreakerInv, NoticeInv
<1> QED
    BY <1>1, PlatformStarts, PlatformStep, PTL DEF Spec
=============================================================================
