----------------------------- MODULE MCPlatform -----------------------------
(* The components that share no rows: a behaviour is about one of them, its  *)
(* scene, and the others stay as they began.                                 *)
EXTENDS
    CallQueue, Reconciliation, FlowVersions, FlowCall, VideoRoom, Porting,
    UsageLedger, ComplianceCase, RiskEngine, Retention, Outbox, EligibilityCase,
    CircuitBreaker, Identity, Notifications

VARIABLE scene

MCPortAccount == [p \in Ports |-> p]
\* Sixty points a signal, and no more than MAX_RISK_SCORE.
MCScore == [W \in SUBSET Signals |-> IF Cardinality(W) < 2 THEN 60 * Cardinality(W) ELSE 100]
\* A template for each domain, and one (named NoDomain) that has none.
MCDomain == [t \in Templates |-> t]

platformVars ==
    <<scene,
      queueVars, recordVars, auditVars, flowVars, flowCallVars, videoVars, portVars,
      ledgerVars, caseVars, riskVars, retentionVars, outboxVars, eligibilityVars, breakerVars,
        identityVars, noticeVars>>

Init ==
    /\ scene \in
          {"queue", "records", "versions", "flow", "video", "porting",
          "usage", "compliance", "risk", "retention", "outbox", "eligibility",
          "breaker", "identity", "audit", "notices"}
    /\ QueueInit
    /\ RecordInit
    /\ AuditInit
    /\ FlowInit
    /\ FlowCallInit
    /\ VideoInit
    /\ PortInit
    /\ LedgerInit
    /\ CaseInit
    /\ RiskInit
    /\ RetentionInit
    /\ OutboxInit
    /\ EligibilityInit
    /\ BreakerInit
    /\ IdentityInit
    /\ NoticeInit
    /\ scene # "flow" => <<nodes, entry>> =
          CHOOSE f \in Drafts \X NodeIds : validate_flow(f[1], f[2])
    /\ scene # "risk" => risk_state = "PAID_NORMAL"
    /\ scene # "versions" => \A i \in DOMAIN versions : versions[i].nodes \in Valid

\* One dispatch at a time rings although we have given up on it.
QueueScene ==
    /\ scene = "queue"
    /\ QueueNext
    /\ Cardinality({p \in Pulls : pull'[p].lost}) <= 1
    /\ UNCHANGED <<scene,
        recordVars, auditVars, flowVars, flowCallVars, videoVars, portVars, ledgerVars,
        caseVars, riskVars, retentionVars, outboxVars, eligibilityVars, breakerVars,
        identityVars, noticeVars>>

RecordsAlone ==
    UNCHANGED <<scene,
        auditVars, queueVars, flowVars, flowCallVars, videoVars, portVars, ledgerVars,
        caseVars, riskVars, retentionVars, outboxVars, eligibilityVars, breakerVars,
        identityVars, noticeVars>>

RecordsScene ==
    /\ scene = "records"
    /\ RecordNext
    /\ RecordsAlone

AuditAlone ==
    UNCHANGED <<scene,
        queueVars, flowVars, flowCallVars, videoVars, portVars, ledgerVars,
        caseVars, riskVars, retentionVars, outboxVars, eligibilityVars, breakerVars,
        identityVars, noticeVars>>

\* One call is enough for what the reconciliation adds.
AuditScene ==
    /\ scene = "audit"
    /\ AuditedNext
    /\ \E c \in Calls : \A d \in Calls \ {c} : origin'[d] = "none"
    /\ AuditAlone

VersionsScene ==
    /\ scene = "versions"
    /\ FlowNext
    /\ UNCHANGED <<scene,
        queueVars, recordVars, auditVars, flowCallVars, videoVars, portVars, ledgerVars,
        caseVars, riskVars, retentionVars, outboxVars, eligibilityVars, breakerVars,
        identityVars, noticeVars>>

FlowScene ==
    /\ scene = "flow"
    /\ FlowCallNext
    /\ UNCHANGED <<scene,
        queueVars, recordVars, auditVars, flowVars, videoVars, portVars, ledgerVars,
        caseVars, riskVars, retentionVars, outboxVars, eligibilityVars, breakerVars,
        identityVars, noticeVars>>

\* Two requests and webhooks at a time are between a look at the row and a commit.
VideoScene ==
    /\ scene = "video"
    /\ VideoNext
    /\ Cardinality({r \in VideoRequests : asks'[r] # NoAsk}) + Cardinality(found') <= 2
    /\ UNCHANGED <<scene,
        queueVars, recordVars, auditVars, flowVars, flowCallVars, portVars, ledgerVars,
        caseVars, riskVars, retentionVars, outboxVars, eligibilityVars, breakerVars,
        identityVars, noticeVars>>

PortingScene ==
    /\ scene = "porting"
    /\ PortNext
    /\ UNCHANGED <<scene,
        queueVars, recordVars, auditVars, flowVars, flowCallVars, videoVars, ledgerVars,
        caseVars, riskVars, retentionVars, outboxVars, eligibilityVars, breakerVars,
        identityVars, noticeVars>>

UsageScene ==
    /\ scene = "usage"
    /\ LedgerNext
    /\ UNCHANGED <<scene,
        queueVars, recordVars, auditVars, flowVars, flowCallVars, videoVars, portVars,
        caseVars, riskVars, retentionVars, outboxVars, eligibilityVars, breakerVars,
        identityVars, noticeVars>>

\* What is in the middle of something. Uploads, documents and a re-verification that
\* is due have little to do with decisions, and count for more.
CaseJobs ==
    Cardinality({x \in Deciders : decider[x] # NoDecision})
    + Cardinality({c \in Customers : customer[c].step = "kyc"})
    + 2 * Cardinality({c \in Customers : customer[c].step = "upload"})
    + Cardinality(kase.documents)
    + (IF sweep THEN 1 ELSE 0) + (IF clock.due THEN 2 ELSE 0)

\* Two at a time are enough for one to overtake the other.
ComplianceScene ==
    /\ scene = "compliance"
    /\ CaseNext
    /\ CaseJobs' <= 2
    /\ UNCHANGED <<scene,
        queueVars, recordVars, auditVars, flowVars, flowCallVars, videoVars, portVars,
        ledgerVars, riskVars, retentionVars, outboxVars, eligibilityVars, breakerVars,
        identityVars, noticeVars>>

UnderWay == {a \in Signals \cup Requests : handler[a].step \notin {"new", "done", "dead"}}

\* Two handlers at a time; where staff have decided, as many as signals may come,
\* for nothing is claimed of the account until the next.
RiskScene ==
    /\ scene = "risk"
    /\ RiskNext
    /\ Cardinality(UnderWay') <=
          IF overruled' THEN Cardinality({s \in Signals : handler'[s].step = "new"}) ELSE 2
    /\ UNCHANGED <<scene,
        queueVars, recordVars, auditVars, flowVars, flowCallVars, videoVars, portVars,
        ledgerVars, caseVars, retentionVars, outboxVars, eligibilityVars, breakerVars,
        identityVars, noticeVars>>

RetentionScene ==
    /\ scene = "retention"
    /\ RetentionNext
    /\ UNCHANGED <<scene,
        queueVars, recordVars, auditVars, flowVars, flowCallVars, videoVars, portVars,
        ledgerVars, caseVars, riskVars, outboxVars, eligibilityVars, breakerVars,
        identityVars, noticeVars>>

OutboxScene ==
    /\ scene = "outbox"
    /\ OutboxNext
    /\ UNCHANGED <<scene,
        queueVars, recordVars, auditVars, flowVars, flowCallVars, videoVars, portVars,
        ledgerVars, caseVars, riskVars, retentionVars, eligibilityVars, breakerVars,
        identityVars, noticeVars>>

EligibilityAlone ==
    UNCHANGED <<scene,
        queueVars, recordVars, auditVars, flowVars, flowCallVars, videoVars, portVars,
        ledgerVars, caseVars, riskVars, retentionVars, outboxVars, breakerVars,
        identityVars, noticeVars>>

EligibilityScene ==
    /\ scene = "eligibility"
    /\ EligibilityNext
    /\ EligibilityAlone

BreakerAlone ==
    UNCHANGED <<scene,
        queueVars, recordVars, auditVars, flowVars, flowCallVars, videoVars, portVars,
        ledgerVars, caseVars, riskVars, retentionVars, outboxVars, eligibilityVars,
        identityVars, noticeVars>>

BreakerScene ==
    /\ scene = "breaker"
    /\ BreakerNext
    /\ BreakerAlone

IdentityScene ==
    /\ scene = "identity"
    /\ IdentityNext
    /\ UNCHANGED <<scene,
        queueVars, recordVars, auditVars, flowVars, flowCallVars, videoVars, portVars,
        ledgerVars, caseVars, riskVars, retentionVars, outboxVars, eligibilityVars,
        breakerVars, noticeVars>>

NoticesAlone ==
    UNCHANGED <<scene,
        queueVars, recordVars, auditVars, flowVars, flowCallVars, videoVars, portVars,
        ledgerVars, caseVars, riskVars, retentionVars, outboxVars, eligibilityVars,
        breakerVars, identityVars>>

NoticesScene ==
    /\ scene = "notices"
    /\ NoticeNext
    /\ NoticesAlone

Next ==
    \/ QueueScene
    \/ RecordsScene
    \/ AuditScene
    \/ VersionsScene
    \/ FlowScene
    \/ VideoScene
    \/ PortingScene
    \/ UsageScene
    \/ ComplianceScene
    \/ RiskScene
    \/ RetentionScene
    \/ OutboxScene
    \/ EligibilityScene
    \/ BreakerScene
    \/ IdentityScene
    \/ NoticesScene

\* What is possible only now and then and is done in the end all the same. The
\* scenes exclude each other, and so their actions can share a formula: three for
\* TLC to tell apart, not seven.
FirstCall == CHOOSE c \in Calls : TRUE

StronglyFair ==
    /\ SF_platformVars(
          \/ sweep_stale_calls(FirstCall, TRUE) /\ RecordsAlone
          \/ sync_all_pending_eligibility_cases /\ EligibilityAlone
          \/ \E t \in Threads : primary_answers(t) /\ BreakerAlone
          \/ \E h \in Hooks : add_suppression(h, TRUE) /\ NoticesAlone)
    /\ SF_platformVars(
          \/ \E c \in Calls \ {FirstCall} : sweep_stale_calls(c, TRUE) /\ RecordsAlone
          \/ apply_bundle_status_result(Sweeper) /\ EligibilityAlone)
    /\ SF_platformVars(\E a \in Auditors : run_zoikonex_reconciliation(a) /\ AuditAlone)

\* Where the breaker is in use, its customers go on calling.
Spec ==
    /\ Init /\ [][Next]_platformVars
    /\ QueueFair /\ RecordFair /\ VideoFair /\ EligibilityFair /\ BreakerFair
    /\ IdentityFair /\ NoticeFair
    /\ WF_auditVars(scene = "audit" /\ every_day)
    /\ WF_breakerVars(scene = "breaker" /\ customers_call)
    /\ StronglyFair

TypeOK ==
    /\ QueueTypeOK
    /\ RecordTypeOK
    /\ AuditTypeOK
    /\ FlowTypeOK
    /\ FlowCallTypeOK
    /\ VideoTypeOK
    /\ PortTypeOK
    /\ LedgerTypeOK
    /\ CaseTypeOK
    /\ RiskTypeOK
    /\ RetentionTypeOK
    /\ OutboxTypeOK
    /\ EligibilityTypeOK
    /\ BreakerTypeOK
    /\ IdentityTypeOK
    /\ NoticeTypeOK

\* CallsAreAccountedFor of the behaviours that are about the reconciliation: a
\* completed call is metered or in the queue again, wherever workers die
\* ("exceptions must enter an operations queue", billing/service.py).
CallsStayAccountedFor == []<>(scene = "audit" => Accounted)
=============================================================================
