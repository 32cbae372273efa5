--------------------------- MODULE EligibilityCase ---------------------------
(***************************************************************************)
(* The eligibility case of one number (numbering/numbers/service.py): the  *)
(* customer's documents, the regulatory bundles made of them at Twilio,    *)
(* and its status, which Twilio's reviewers decide, seen through webhooks, *)
(* a button and the daily sweep, or the staff.  A submission locks the row *)
(* from its checks to its commit; everything else reads the row without a  *)
(* lock and waits for it only to write. A read and a write with no call in *)
(* between are one step.                                                   *)
(***************************************************************************)
EXTENDS FiniteSets

CONSTANTS
    Bundles,     \* a bound on submissions
    NoBundle,
    Askers,      \* who may be applying what Twilio said
    Sweeper      \* the daily job

ASSUME BundleAssumption == NoBundle \notin Bundles
ASSUME SweeperAssumption == Sweeper \in Askers

VARIABLES
    filed,       \* the row: status, twilio_bundle_sid, twilio_bundle_status,
                 \* and whether a document is on file
    bundle,      \* the bundles at Twilio
    submitting,  \* the bundle of the submission that holds the row
    asked,       \* what each asker read of the row, and Twilio's answer
    pushed       \* bundles with a status callback on its way

eligibilityVars == <<filed, bundle, submitting, asked, pushed>>

Decisions == {"approved", "rejected"}
Unasked == [answer |-> "none"]
Row == [status : {"none", "pending"} \cup Decisions,
        sid : Bundles \cup {NoBundle},
        bundle_status : {"none", "review"} \cup Decisions,
        document : BOOLEAN]

EligibilityTypeOK ==
    /\ filed \in Row
    /\ bundle \in [Bundles -> {"none", "draft", "review"} \cup Decisions]
    /\ submitting \in Bundles \cup {NoBundle}
    /\ asked \in [Askers -> {Unasked} \cup [read : Row, answer : {"review"} \cup Decisions]]
    /\ pushed \subseteq Bundles

EligibilityInit ==
    /\ filed = [status |-> "none", sid |-> NoBundle, bundle_status |-> "none", document |-> FALSE]
    /\ bundle = [b \in Bundles |-> "none"]
    /\ submitting = NoBundle
    /\ asked = [a \in Askers |-> Unasked]
    /\ pushed = {}

Opened == filed.status # "none"
Unlocked == submitting = NoBundle

-----------------------------------------------------------------------------
(* The customer.                                                           *)

get_or_open_eligibility_case ==
    /\ ~Opened
    /\ filed' = [filed EXCEPT !.status = "pending"]
    /\ UNCHANGED <<bundle, submitting, asked, pushed>>

submit_number_eligibility_document ==
    /\ Opened /\ Unlocked
    /\ filed' = [filed EXCEPT !.document = TRUE]
    /\ UNCHANGED <<bundle, submitting, asked, pushed>>

submit_number_eligibility_evidence ==
    /\ Opened /\ Unlocked
    /\ filed' = [filed EXCEPT !.status = IF @ = "rejected" THEN "pending" ELSE @]
    /\ UNCHANGED <<bundle, submitting, asked, pushed>>

MaySubmit ==
    /\ filed.document
    /\ filed.status # "approved"
    /\ filed.sid = NoBundle \/ filed.bundle_status = "rejected"

submit_number_eligibility_bundle(b) ==
    /\ Opened /\ Unlocked
    /\ MaySubmit
    /\ bundle[b] = "none"
    /\ bundle' = [bundle EXCEPT ![b] = "draft"]
    /\ submitting' = b
    /\ UNCHANGED <<filed, asked, pushed>>

submit_bundle_for_review ==
    /\ ~Unlocked
    /\ bundle[submitting] = "draft"
    /\ bundle' = [bundle EXCEPT ![submitting] = "review"]
    /\ UNCHANGED <<filed, submitting, asked, pushed>>

\* The status of the case is left as it is, rejected perhaps.
bundle_submitted ==
    /\ ~Unlocked
    /\ bundle[submitting] # "draft"
    /\ filed' = [filed EXCEPT !.sid = submitting, !.bundle_status = "review"]
    /\ submitting' = NoBundle
    /\ UNCHANGED <<bundle, asked, pushed>>

\* One of Twilio's calls fails, or the worker dies: nothing is recorded.
submission_fails ==
    /\ ~Unlocked
    /\ submitting' = NoBundle
    /\ UNCHANGED <<filed, bundle, asked, pushed>>

-----------------------------------------------------------------------------
(* Twilio decides, and is asked.                                           *)

bundle_reviewed(b, decision) ==
    /\ bundle[b] = "review"
    /\ bundle' = [bundle EXCEPT ![b] = decision]
    /\ pushed' = pushed \cup {b}
    /\ UNCHANGED <<filed, submitting, asked>>

\* A callback that comes before the row names its bundle is answered and gone.
push_is_lost(b) ==
    /\ b \in pushed
    /\ pushed' = pushed \ {b}
    /\ UNCHANGED <<filed, bundle, submitting, asked>>

Learns(a) ==
    /\ asked[a] = Unasked
    /\ asked' = [asked EXCEPT ![a] = [read |-> filed, answer |-> bundle[filed.sid]]]

handle_bundle_status_webhook(a, b) ==
    /\ a # Sweeper
    /\ b \in pushed
    /\ filed.sid = b
    /\ Learns(a)
    /\ pushed' \in {pushed, pushed \ {b}}
    /\ UNCHANGED <<filed, bundle, submitting>>

sync_number_eligibility_bundle_status(a) ==
    /\ a # Sweeper
    /\ filed.sid # NoBundle
    /\ Learns(a)
    /\ UNCHANGED <<filed, bundle, submitting, pushed>>

\* Mutant: a sweep of the bundles that are not known to be decided.
Undecided == filed.status = "pending" /\ filed.sid # NoBundle /\ filed.bundle_status = "review"

Sweepable == filed.status = "pending" /\ filed.sid # NoBundle

sync_all_pending_eligibility_cases ==
    /\ Sweepable
    /\ Learns(Sweeper)
    /\ UNCHANGED <<filed, bundle, submitting, pushed>>

\* A column is written if it differs from what was read.
Written(read, new, now) == IF new = read THEN now ELSE new

apply_bundle_status_result(a) ==
    /\ asked[a] # Unasked
    /\ Unlocked
    /\ LET read == asked[a].read
           answer == asked[a].answer
           status == IF answer \in Decisions THEN answer ELSE read.status
       IN filed' = [filed EXCEPT
             !.bundle_status = Written(read.bundle_status, answer, @),
             !.status = Written(read.status, status, @)]
    /\ asked' = [asked EXCEPT ![a] = Unasked]
    /\ UNCHANGED <<bundle, submitting, pushed>>

asker_dies(a) ==
    /\ asked[a] # Unasked
    /\ asked' = [asked EXCEPT ![a] = Unasked]
    /\ UNCHANGED <<filed, bundle, submitting, pushed>>

\* approve_number_eligibility_case and reject_number_eligibility_case ask
\* nothing of the status they replace.
number_eligibility_case_decided(decision) ==
    /\ Opened /\ Unlocked
    /\ filed' = [filed EXCEPT !.status = decision]
    /\ UNCHANGED <<bundle, submitting, asked, pushed>>

EligibilityNext ==
    \/ get_or_open_eligibility_case
    \/ submit_number_eligibility_document
    \/ submit_number_eligibility_evidence
    \/ \E b \in Bundles :
          \/ submit_number_eligibility_bundle(b)
          \/ push_is_lost(b)
          \/ \E decision \in Decisions : bundle_reviewed(b, decision)
          \/ \E a \in Askers : handle_bundle_status_webhook(a, b)
    \/ submit_bundle_for_review \/ bundle_submitted \/ submission_fails
    \/ sync_all_pending_eligibility_cases
    \/ \E a \in Askers :
          \/ sync_number_eligibility_bundle_status(a)
          \/ apply_bundle_status_result(a)
          \/ asker_dies(a)
    \/ \E decision \in Decisions : number_eligibility_case_decided(decision)

EligibilitySpec == EligibilityInit /\ [][EligibilityNext]_eligibilityVars

\* A submission ends. (And the sweep runs every day, and does not find Twilio out
\* of reach, or die, every day: strong fairness of its two steps, in MCPlatform.)
EligibilityFair ==
    WF_eligibilityVars(submit_bundle_for_review \/ bundle_submitted \/ submission_fails)

-----------------------------------------------------------------------------
(* Properties.                                                             *)

\* A pending case about which Twilio has decided.
Unnoticed ==
    /\ filed.status = "pending"
    /\ filed.sid # NoBundle
    /\ bundle[filed.sid] \in Decisions

\* What Twilio has decided about a pending case is noticed, even if its callback
\* is lost or early and the customer never comes back
\* (sync_all_pending_eligibility_cases: "so an approval/rejection isn't missed
\* just because nobody happened to click the button").
DecisionIsNoticed == []<>~Unnoticed
=============================================================================
