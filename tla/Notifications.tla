---------------------------- MODULE Notifications ----------------------------
(***************************************************************************)
(* The e-mails to one address (notifications/service.py): preferences and  *)
(* suppressions that a send consults, Resend's webhooks about what became  *)
(* of it, and the rows that bounces, complaints and unsubscribing leave.   *)
(***************************************************************************)

CONSTANTS
    Emails,     \* send_notification calls
    Templates,  \* their templates
    Domain,     \* NotificationTemplate.domain, or NoDomain
    Exempt,     \* the templates of SECURITY category or CRITICAL priority
    NoDomain,
    Hooks       \* workers that serve Resend's webhooks

ASSUME TemplateAssumption == Exempt \subseteq Templates /\ DOMAIN Domain = Templates

Domains == {Domain[t] : t \in Templates}

VARIABLES
    preference,  \* NotificationPreference: whether mail is on, the domains that are off
    suppressed,  \* the domains of the NotificationSuppression rows
    mail,        \* each send: its template, how far it is, and its delivery's status
    fate,        \* what Resend knows of it
    webhooks,    \* Resend's webhooks not answered yet
    hook         \* a webhook under way

noticeVars == <<preference, suppressed, mail, fate, webhooks, hook>>

\* A row whose domain is NULL blocks every send.
Global == NoDomain

Unsent == [step |-> "none"]
NotHooked == [step |-> "idle"]
Reports == {"delivered", "clicked", "bounced", "complained"}
Fatal == {"bounced", "complained"}

NoticeTypeOK ==
    /\ preference \in [on : BOOLEAN, off : SUBSET Domains]
    /\ suppressed \subseteq Domains \cup {Global}
    /\ mail \in [Emails -> {Unsent}
          \cup [step : {"sending", "sent"}, template : Templates]
          \cup [step : {"recorded"}, template : Templates,
                status : {"suppressed", "failed", "sent"} \cup Reports]]
    /\ fate \in [Emails -> {"none", "accepted"} \cup Reports]
    /\ webhooks \in [Emails -> SUBSET Reports]
    /\ hook \in [Hooks -> {NotHooked} \cup [step : {"suppress"}, email : Emails, report : Fatal]]

NoticeInit ==
    /\ preference = [on |-> TRUE, off |-> {}]
    /\ suppressed = {}
    /\ mail = [m \in Emails |-> Unsent]
    /\ fate = [m \in Emails |-> "none"]
    /\ webhooks = [m \in Emails |-> {}]
    /\ hook = [h \in Hooks |-> NotHooked]

-----------------------------------------------------------------------------
(* Sending.                                                                *)

update_preference(on, off) ==
    /\ preference' = [on |-> on, off |-> off]
    /\ UNCHANGED <<suppressed, mail, fate, webhooks, hook>>

check_suppression(t) ==
    \/ Global \in suppressed
    \/ t \notin Exempt /\ Domain[t] \in suppressed

OptedOut(t) == t \notin Exempt /\ (~preference.on \/ Domain[t] \in preference.off)

Record(m, t, status) ==
    mail' = [mail EXCEPT ![m] = [step |-> "recorded", template |-> t, status |-> status]]

\* quiet: it is within the account's quiet hours.
send_notification(m, t, quiet) ==
    /\ mail[m] = Unsent
    /\ IF check_suppression(t) \/ OptedOut(t) \/ (quiet /\ t \notin Exempt)
       THEN Record(m, t, "suppressed")
       ELSE mail' = [mail EXCEPT ![m] = [step |-> "sending", template |-> t]]
    /\ UNCHANGED <<preference, suppressed, fate, webhooks, hook>>

\* Resend takes it; or refuses it, or its answer is lost.
send_email(m, taken, answered) ==
    /\ mail[m].step = "sending"
    /\ IF taken /\ answered
       THEN mail' = [mail EXCEPT ![m].step = "sent"]
       ELSE Record(m, mail[m].template, "failed")
    /\ fate' = [fate EXCEPT ![m] = IF taken THEN "accepted" ELSE @]
    /\ UNCHANGED <<preference, suppressed, webhooks, hook>>

\* The delivery is committed after it has left, with Resend's id.
delivery_recorded(m) ==
    /\ mail[m].step = "sent"
    /\ Record(m, mail[m].template, "sent")
    /\ UNCHANGED <<preference, suppressed, fate, webhooks, hook>>

sender_dies(m) ==
    /\ mail[m].step \in {"sending", "sent"}
    /\ Record(m, mail[m].template, "failed")
    /\ UNCHANGED <<preference, suppressed, fate, webhooks, hook>>

-----------------------------------------------------------------------------
(* What becomes of it.                                                     *)

resend_reports(m, report) ==
    /\ \/ fate[m] = "accepted" /\ report \in {"delivered", "bounced"}
       \/ fate[m] = "delivered" /\ report \in {"clicked", "complained"}
    /\ fate' = [fate EXCEPT ![m] = report]
    /\ webhooks' = [webhooks EXCEPT ![m] = @ \cup {report}]
    /\ UNCHANGED <<preference, suppressed, mail, hook>>

\* Mutant: a webhook that finds its status in the row is taken for a repeat.
NewsOnly(m, report) == report \in Fatal /\ (mail[m].step = "recorded" => mail[m].status # report)

Suppresses(m, report) == report \in Fatal

\* A failed or dead request has left no id to find its row by.
Known(m) == mail[m].step = "recorded" /\ mail[m].status \notin {"suppressed", "failed"}

handle_resend_webhook(h, m, report) ==
    /\ hook[h] = NotHooked
    /\ report \in webhooks[m]
    /\ mail' = IF Known(m) THEN [mail EXCEPT ![m].status = report] ELSE mail
    /\ IF Suppresses(m, report)
       THEN /\ hook' = [hook EXCEPT ![h] = [step |-> "suppress", email |-> m, report |-> report]]
            /\ UNCHANGED webhooks
       ELSE /\ webhooks' = [webhooks EXCEPT ![m] = @ \ {report}]
            /\ UNCHANGED hook
    /\ UNCHANGED <<preference, suppressed, fate>>

\* A row that is there already is left as it is. Resend repeats what it thinks
\* was not answered.
add_suppression(h, answered) ==
    /\ hook[h].step = "suppress"
    /\ suppressed' = suppressed \cup {Global}
    /\ webhooks' = IF answered
                THEN [webhooks EXCEPT ![hook[h].email] = @ \ {hook[h].report}]
                ELSE webhooks
    /\ hook' = [hook EXCEPT ![h] = NotHooked]
    /\ UNCHANGED <<preference, mail, fate>>

hook_dies(h) ==
    /\ hook[h] # NotHooked
    /\ hook' = [hook EXCEPT ![h] = NotHooked]
    /\ UNCHANGED <<preference, suppressed, mail, fate, webhooks>>

\* The link of an e-mail that has one names the domain of its template, and
\* Global if it has none.
unsubscribe_via_token(m) ==
    /\ fate[m] \in {"delivered", "clicked"}
    /\ mail[m].template \notin Exempt
    /\ suppressed' = suppressed \cup {Domain[mail[m].template]}
    /\ UNCHANGED <<preference, mail, fate, webhooks, hook>>

-----------------------------------------------------------------------------
NoticeNext ==
    \/ \E on \in BOOLEAN, off \in SUBSET (Domains \ {NoDomain}) : update_preference(on, off)
    \/ \E m \in Emails :
          \/ \E t \in Templates, quiet \in BOOLEAN : send_notification(m, t, quiet)
          \/ \E taken, answered \in BOOLEAN : send_email(m, taken, answered)
          \/ delivery_recorded(m) \/ sender_dies(m)
          \/ \E report \in Reports : resend_reports(m, report)
          \/ unsubscribe_via_token(m)
    \/ \E h \in Hooks :
          \/ \E m \in Emails, report \in Reports : handle_resend_webhook(h, m, report)
          \/ \E answered \in BOOLEAN : add_suppression(h, answered)
          \/ hook_dies(h)

NoticeSpec == NoticeInit /\ [][NoticeNext]_noticeVars

\* Resend repeats a webhook until it is answered. (And some day the request is
\* not cut short: strong fairness of add_suppression, in MCPlatform.)
NoticeFair ==
    WF_noticeVars(\E h \in Hooks, m \in Emails, report \in Fatal : handle_resend_webhook(h, m, report))

-----------------------------------------------------------------------------
\* "An invalid address is never overridden" (check_suppression): an address that
\* bounced or complained is in the end suppressed, whether the webhook comes
\* before the delivery is recorded, or never finds it, or is cut short between
\* the delivery and the suppression and delivered again.
BouncesSuppress ==
    []<>((\E m \in Emails : fate[m] \in Fatal) => Global \in suppressed)
=============================================================================
