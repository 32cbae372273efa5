------------------------------ MODULE Retention ------------------------------
(***************************************************************************)
(* The call recordings of one account, their deletion and its legal hold   *)
(* (retention/service.py): the daily sweep, the erasure of the account on  *)
(* request and the erasure of one call overlap, and each deletes at the    *)
(* provider before it marks the row.                                       *)
(***************************************************************************)
EXTENDS FiniteSets

CONSTANTS Recordings, Purgers

VARIABLES
    link,      \* CallRecord.recording_url
    media,     \* the recording at Twilio
    hold,      \* Account.legal_hold
    erasure,   \* status of the ErasureRequest
    purge,     \* what each sweep or erasure has left to do
    evidence   \* what was recorded, and in nobody's hands, when the hold was set

retentionVars == <<link, media, hold, erasure, purge, evidence>>

AtRest == [op |-> "none", left |-> {}, hand |-> {}]
Markers == {"PURGED_MARKER", "ERASED_MARKER"}

RetentionTypeOK ==
    /\ link \in [Recordings -> {"none", "url"} \cup Markers]
    /\ media \in [Recordings -> {"kept", "deleted"}]
    /\ hold \in BOOLEAN
    /\ erasure \in {"none", "PENDING", "COMPLETED", "REJECTED"}
    /\ purge \in [Purgers -> [op : {"none", "sweep", "erase", "erase_call"},
                              left : SUBSET Recordings, hand : SUBSET Recordings]]
    /\ evidence \subseteq Recordings

RetentionInit ==
    /\ link = [r \in Recordings |-> "none"]
    /\ media = [r \in Recordings |-> "kept"]
    /\ hold = FALSE
    /\ erasure = "none"
    /\ purge = [p \in Purgers |-> AtRest]
    /\ evidence = {}

InHand == UNION {purge[p].hand : p \in Purgers}
Kept == {r \in Recordings : media[r] = "kept"}

\* The rows a purge selects: ERASED_MARKER is a link like any other to it.
Selected == {r \in Recordings : link[r] \notin {"none", "PURGED_MARKER"}}

-----------------------------------------------------------------------------
(* Recordings, staff, customers.                                           *)

\* Twilio says where the recording is, and perhaps says so again after a purge.
record_call_recording(r) ==
    /\ link[r] # "url"
    /\ link' = [link EXCEPT ![r] = "url"]
    /\ UNCHANGED <<media, hold, erasure, purge, evidence>>

set_account_legal_hold(on) ==
    /\ hold # on
    /\ hold' = on
    /\ evidence' = IF on THEN Kept \ InHand ELSE {}
    /\ UNCHANGED <<link, media, erasure, purge>>

create_erasure_request ==
    /\ erasure = "none"
    /\ ~hold
    /\ erasure' = "PENDING"
    /\ UNCHANGED <<link, media, hold, purge, evidence>>

reject_erasure_request ==
    /\ erasure = "PENDING"
    /\ erasure' = "REJECTED"
    /\ UNCHANGED <<link, media, hold, purge, evidence>>

-----------------------------------------------------------------------------
(* Purges: of what is old, of an account, and of one call.                 *)

Purging(p, op, left, hand) ==
    purge' = [purge EXCEPT ![p] = [op |-> op, left |-> left, hand |-> hand]]

purge_expired_recordings(p) ==
    /\ purge[p] = AtRest
    /\ Purging(p, "sweep", Selected, {})
    /\ UNCHANGED <<link, media, hold, erasure, evidence>>

\* resolve_erasure_request with COMPLETED: the hold is checked once.
erase_account_data(p) ==
    /\ purge[p] = AtRest
    /\ erasure = "PENDING"
    /\ ~hold
    /\ Purging(p, "erase", Selected, {})
    /\ UNCHANGED <<link, media, hold, erasure, evidence>>

erase_single_call_content(p, r) ==
    /\ purge[p] = AtRest
    /\ ~hold
    /\ link[r] \notin {"none"} \cup Markers
    /\ Purging(p, "erase_call", {}, {r})
    /\ UNCHANGED <<link, media, hold, erasure, evidence>>

\* Mutant: the hold is checked before a purge and not at each of its rows.
ExpiredOrErased(p, expired) == purge[p].op = "erase" \/ expired

MayPurge(p, expired) == ~hold /\ (purge[p].op = "erase" \/ expired)

\* The next row: it is skipped, or it is in the hands of the provider, who has
\* nothing under the name of a marker.
_purge_call_recordings(p, r, expired) ==
    /\ purge[p].op \in {"sweep", "erase"}
    /\ purge[p].hand = {}
    /\ r \in purge[p].left
    /\ Purging(p, purge[p].op, purge[p].left \ {r},
               IF MayPurge(p, expired) /\ link[r] = "url" THEN {r} ELSE {})
    /\ UNCHANGED <<link, media, hold, erasure, evidence>>

NextRow(p) ==
    Purging(p, IF purge[p].op = "erase_call" THEN "none" ELSE purge[p].op, purge[p].left, {})

\* The row is marked once the provider has answered.
delete_recording(p, r) ==
    /\ r \in purge[p].hand
    /\ media[r] = "kept"
    /\ media' = [media EXCEPT ![r] = "deleted"]
    /\ link' = [link EXCEPT ![r] =
          IF purge[p].op = "erase_call" THEN "ERASED_MARKER" ELSE "PURGED_MARKER"]
    /\ NextRow(p)
    /\ UNCHANGED <<hold, erasure, evidence>>

\* An error, such as for what has been deleted before, or no answer to what was
\* done: logged, and tried again next time.
delete_fails(p, r) ==
    /\ r \in purge[p].hand
    /\ media' \in {media, [media EXCEPT ![r] = "deleted"]}
    /\ NextRow(p)
    /\ UNCHANGED <<link, hold, erasure, evidence>>

sweep_ends(p) ==
    /\ purge[p] = [op |-> "sweep", left |-> {}, hand |-> {}]
    /\ Purging(p, "none", {}, {})
    /\ UNCHANGED <<link, media, hold, erasure, evidence>>

\* Contacts, summaries and transcripts are erased and the request is closed,
\* whatever became of the recordings, and of the hold, since it began.
resolve_erasure_request(p) ==
    /\ purge[p] = [op |-> "erase", left |-> {}, hand |-> {}]
    /\ erasure' = "COMPLETED"
    /\ Purging(p, "none", {}, {})
    /\ UNCHANGED <<link, media, hold, evidence>>

purger_dies(p) ==
    /\ purge[p] # AtRest
    /\ Purging(p, "none", {}, {})
    /\ UNCHANGED <<link, media, hold, erasure, evidence>>

RetentionNext ==
    \/ \E on \in BOOLEAN : set_account_legal_hold(on)
    \/ create_erasure_request
    \/ reject_erasure_request
    \/ \E r \in Recordings : record_call_recording(r)
    \/ \E p \in Purgers :
          \/ purge_expired_recordings(p) \/ erase_account_data(p)
          \/ sweep_ends(p) \/ resolve_erasure_request(p) \/ purger_dies(p)
          \/ \E r \in Recordings :
                \/ erase_single_call_content(p, r)
                \/ \E expired \in BOOLEAN : _purge_call_recordings(p, r, expired)
                \/ delete_recording(p, r)
                \/ delete_fails(p, r)

RetentionSpec == RetentionInit /\ [][RetentionNext]_retentionVars

-----------------------------------------------------------------------------
(* Properties.                                                             *)

\* A hold is there "to stop a scheduled sweep from destroying evidence
\* mid-litigation" (is_account_under_legal_hold): whatever sweeps and erasures
\* are under way when staff set it, what is recorded by then stays, but for the
\* recordings already in the hands of the provider.
HoldKeepsEvidence == evidence \subseteq Kept
=============================================================================
