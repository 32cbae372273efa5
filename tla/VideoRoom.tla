------------------------------ MODULE VideoRoom ------------------------------
(***************************************************************************)
(* One video session and its recordings (media/service.py): the row, the   *)
(* LiveKit room and its egresses, the requests that wait for LiveKit in    *)
(* between, the egress_ended webhooks, and the daily sweep.                *)
(***************************************************************************)
EXTENDS Naturals, FiniteSets

CONSTANTS
    VideoRequests,  \* requests of the host, or of an admin beside the host
    Egresses,       \* what LiveKit can be asked to record, a bound
    NoEgress

ASSUME NoEgressAssumption == NoEgress \notin Egresses

VARIABLES
    session,  \* VideoSession: status, recording_egress_id, recording_url
    room,     \* LiveKit's room
    egress,   \* LiveKit's egresses
    ended,    \* the egress_ended webhooks that are on their way
    found,    \* those that have found their row and not written it yet
    asks,     \* a request that waits for LiveKit
    swept     \* what the sweep has learned of a row and not written yet

videoVars == <<session, room, egress, ended, found, asks, swept>>

NoAsk == [step |-> "idle"]
Finished == {"file", "no file"}

VideoTypeOK ==
    /\ session \in [status : {"active", "ended"}, egress : Egresses \cup {NoEgress},
                    url : {"none", "failed", "file"}]
    /\ room \in {"open", "closed"}
    /\ egress \in [Egresses -> {"none", "running"} \cup Finished]
    /\ ended \subseteq Egresses
    /\ found \subseteq Egresses
    /\ asks \in [VideoRequests ->
                   {NoAsk} \cup [step : {"start", "started", "stop", "end", "close"},
                                 egress : Egresses \cup {NoEgress}, again : BOOLEAN]]
    /\ swept \in {NoAsk} \cup [step : {"sweep"}, url : {"failed", "file"}]

\* create_video_session
VideoInit ==
    /\ session = [status |-> "active", egress |-> NoEgress, url |-> "none"]
    /\ room = "open"
    /\ egress = [e \in Egresses |-> "none"]
    /\ ended = {}
    /\ found = {}
    /\ asks = [r \in VideoRequests |-> NoAsk]
    /\ swept = NoAsk

is_recording_in_progress == session.egress # NoEgress /\ session.url = "none"

Ask(r, step, e) == asks' = [asks EXCEPT ![r] = [step |-> step, egress |-> e, again |-> FALSE]]
Done(r) == asks' = [asks EXCEPT ![r] = NoAsk]

\* LiveKit ends egresses, each with a file or without one, and says so.
Finish(E) ==
    /\ \E results \in [E -> Finished] :
          egress' = [e \in Egresses |-> IF e \in E THEN results[e] ELSE egress[e]]
    /\ ended' = ended \cup E

Running == {e \in Egresses : egress[e] = "running"}

-----------------------------------------------------------------------------
(* Requests. Each await lets others in.                                    *)

start_video_recording(r) ==
    /\ asks[r] = NoAsk
    /\ session.status = "active"
    /\ ~is_recording_in_progress
    /\ asks' = [asks EXCEPT ![r] = [step |-> "start", egress |-> NoEgress,
                                    again |-> session.url # "none"]]
    /\ UNCHANGED <<session, room, egress, ended, found, swept>>

start_room_recording(r, e) ==
    /\ asks[r].step = "start"
    /\ room = "open"
    /\ egress[e] = "none"
    /\ egress' = [egress EXCEPT ![e] = "running"]
    /\ asks' = [asks EXCEPT ![r] = [@ EXCEPT !.step = "started", !.egress = e]]
    /\ UNCHANGED <<session, room, ended, found, swept>>

\* The url is cleared if there was one when the request began.
recording_started(r) ==
    /\ asks[r].step = "started"
    /\ session' = [session EXCEPT !.egress = asks[r].egress,
                                  !.url = IF asks[r].again THEN "none" ELSE @]
    /\ Done(r)
    /\ UNCHANGED <<room, egress, ended, found, swept>>

stop_video_recording(r) ==
    /\ asks[r] = NoAsk
    /\ is_recording_in_progress
    /\ Ask(r, "stop", session.egress)
    /\ UNCHANGED <<session, room, egress, ended, found, swept>>

end_video_session(r) ==
    /\ asks[r] = NoAsk
    /\ Ask(r, "end", IF is_recording_in_progress THEN session.egress ELSE NoEgress)
    /\ UNCHANGED <<session, room, egress, ended, found, swept>>

\* An egress that is no longer running counts as stopped.
stop_room_recording(r) ==
    /\ asks[r].step \in {"stop", "end"}
    /\ asks[r].egress # NoEgress
    /\ IF asks[r].egress \in Running
       THEN Finish({asks[r].egress})
       ELSE UNCHANGED <<egress, ended>>
    /\ IF asks[r].step = "end" THEN Ask(r, "end", NoEgress) ELSE Done(r)
    /\ UNCHANGED <<session, room, found, swept>>

end_room(r) ==
    /\ asks[r].step = "end"
    /\ asks[r].egress = NoEgress
    /\ room' = "closed"
    /\ Finish(Running)
    /\ Ask(r, "close", NoEgress)
    /\ UNCHANGED <<session, found, swept>>

session_ended(r) ==
    /\ asks[r].step = "close"
    /\ session' = [session EXCEPT !.status = "ended"]
    /\ Done(r)
    /\ UNCHANGED <<room, egress, ended, found, swept>>

\* LiveKit refuses, does not answer, or the worker dies.
request_fails(r) ==
    /\ asks[r] # NoAsk
    /\ Done(r)
    /\ UNCHANGED <<session, room, egress, ended, found, swept>>

-----------------------------------------------------------------------------
(* LiveKit and its webhooks.                                               *)

everyone_leaves ==
    /\ room = "open"
    /\ room' = "closed"
    /\ Finish(Running)
    /\ UNCHANGED <<session, found, asks, swept>>

egress_finishes(e) ==
    /\ e \in Running
    /\ Finish({e})
    /\ UNCHANGED <<session, room, found, asks, swept>>

room_finished ==
    /\ room = "closed"
    /\ session.status # "ended"
    /\ session' = [session EXCEPT !.status = "ended"]
    /\ UNCHANGED <<room, egress, ended, found, asks, swept>>

\* A webhook finds its row by the egress id, or nothing.
handle_egress_ended(e) ==
    /\ e \in ended
    /\ ended' = ended \ {e}
    /\ found' = IF session.egress = e THEN found \cup {e} ELSE found
    /\ UNCHANGED <<session, room, egress, asks, swept>>

recording_ended(e) ==
    /\ e \in found
    /\ found' = found \ {e}
    /\ session' = IF egress[e] = "file" THEN [session EXCEPT !.url = "file"]
                  ELSE [session EXCEPT !.egress = NoEgress, !.url = "failed"]
    /\ UNCHANGED <<room, egress, ended, asks, swept>>

egress_ended_is_lost(e) ==
    /\ e \in ended \cup found
    /\ ended' = ended \ {e}
    /\ found' = found \ {e}
    /\ UNCHANGED <<session, room, egress, asks, swept>>

-----------------------------------------------------------------------------
(* The daily sweep asks LiveKit about a recording that seems in progress.  *)

\* Mutant: a sweep of the sessions that are still active.
UnsettledWhileActive == is_recording_in_progress /\ session.status = "active"

Unsettled == is_recording_in_progress

get_egress_status ==
    /\ swept = NoAsk
    /\ Unsettled
    /\ egress[session.egress] \in Finished
    /\ swept' = [step |-> "sweep",
                 url |-> IF egress[session.egress] = "file" THEN "file" ELSE "failed"]
    /\ UNCHANGED <<session, room, egress, ended, found, asks>>

sweep_stale_video_recordings ==
    /\ swept # NoAsk
    /\ session' = [session EXCEPT !.egress = NoEgress, !.url = swept.url]
    /\ swept' = NoAsk
    /\ UNCHANGED <<room, egress, ended, found, asks>>

VideoNext ==
    \/ \E r \in VideoRequests :
          \/ start_video_recording(r)
          \/ \E e \in Egresses : start_room_recording(r, e)
          \/ recording_started(r)
          \/ stop_video_recording(r)
          \/ end_video_session(r)
          \/ stop_room_recording(r)
          \/ end_room(r)
          \/ session_ended(r)
          \/ request_fails(r)
    \/ everyone_leaves
    \/ room_finished
    \/ \E e \in Egresses :
          \/ egress_finishes(e)
          \/ handle_egress_ended(e) \/ recording_ended(e) \/ egress_ended_is_lost(e)
    \/ get_egress_status
    \/ sweep_stale_video_recordings

VideoSpec == VideoInit /\ [][VideoNext]_videoVars

\* The job runs every day, finds what has grown old, and some day LiveKit answers.
VideoFair == WF_videoVars(get_egress_status) /\ WF_videoVars(sweep_stale_video_recordings)

-----------------------------------------------------------------------------
(* Properties.                                                             *)

\* A recording that is over does not stay "in progress" (service.py on
\* sweep_stale_video_recordings: "nothing would otherwise ever clear
\* recording_egress_id"): its webhook may be lost, or come before the request
\* that started it has written the row, or the session may be ended or recorded
\* again meanwhile.
RecordingsSettle ==
    []<>~(is_recording_in_progress /\ egress[session.egress] \in Finished)
=============================================================================
