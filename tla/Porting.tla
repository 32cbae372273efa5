------------------------------- MODULE Porting -------------------------------
(***************************************************************************)
(* Requests to port one phone number in (porting/service.py).  A route     *)
(* reads the request without a lock and a handler commits what it made of  *)
(* that copy, so that a customer's cancellation and the steps of the staff *)
(* overlap.  The port itself is done by hand, outside the system.          *)
(***************************************************************************)
EXTENDS Naturals, FiniteSets

CONSTANTS
    Ports,          \* requests for the number
    PortAccount,    \* the account each belongs to
    PortHandlers,   \* handlers that may overlap, a bound
    Nobody, Elsewhere

ASSUME PortAssumption ==
    /\ \A p \in Ports : PortAccount[p] \notin {Nobody, Elsewhere}
    /\ Nobody # Elsewhere

VARIABLES
    port,     \* the requests
    porting,  \* what each handler has read and decided, and not committed yet
    owner     \* account of the PhoneNumber row of this e164, which is unique

portVars == <<port, porting, owner>>

BeingPorted == {"submitted", "approved"}
Unported == [status |-> "none", created |-> FALSE]
Resting == [op |-> "none"]

PortTypeOK ==
    /\ port \in [Ports -> [status : {"none", "rejected", "canceled", "completed"} \cup BeingPorted,
                           created : BOOLEAN]]
    /\ porting \in [PortHandlers ->
          {Resting} \cup [op : {"cancel", "approve", "reject", "complete", "link"}, p : Ports]]
    /\ owner \in {Nobody, Elsewhere} \cup {PortAccount[p] : p \in Ports}

PortInit ==
    /\ port = [p \in Ports |-> Unported]
    /\ porting = [h \in PortHandlers |-> Resting]
    /\ owner = Nobody

\* An advisory lock on the number serializes the check and the insertion.
submit_porting_request(p) ==
    /\ port[p].status = "none"
    /\ owner = Nobody
    /\ \A q \in Ports : port[q].status \notin BeingPorted
    /\ port' = [port EXCEPT ![p].status = "submitted"]
    /\ UNCHANGED <<porting, owner>>

\* What each operation asks of the status it reads.
Permits(op, status) ==
    CASE op = "cancel" -> status \in BeingPorted
      [] op = "approve" -> status = "submitted"
      [] op = "reject" -> status \notin {"none", "completed", "canceled"}
      [] op = "complete" -> status = "approved" /\ owner = Nobody

reads_request(h, op, p) ==
    /\ porting[h] = Resting
    /\ Permits(op, port[p].status)
    /\ porting' = [porting EXCEPT ![h] = [op |-> op, p |-> p]]
    /\ UNCHANGED <<port, owner>>

Rests(h) == porting' = [porting EXCEPT ![h] = Resting]
Writes(h, op, status) ==
    /\ porting[h].op = op
    /\ port' = [port EXCEPT ![porting[h].p].status = status]
    /\ Rests(h)
    /\ UNCHANGED owner

cancel_porting_request(h) == Writes(h, "cancel", "canceled")
approve_porting_request(h) == Writes(h, "approve", "approved")
reject_porting_request(h) == Writes(h, "reject", "rejected")

\* Mutant: the conflict is reported and the request completed all the same.
Completes(h) ==
    /\ owner' = IF owner = Nobody THEN PortAccount[porting[h].p] ELSE owner
    /\ port' = [port EXCEPT ![porting[h].p].status = "completed"]

\* The number and the status are one transaction: if the number was added
\* meanwhile its unique e164 rolls both back.
CompletesOrConflicts(h) ==
    IF owner = Nobody
    THEN /\ owner' = PortAccount[porting[h].p]
         /\ port' = [port EXCEPT ![porting[h].p].status = "completed"]
    ELSE UNCHANGED <<owner, port>>

complete_porting_request(h) ==
    /\ porting[h].op = "complete"
    /\ CompletesOrConflicts(h)
    /\ porting' = [porting EXCEPT ![h] =
          IF owner = Nobody THEN [op |-> "link", p |-> porting[h].p] ELSE Resting]

\* created_number_id is a commit of its own.
created_number(h) ==
    /\ porting[h].op = "link"
    /\ port' = [port EXCEPT ![porting[h].p].created = TRUE]
    /\ Rests(h)
    /\ UNCHANGED owner

porting_dies(h) ==
    /\ porting[h] # Resting
    /\ Rests(h)
    /\ UNCHANGED <<port, owner>>

\* The number is found and reserved at the provider instead.
added_elsewhere ==
    /\ owner = Nobody
    /\ owner' = Elsewhere
    /\ UNCHANGED <<port, porting>>

PortNext ==
    \/ \E p \in Ports : submit_porting_request(p)
    \/ \E h \in PortHandlers :
          \/ \E op \in {"cancel", "approve", "reject", "complete"}, p \in Ports :
                reads_request(h, op, p)
          \/ cancel_porting_request(h) \/ approve_porting_request(h)
          \/ reject_porting_request(h) \/ complete_porting_request(h)
          \/ created_number(h) \/ porting_dies(h)
    \/ added_elsewhere

PortSpec == PortInit /\ [][PortNext]_portVars

-----------------------------------------------------------------------------
(* Properties.                                                             *)

\* A request that is COMPLETED has activated the number for its own account,
\* and so has one that names the number it created, even if a cancellation that
\* overlapped was written last (service.py on the IntegrityError of a
\* completion: the unique e164 "is the real backstop").
CompletedOwnsNumber ==
    \A p \in Ports :
        port[p].status = "completed" \/ port[p].created => owner = PortAccount[p]
=============================================================================
