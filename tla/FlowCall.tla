------------------------------ MODULE FlowCall ------------------------------
(***************************************************************************)
(* A call on its way through the node graph of a published call flow       *)
(* (routing/service.py, media/voice.py).  The graph is any that            *)
(* validate_flow lets through; the hours of a business_hours node, what    *)
(* the caller presses and whether a phone is answered are anybody's guess. *)
(***************************************************************************)
EXTENDS Naturals, FiniteSets

CONSTANTS
    NodeIds,
    NoNode,              \* an optional reference that is not set
    MAX_RESOLUTION_HOPS,
    RecursionLimit       \* Python's

ASSUME NoNodeAssumption == NoNode \notin NodeIds
ASSUME HopsAssumption == MAX_RESOLUTION_HOPS \in Nat /\ RecursionLimit \in Nat

VARIABLES
    nodes,  \* the nodes of the version: a function from their ids
    entry,  \* its entry_node_id
    at,     \* the node that is being resolved or that the call is in
    hops,   \* the business_hours nodes passed in this resolution
    queued, \* the queue whose TwiML is being built, and how deep its overflows go
    call    \* what the call is doing

flowCallVars == <<nodes, entry, at, hops, queued, call>>
NotQueued == [at |-> NoNode, depth |-> 0]

\* Two references are enough to tell the types apart: the option of a menu and
\* where a wrong or missing key leads; within and outside the hours; where an
\* unanswered forward and an overflowing queue go on.  voicemail stands for
\* ai_receptionist and hangup too.
References == NodeIds \cup {NoNode}
Node ==
    [type : {"menu", "business_hours"}, to : References, else : References]
    \cup [type : {"forward", "queue"}, to : References, else : {NoNode}]
    \cup [type : {"voicemail"}, to : {NoNode}, else : {NoNode}]

TERMINAL_NODE_TYPES == {"forward", "queue", "voicemail"}

\* Mutant: a reference is not looked up.
KnownOrNot(g, ref) == TRUE

CheckRef(g, ref) == ref = NoNode \/ ref \in DOMAIN g

WellFormed(g, n) ==
    /\ CheckRef(g, g[n].to)
    /\ CheckRef(g, g[n].else)
    /\ g[n].type \in {"menu", "business_hours"} => g[n].to # NoNode
    /\ g[n].type = "business_hours" => g[n].else # NoNode

Successors(g, S) == {g[n].to : n \in S} \cup {g[n].else : n \in S}

\* The nodes the worklist of validate_flow visits.
Reachable(g, e) ==
    LET Visited[i \in 0..Cardinality(NodeIds)] ==
            IF i = 0 THEN {e}
            ELSE Visited[i - 1] \cup (Successors(g, Visited[i - 1]) \cap DOMAIN g)
    IN  Visited[Cardinality(NodeIds)]

validate_flow(g, e) ==
    /\ e \in DOMAIN g
    /\ \A n \in DOMAIN g : WellFormed(g, n)
    /\ \E n \in Reachable(g, e) : g[n].type \in TERMINAL_NODE_TYPES

Drafts == UNION {[S -> Node] : S \in SUBSET NodeIds}

FlowCallTypeOK ==
    /\ nodes \in Drafts
    /\ entry \in NodeIds
    /\ at \in References
    /\ hops \in 0..MAX_RESOLUTION_HOPS
    /\ queued \in [at : References, depth : 0..RecursionLimit]
    /\ call \in {"resolving", "menu", "forward", "queue", "voicemail", "over",
                 "NodeNotFoundError", "RecursionError"}

\* get_live_version, resolve_entry
FlowCallInit ==
    /\ nodes \in Drafts
    /\ entry \in NodeIds
    /\ validate_flow(nodes, entry)
    /\ at = entry
    /\ hops = 0
    /\ queued = NotQueued
    /\ call = "resolving"

GoTo(n) ==
    /\ at' = n
    /\ hops' = 0
    /\ call' = "resolving"
    /\ UNCHANGED <<nodes, entry, queued>>

\* The TwiML is complete: the call is where the resolution ended, or in the
\* queue whose overflows have all been resolved.
Answered(state) ==
    /\ call' = IF queued = NotQueued THEN state ELSE "queue"
    /\ at' = IF queued = NotQueued THEN at ELSE queued.at
    /\ hops' = 0
    /\ queued' = NotQueued
    /\ UNCHANGED <<nodes, entry>>

Becomes(state) ==
    /\ call' = state
    /\ UNCHANGED <<nodes, entry, at, hops, queued>>

-----------------------------------------------------------------------------
(* _resolve                                                                *)

\* Mutant: one node more.
OneMoreHop == hops <= MAX_RESOLUTION_HOPS

MoreHops == hops < MAX_RESOLUTION_HOPS

node_not_found ==
    /\ call = "resolving"
    /\ at \notin DOMAIN nodes
    /\ Becomes("NodeNotFoundError")

business_hours(within) ==
    /\ call = "resolving"
    /\ at \in DOMAIN nodes
    /\ nodes[at].type = "business_hours"
    /\ MoreHops
    /\ at' = IF within THEN nodes[at].to ELSE nodes[at].else
    /\ hops' = hops + 1
    /\ UNCHANGED <<nodes, entry, queued, call>>

\* The last resort of a cycle of business hours.
out_of_hops ==
    /\ call = "resolving"
    /\ ~MoreHops
    /\ Answered("voicemail")

Landed ==
    /\ call = "resolving"
    /\ MoreHops
    /\ at \in DOMAIN nodes
    /\ nodes[at].type # "business_hours"

Overflows == nodes[at].type = "queue" /\ nodes[at].to # NoNode

flow_response ==
    /\ Landed
    /\ ~Overflows
    /\ Answered(nodes[at].type)

\* The overflow of a queue is resolved, and its TwiML built, before the caller
\* is put into the queue: _flow_response calls itself.
flow_response_of_overflow ==
    /\ Landed
    /\ Overflows
    /\ IF queued.depth = RecursionLimit
       THEN Becomes("RecursionError")
       ELSE /\ queued' = [at |-> IF queued = NotQueued THEN at ELSE queued.at,
                          depth |-> queued.depth + 1]
            /\ at' = nodes[at].to
            /\ hops' = 0
            /\ UNCHANGED <<nodes, entry, call>>

-----------------------------------------------------------------------------
(* The webhooks of a call under way.                                       *)

\* A key that is an option, or another one, or none.
resolve_menu_input(option) ==
    /\ call = "menu"
    /\ GoTo(IF option THEN nodes[at].to
            ELSE IF nodes[at].else # NoNode THEN nodes[at].else ELSE at)

\* Nobody answered a forward, or the queue kept the caller too long (what it
\* overflows to was resolved before; its hours are guessed again here).
resolve_forward_failover ==
    /\ call \in {"forward", "queue"}
    /\ IF nodes[at].to = NoNode THEN Becomes("voicemail") ELSE GoTo(nodes[at].to)

call_is_over ==
    /\ call \in {"menu", "forward", "queue", "voicemail"}
    /\ Becomes("over")

FlowCallNext ==
    \/ node_not_found
    \/ \E within \in BOOLEAN : business_hours(within)
    \/ out_of_hops
    \/ flow_response
    \/ flow_response_of_overflow
    \/ \E option \in BOOLEAN : resolve_menu_input(option)
    \/ resolve_forward_failover
    \/ call_is_over

FlowCallSpec == FlowCallInit /\ [][FlowCallNext]_flowCallVars

-----------------------------------------------------------------------------
(* Properties.                                                             *)

\* A flow that validate_flow has let through never sends a live call to a node
\* it does not have, along any hours, keys, unanswered phones and overflows
\* (NodeNotFoundError in the middle of a call is an error 500 to Twilio).
NoNodeIsMissing == call # "NodeNotFoundError"
=============================================================================
