--------------------------- MODULE Routing_proofs ---------------------------
(***************************************************************************)
(* What holds of every instance of the call flows: of their versions, for  *)
(* any admins, any node graphs and any number of versions; of a call on    *)
(* its way through a flow, for any graph that has been validated.          *)
(***************************************************************************)
EXTENDS FlowVersions, FlowCall, SequenceTheorems, TLAPS

-----------------------------------------------------------------------------
(* Versions.                                                               *)

Edit ==
    {NoEdit}
    \cup [op : {"save"}, draft : Nat, nodes : NodeGraphs]
    \cup [op : {"publish"}, draft : Nat, live : SUBSET Nat, number : Nat]
    \cup [op : {"rollback"}, nodes : NodeGraphs, live : SUBSET Nat, number : Nat]

\* Versions are numbered in the order of their creation, so that the next
\* number is one more than there are versions.
Numbered == \A i \in DOMAIN versions : versions[i].number = i

\* Who publishes or rolls back holds the locks, and what it has read under them
\* is still so.
LockedIn(u) ==
    edit[u].op \in {"publish", "rollback"} =>
        /\ holder = u
        /\ edit[u].number = Len(versions) + 1
        /\ edit[u].live = WithStatus("published")
        /\ edit[u].op = "publish" => edit[u].draft \in WithStatus("draft")

\* The inductive invariant behind OnePublished.
FlowInv ==
    /\ FlowTypeOK
    /\ Numbered
    /\ OnePublished
    /\ \A u \in Admins : LockedIn(u)

\* The sequence of versions as a function.
LEMMA VersionsAre ==
    ASSUME FlowTypeOK
    PROVE  /\ Len(versions) \in Nat
           /\ DOMAIN versions = 1..Len(versions)
           /\ versions \in [1..Len(versions) -> Version]
           /\ edit \in [Admins -> Edit]
  BY DEF FlowTypeOK, Edit

\* The next number.
LEMMA NextNumber ==
    ASSUME FlowInv
    PROVE  NextVersionNumber = Len(versions) + 1
<1> DEFINE numbers == {versions[i].number : i \in DOMAIN versions}
           highest == CHOOSE n \in numbers : \A i \in DOMAIN versions : versions[i].number <= n
<1>1. DOMAIN versions = 1..Len(versions) /\ Len(versions) \in Nat
    BY VersionsAre DEF FlowInv
<1>2. WithStatus("draft") # {}
    BY DEF FlowInv, OnePublished
<1>3. Len(versions) \in DOMAIN versions
    BY <1>1, <1>2 DEF WithStatus
<1>4. \A i \in DOMAIN versions : versions[i].number = i
    BY DEF FlowInv, Numbered
<1>5. /\ Len(versions) \in numbers
      /\ \A i \in DOMAIN versions : versions[i].number <= Len(versions)
    BY <1>1, <1>3, <1>4
<1>6. /\ highest \in numbers
      /\ \A i \in DOMAIN versions : versions[i].number <= highest
    BY <1>5
<1>7. highest = Len(versions)
    BY <1>1, <1>3, <1>4, <1>6
<1>8. NextVersionNumber = 1 + highest
    BY DEF NextVersionNumber
<1> HIDE DEF highest
<1> QED
    BY <1>1, <1>7, <1>8

\* Versions 1 to n are a sequence.
LEMMA VersionsMade ==
    ASSUME NEW n \in Nat, NEW vs \in [1..n -> Version]
    PROVE  vs \in Seq(Version) /\ Len(vs) = n
<1>1. vs \in Seq(Version)
    BY SeqDef
<1>2. DOMAIN vs = 1..n /\ DOMAIN vs = 1..Len(vs) /\ Len(vs) \in Nat
    BY <1>1, LenProperties
<1> QED
    BY <1>1, <1>2

\* A version that is appended to others.
LEMMA VersionAppended ==
    ASSUME NEW n \in Nat, NEW vs \in [1..n -> Version], NEW v \in Version
    PROVE  /\ Append(vs, v) \in Seq(Version)
           /\ Len(Append(vs, v)) = n + 1
           /\ DOMAIN Append(vs, v) = 1..(n + 1)
           /\ \A i \in 1..n : Append(vs, v)[i] = vs[i]
           /\ Append(vs, v)[n + 1] = v
<1>1. vs \in Seq(Version) /\ Len(vs) = n
    BY VersionsMade
<1> QED
    BY <1>1

\* The versions once the published ones are archived.
LEMMA Archived ==
    ASSUME FlowTypeOK, NEW live \in SUBSET Nat
    PROVE  /\ Archive(versions, live) \in [1..Len(versions) -> Version]
           /\ \A i \in 1..Len(versions) :
                 /\ Archive(versions, live)[i].number = versions[i].number
                 /\ Archive(versions, live)[i].status =
                       IF i \in live THEN "archived" ELSE versions[i].status
<1>1. /\ versions \in [1..Len(versions) -> Version] /\ DOMAIN versions = 1..Len(versions)
    BY VersionsAre
<1>2. \A v \in Version :
          /\ [v EXCEPT !.status = "archived"] \in Version
          /\ [v EXCEPT !.status = "archived"].number = v.number
          /\ [v EXCEPT !.status = "archived"].status = "archived"
    BY DEF Version
<1> QED
    BY <1>1, <1>2 DEF Archive

\* An edit that begins or ends is an edit.
LEMMA EditWritten ==
    ASSUME FlowTypeOK, NEW u \in Admins, NEW x \in Edit, edit' = [edit EXCEPT ![u] = x]
    PROVE  /\ edit' \in [Admins -> Edit] /\ edit'[u] = x
           /\ \A w \in Admins : w # u => edit'[w] = edit[w]
  BY VersionsAre

\* Under the locks, what a publication or a rollback makes of the versions.
LEMMA Rewritten ==
    ASSUME FlowInv, NEW u \in Admins, publish_flow(u) \/ rollback_flow(u)
    PROVE  /\ versions' \in Seq(Version) /\ Len(versions') = Len(versions) + 1
           /\ Numbered' /\ OnePublished'
<1> DEFINE n == Len(versions)
           old == Archive(versions, edit[u].live)
<1>0. FlowTypeOK /\ Numbered /\ OnePublished /\ LockedIn(u) /\ n \in Nat
      /\ DOMAIN versions = 1..n
    BY VersionsAre DEF FlowInv
<1>1. /\ edit[u].live = WithStatus("published") /\ edit[u].number = n + 1
      /\ WithStatus("published") \in SUBSET Nat
    BY <1>0 DEF publish_flow, rollback_flow, LockedIn, WithStatus
<1>2. /\ old \in [1..n -> Version]
      /\ \A i \in 1..n : old[i].number = i
      /\ \A i \in 1..n : old[i].status # "published"
      /\ \A i \in 1..n : old[i].status = "draft" <=> versions[i].status = "draft"
    BY <1>0, <1>1, Archived DEF Numbered, WithStatus
<1>3. CASE publish_flow(u)
  <2> DEFINE d == edit[u].draft
             new == [number |-> n + 1, status |-> "draft", nodes |-> versions[d].nodes]
             vs == [old EXCEPT ![d].status = "published"]
  <2>1. d \in 1..n /\ versions[d].status = "draft" /\ versions' = Append(vs, new)
    BY <1>0, <1>1, <1>3 DEF publish_flow, LockedIn, WithStatus
  <2>2. new \in Version
    BY <1>0, <2>1, VersionsAre DEF Version
  <2>3. /\ vs \in [1..n -> Version]
        /\ \A i \in 1..n : vs[i].number = i
        /\ \A i \in 1..n : vs[i].status = IF i = d THEN "published" ELSE old[i].status
    <3>1. [old[d] EXCEPT !.status = "published"] \in Version
          /\ [old[d] EXCEPT !.status = "published"].number = old[d].number
          /\ [old[d] EXCEPT !.status = "published"].status = "published"
      BY <1>2, <2>1 DEF Version
    <3> QED
      BY <1>2, <2>1, <3>1
  <2>4. new.number = n + 1 /\ new.status = "draft"
    OBVIOUS
  <2> HIDE DEF vs, new
  <2>5. /\ versions' \in Seq(Version) /\ Len(versions') = n + 1 /\ DOMAIN versions' = 1..(n + 1)
        /\ \A i \in 1..n : versions'[i] = vs[i]
        /\ versions'[n + 1] = new
    BY <1>0, <2>1, <2>2, <2>3, VersionAppended
  <2>6. \A i \in 1..(n + 1) : versions'[i].number = i
    BY <1>0, <2>3, <2>4, <2>5
  <2>7. \A i \in 1..n : versions[i].status = "draft" => i = d
    BY <1>0, <2>1 DEF OnePublished, WithStatus
  <2>8. \A i \in 1..(n + 1) : /\ versions'[i].status = "published" <=> i = d
                              /\ versions'[i].status = "draft" <=> i = n + 1
    BY <1>0, <1>2, <2>1, <2>3, <2>4, <2>5, <2>7
  <2>9. OnePublished'
    BY <1>0, <2>5, <2>6, <2>8 DEF OnePublished, WithStatus
  <2> QED
    BY <2>5, <2>6, <2>9 DEF Numbered
<1>4. CASE rollback_flow(u)
  <2> DEFINE new == [number |-> n + 1, status |-> "published", nodes |-> edit[u].nodes]
  <2>1. versions' = Append(old, new) /\ new \in Version
    <3>1. edit[u] \in [op : {"rollback"}, nodes : NodeGraphs, live : SUBSET Nat, number : Nat]
      BY <1>0, <1>4, VersionsAre DEF rollback_flow, Edit, NoEdit
    <3> QED
      BY <1>0, <1>1, <1>4, <3>1 DEF rollback_flow, Version
  <2>0. new.number = n + 1 /\ new.status = "published"
    OBVIOUS
  <2> HIDE DEF old, new
  <2>2. /\ versions' \in Seq(Version) /\ Len(versions') = n + 1 /\ DOMAIN versions' = 1..(n + 1)
        /\ \A i \in 1..n : versions'[i] = old[i]
        /\ versions'[n + 1] = new
    BY <1>0, <1>2, <2>1, VersionAppended
  <2>3. Numbered'
    BY <1>0, <1>2, <2>0, <2>2 DEF Numbered
  <2>4. \A i \in 1..(n + 1) :
            /\ versions'[i].status = "published" <=> i = n + 1
            /\ versions'[i].status = "draft" <=> i \in 1..n /\ versions[i].status = "draft"
    BY <1>0, <1>2, <2>0, <2>2
  <2>5. OnePublished'
    BY <1>0, <2>2, <2>3, <2>4 DEF OnePublished, Numbered, WithStatus
  <2> QED
    BY <2>2, <2>3, <2>5
<1> QED
    BY <1>3, <1>4

\* While nobody holds the locks nobody publishes or rolls back, and while one
\* does, nobody else does.
LEMMA OneLocks ==
    ASSUME FlowInv, NEW u \in Admins, edit[u].op \in {"publish", "rollback"}
    PROVE  /\ holder = u /\ holder # NoAdmin
           /\ \A w \in Admins : edit[w].op \in {"publish", "rollback"} => w = u
  BY NoAdminAssumption DEF FlowInv, LockedIn

\* Reading under the locks.
LEMMA BeginKeeps ==
    ASSUME FlowInv, NEW u \in Admins,
           begin_publish(u) \/ \E t \in DOMAIN versions : begin_rollback(u, t)
    PROVE  FlowInv'
<1>0. /\ FlowTypeOK /\ Numbered /\ OnePublished /\ NextVersionNumber = Len(versions) + 1
      /\ DOMAIN versions = 1..Len(versions) /\ Len(versions) \in Nat
      /\ versions \in [1..Len(versions) -> Version]
    BY NextNumber, VersionsAre DEF FlowInv
<1>1. holder = NoAdmin /\ holder' = u /\ versions' = versions
    BY DEF begin_publish, begin_rollback, Lockable
<1>2. PICK x \in Edit :
          /\ edit' = [edit EXCEPT ![u] = x]
          /\ x.op \in {"publish", "rollback"} /\ x.number = Len(versions) + 1
          /\ x.live = WithStatus("published")
          /\ x.op = "publish" => x.draft \in WithStatus("draft")
  <2>1. WithStatus("published") \in SUBSET Nat /\ WithStatus("draft") \subseteq Nat
    BY <1>0 DEF WithStatus
  <2>2. CASE begin_publish(u)
    <3>1. PICK d \in WithStatus("draft") :
              edit' = [edit EXCEPT ![u] =
                [op |-> "publish", draft |-> d, live |-> WithStatus("published"),
                 number |-> NextVersionNumber]]
      BY <2>2 DEF begin_publish
    <3>2. [op |-> "publish", draft |-> d, live |-> WithStatus("published"),
           number |-> NextVersionNumber] \in Edit
      BY <1>0, <2>1 DEF Edit
    <3> QED
      BY <1>0, <3>1, <3>2
  <2>3. ASSUME NEW t \in DOMAIN versions, begin_rollback(u, t)
        PROVE  \E x \in Edit :
                  /\ edit' = [edit EXCEPT ![u] = x]
                  /\ x.op \in {"publish", "rollback"} /\ x.number = Len(versions) + 1
                  /\ x.live = WithStatus("published")
                  /\ x.op = "publish" => x.draft \in WithStatus("draft")
    <3>1. versions[t].nodes \in NodeGraphs
      BY <1>0, <2>3 DEF Version
    <3>2. [op |-> "rollback", nodes |-> versions[t].nodes, live |-> WithStatus("published"),
           number |-> NextVersionNumber] \in Edit
      BY <1>0, <2>1, <3>1 DEF Edit
    <3> QED
      BY <1>0, <2>3, <3>2 DEF begin_rollback
  <2> QED
    BY <2>2, <2>3
<1>3. \A w \in Admins : edit[w].op \notin {"publish", "rollback"}
    BY <1>1, OneLocks
<1>4. /\ edit' \in [Admins -> Edit] /\ edit'[u] = x
      /\ \A w \in Admins : w # u => edit'[w] = edit[w]
    BY <1>0, <1>2, EditWritten
<1>5. FlowTypeOK'
    BY <1>0, <1>1, <1>4 DEF FlowTypeOK, Edit
<1>6. \A w \in Admins : LockedIn(w)'
    BY <1>1, <1>2, <1>3, <1>4 DEF LockedIn, WithStatus
<1> QED
    BY <1>0, <1>1, <1>5, <1>6 DEF FlowInv, Numbered, OnePublished, WithStatus

\* Writing under the locks.
LEMMA CommitKeeps ==
    ASSUME FlowInv, NEW u \in Admins, publish_flow(u) \/ rollback_flow(u)
    PROVE  FlowInv'
<1>1. edit[u].op \in {"publish", "rollback"} /\ edit' = [edit EXCEPT ![u] = NoEdit]
      /\ holder' = NoAdmin
    BY DEF publish_flow, rollback_flow
<1>2. \A w \in Admins : w # u => edit[w].op \notin {"publish", "rollback"}
    BY <1>1, OneLocks
<1>3. /\ edit' \in [Admins -> Edit] /\ edit'[u] = NoEdit
      /\ \A w \in Admins : w # u => edit'[w] = edit[w]
    BY <1>1, EditWritten DEF FlowInv, Edit
<1>4. FlowTypeOK'
    BY <1>1, <1>3, Rewritten DEF FlowTypeOK, Edit
<1>5. \A w \in Admins : LockedIn(w)'
    BY <1>2, <1>3 DEF LockedIn, NoEdit
<1> QED
    BY <1>4, <1>5, Rewritten DEF FlowInv

\* An edit of the draft changes neither a number nor a status, and waits for the
\* locks.
LEMMA SaveKeeps ==
    ASSUME FlowInv, NEW u \in Admins,
           (\E g \in NodeGraphs : begin_save(u, g)) \/ save_draft(u)
    PROVE  FlowInv'
<1>0. /\ FlowTypeOK /\ Numbered /\ OnePublished
      /\ DOMAIN versions = 1..Len(versions) /\ Len(versions) \in Nat
      /\ versions \in [1..Len(versions) -> Version] /\ edit \in [Admins -> Edit]
    BY VersionsAre DEF FlowInv
<1>1. ASSUME NEW g \in NodeGraphs, begin_save(u, g)
      PROVE  FlowInv'
  <2>1. PICK d \in WithStatus("draft") :
            edit' = [edit EXCEPT ![u] = [op |-> "save", draft |-> d, nodes |-> g]]
    BY <1>1 DEF begin_save
  <2>2. [op |-> "save", draft |-> d, nodes |-> g] \in Edit
    BY <1>0 DEF Edit, WithStatus
  <2>3. /\ edit' \in [Admins -> Edit] /\ edit'[u].op = "save"
        /\ \A w \in Admins : w # u => edit'[w] = edit[w]
    BY <1>0, <2>1, <2>2, EditWritten
  <2>4. versions' = versions /\ holder' = holder
    BY <1>1 DEF begin_save
  <2>5. FlowTypeOK'
    BY <1>0, <2>3, <2>4 DEF FlowTypeOK, Edit
  <2>6. \A w \in Admins : LockedIn(w)'
    BY <2>3, <2>4 DEF FlowInv, LockedIn, WithStatus
  <2> QED
    BY <1>0, <2>4, <2>5, <2>6 DEF FlowInv, Numbered, OnePublished, WithStatus
<1>2. CASE save_draft(u)
  <2> DEFINE d == edit[u].draft
  <2>1. /\ edit[u].op = "save" /\ holder = NoAdmin /\ holder' = NoAdmin
        /\ versions' = [versions EXCEPT ![d].nodes = edit[u].nodes]
        /\ edit' = [edit EXCEPT ![u] = NoEdit]
    BY <1>2 DEF save_draft
  <2>2. edit[u].nodes \in NodeGraphs
    <3>1. edit[u] \in [op : {"save"}, draft : Nat, nodes : NodeGraphs]
      BY <1>0, <2>1 DEF Edit, NoEdit
    <3> QED
      BY <3>1
  <2>3. \A v \in Version :
            /\ [v EXCEPT !.nodes = edit[u].nodes] \in Version
            /\ [v EXCEPT !.nodes = edit[u].nodes].number = v.number
            /\ [v EXCEPT !.nodes = edit[u].nodes].status = v.status
    BY <2>2 DEF Version
  <2>4. /\ versions' \in [1..Len(versions) -> Version] /\ DOMAIN versions' = DOMAIN versions
        /\ \A i \in 1..Len(versions) : /\ versions'[i].number = versions[i].number
                                      /\ versions'[i].status = versions[i].status
    BY <1>0, <2>1, <2>3
  <2>5. versions' \in Seq(Version)
    BY <1>0, <2>4, VersionsMade
  <2>6. Numbered' /\ OnePublished'
    <3>1. /\ \A i \in DOMAIN versions : versions'[i].number = versions[i].number
          /\ WithStatus("published")' = WithStatus("published")
          /\ WithStatus("draft")' = WithStatus("draft")
      BY <1>0, <2>4 DEF WithStatus
    <3> QED
      BY <1>0, <2>4, <3>1 DEF Numbered, OnePublished
  <2>7. \A w \in Admins : edit[w].op \notin {"publish", "rollback"}
    BY <2>1, OneLocks
  <2>8. /\ edit' \in [Admins -> Edit] /\ edit'[u] = NoEdit
        /\ \A w \in Admins : w # u => edit'[w] = edit[w]
    BY <1>0, <2>1, EditWritten DEF Edit
  <2>9. \A w \in Admins : LockedIn(w)'
    BY <2>7, <2>8 DEF LockedIn, NoEdit
  <2>10. FlowTypeOK'
    BY <1>0, <2>1, <2>5, <2>8 DEF FlowTypeOK, Edit
  <2> QED
    BY <2>6, <2>9, <2>10 DEF FlowInv
<1> QED
    BY <1>1, <1>2

\* A transaction that is rolled back, with its worker.
LEMMA DeathKeeps ==
    ASSUME FlowInv, NEW u \in Admins, edit_dies(u)
    PROVE  FlowInv'
<1>1. /\ edit' \in [Admins -> Edit] /\ edit'[u] = NoEdit
      /\ \A w \in Admins : w # u => edit'[w] = edit[w]
    BY EditWritten DEF edit_dies, FlowInv, Edit
<1>2. versions' = versions /\ holder' = IF holder = u THEN NoAdmin ELSE holder
    BY DEF edit_dies
<1>3. FlowTypeOK'
    BY <1>1, <1>2 DEF FlowInv, FlowTypeOK, Edit
<1>4. \A w \in Admins : LockedIn(w)'
    BY <1>1, <1>2 DEF FlowInv, LockedIn, NoEdit, WithStatus
<1> QED
    BY <1>2, <1>3, <1>4 DEF FlowInv, Numbered, OnePublished, WithStatus

\* A new flow has its draft.
LEMMA FlowStarts == FlowInit => FlowInv
<1> SUFFICES ASSUME NEW g \in NodeGraphs, FlowInit,
                    versions = <<[number |-> 1, status |-> "draft", nodes |-> g]>>
             PROVE  FlowInv
    BY DEF FlowInit
<1>1. [number |-> 1, status |-> "draft", nodes |-> g] \in Version
    BY DEF Version
<1>2. versions \in Seq(Version) /\ DOMAIN versions = {1}
      /\ versions[1].number = 1 /\ versions[1].status = "draft"
    BY <1>1
<1>3. FlowTypeOK
    BY <1>2 DEF FlowInit, FlowTypeOK
<1>4. Numbered /\ OnePublished
    BY <1>2 DEF Numbered, OnePublished, WithStatus
<1>5. \A u \in Admins : LockedIn(u)
    BY DEF FlowInit, LockedIn, NoEdit
<1> QED
    BY <1>3, <1>4, <1>5 DEF FlowInv

\* A step of any admin.
LEMMA FlowStep == FlowInv /\ [FlowNext]_flowVars => FlowInv'
<1> SUFFICES ASSUME FlowInv, [FlowNext]_flowVars PROVE FlowInv'
    OBVIOUS
<1>1. CASE UNCHANGED flowVars
    BY <1>1
    DEF flowVars, FlowInv, FlowTypeOK, Numbered, OnePublished, LockedIn, WithStatus
<1> QED
    BY <1>1, BeginKeeps, CommitKeeps, SaveKeeps, DeathKeeps DEF FlowNext, AdminStep

\* The types of the versions, the locks and the edits.
THEOREM FlowTypeCorrect == FlowSpec => []FlowTypeOK
<1>1. FlowInv => FlowTypeOK
    BY DEF FlowInv
<1> QED
    BY <1>1, FlowStarts, FlowStep, PTL DEF FlowSpec

\* There is one draft and at most one published version, whoever edits,
\* publishes and rolls back at once, and every number is used once.
THEOREM OneLiveVersion == FlowSpec => []OnePublished
<1>1. FlowInv => OnePublished
    BY DEF FlowInv
<1> QED
    BY <1>1, FlowStarts, FlowStep, PTL DEF FlowSpec

-----------------------------------------------------------------------------
(* Calls.                                                                  *)

CallSteps ==
    {"resolving", "menu", "forward", "queue", "voicemail", "over",
     "NodeNotFoundError", "RecursionError"}
Overflowing == [at : References, depth : 0..RecursionLimit]

\* The inductive invariant behind NoNodeIsMissing: every reference of the graph
\* leads somewhere, a call is at a node of the graph, in a menu only if the node
\* is one (a menu has a default), and so is the queue it will be put into.
Routed ==
    /\ FlowCallTypeOK
    /\ \A n \in DOMAIN nodes : WellFormed(nodes, n)
    /\ call \in {"resolving", "menu", "forward", "queue"} => at \in DOMAIN nodes
    /\ call = "menu" => nodes[at].type = "menu"
    /\ queued # NotQueued => queued.at \in DOMAIN nodes
    /\ NoNodeIsMissing

\* The nodes of a graph.
LEMMA NodeIs ==
    ASSUME FlowCallTypeOK, NEW n \in DOMAIN nodes
    PROVE  /\ n \in NodeIds
           /\ nodes[n].to \in References /\ nodes[n].else \in References
           /\ nodes[n].type \in {"menu", "business_hours"} \cup TERMINAL_NODE_TYPES
<1>1. PICK S \in SUBSET NodeIds : nodes \in [S -> Node]
    BY DEF FlowCallTypeOK, Drafts
<1>2. n \in S /\ nodes[n] \in Node
    BY <1>1
<1>3. NoNode \in References
    BY DEF References
<1>4. \A x \in Node :
          /\ x.to \in References /\ x.else \in References
          /\ x.type \in {"menu", "business_hours"} \cup TERMINAL_NODE_TYPES
    BY <1>3 DEF Node, TERMINAL_NODE_TYPES
<1> QED
    BY <1>1, <1>2, <1>4

\* Where a reference that is set leads.
LEMMA ReferenceLeads ==
    ASSUME Routed, NEW n \in DOMAIN nodes
    PROVE  /\ nodes[n].to # NoNode => nodes[n].to \in DOMAIN nodes
           /\ nodes[n].else # NoNode => nodes[n].else \in DOMAIN nodes
           /\ nodes[n].type \in {"menu", "business_hours"} => nodes[n].to \in DOMAIN nodes
           /\ nodes[n].type = "business_hours" => nodes[n].else \in DOMAIN nodes
  BY DEF Routed, WellFormed, CheckRef

\* Where the call is once the TwiML is complete.
LEMMA AnsweredKeeps ==
    ASSUME Routed, NEW state \in {"menu", "forward", "queue", "voicemail"}, Answered(state),
           state # "voicemail" => at \in DOMAIN nodes /\ nodes[at].type = state
    PROVE  Routed'
<1>0. FlowCallTypeOK /\ NotQueued \in Overflowing /\ 0 \in 0..MAX_RESOLUTION_HOPS
      /\ queued.at \in References /\ at \in References
    BY HopsAssumption DEF Routed, FlowCallTypeOK, NotQueued, Overflowing, References
<1>1. nodes' = nodes /\ entry' = entry /\ hops' = 0 /\ queued' = NotQueued
    BY DEF Answered
<1>2. CASE queued = NotQueued
  <2>1. call' = state /\ at' = at
    BY <1>2 DEF Answered
  <2> QED
    BY <1>0, <1>1, <2>1
    DEF Routed, FlowCallTypeOK, Overflowing, NoNodeIsMissing, WellFormed, CheckRef
<1>3. CASE queued # NotQueued
  <2>1. call' = "queue" /\ at' = queued.at
    BY <1>3 DEF Answered
  <2> QED
    BY <1>0, <1>1, <1>3, <2>1
    DEF Routed, FlowCallTypeOK, Overflowing, NoNodeIsMissing, WellFormed, CheckRef
<1> QED
    BY <1>2, <1>3

\* A call that goes to another node of the graph.
LEMMA GoToKeeps ==
    ASSUME Routed, NEW n \in DOMAIN nodes, GoTo(n)
    PROVE  Routed'
<1>1. n \in NodeIds /\ 0 \in 0..MAX_RESOLUTION_HOPS
    BY NodeIs, HopsAssumption DEF Routed
<1> QED
    BY <1>1
    DEF GoTo, Routed, FlowCallTypeOK, References, NoNodeIsMissing, WellFormed, CheckRef

\* A call that stays where it is.
LEMMA BecomesKeeps ==
    ASSUME Routed, NEW state \in {"voicemail", "over", "RecursionError"}, Becomes(state)
    PROVE  Routed'
  BY DEF Becomes, Routed, FlowCallTypeOK, NoNodeIsMissing, WellFormed, CheckRef

\* A step of the resolution or of the call.
LEMMA FlowCallStep == Routed /\ [FlowCallNext]_flowCallVars => Routed'
<1> SUFFICES ASSUME Routed, [FlowCallNext]_flowCallVars PROVE Routed'
    OBVIOUS
<1>0. /\ FlowCallTypeOK /\ hops \in 0..MAX_RESOLUTION_HOPS /\ queued \in Overflowing
      /\ MAX_RESOLUTION_HOPS \in Nat /\ RecursionLimit \in Nat
      /\ call \in {"resolving", "menu", "forward", "queue"} => at \in DOMAIN nodes
    BY HopsAssumption DEF Routed, FlowCallTypeOK, Overflowing
<1>1. ~node_not_found
    BY <1>0 DEF node_not_found
<1>2. ASSUME NEW within \in BOOLEAN, business_hours(within)
      PROVE  Routed'
  <2>1. at' \in DOMAIN nodes /\ at' \in NodeIds
    BY <1>0, <1>2, ReferenceLeads, NodeIs DEF business_hours
  <2>2. hops' \in 0..MAX_RESOLUTION_HOPS
    BY <1>0, <1>2 DEF business_hours, MoreHops
  <2>3. nodes' = nodes /\ entry' = entry /\ queued' = queued /\ call' = call
        /\ call = "resolving"
    BY <1>2 DEF business_hours
  <2> QED
    BY <2>1, <2>2, <2>3
    DEF Routed, FlowCallTypeOK, References, NoNodeIsMissing, WellFormed, CheckRef
<1>3. CASE out_of_hops
    BY <1>3, AnsweredKeeps DEF out_of_hops
<1>4. CASE flow_response
  <2>1. nodes[at].type \in {"menu", "forward", "queue", "voicemail"} /\ at \in DOMAIN nodes
    BY <1>0, <1>4, NodeIs DEF flow_response, Landed, TERMINAL_NODE_TYPES
  <2> QED
    BY <1>4, <2>1, AnsweredKeeps DEF flow_response
<1>5. CASE flow_response_of_overflow
  <2>1. CASE queued.depth = RecursionLimit
    BY <1>5, <2>1, BecomesKeeps DEF flow_response_of_overflow
  <2>2. CASE queued.depth # RecursionLimit
    <3>1. at \in DOMAIN nodes /\ at \in References /\ nodes[at].to \in DOMAIN nodes
          /\ nodes[at].to \in References
      BY <1>0, <1>5, ReferenceLeads, NodeIs
      DEF flow_response_of_overflow, Landed, Overflows, References
    <3>2. /\ queued.at \in References /\ queued.depth + 1 \in 0..RecursionLimit
          /\ queued # NotQueued => queued.at \in DOMAIN nodes
      BY <1>0, <2>2 DEF Overflowing, Routed
    <3>3. /\ nodes' = nodes /\ entry' = entry /\ call' = call /\ call = "resolving"
          /\ at' = nodes[at].to /\ hops' = 0
          /\ queued' = [at |-> IF queued = NotQueued THEN at ELSE queued.at,
                        depth |-> queued.depth + 1]
      BY <1>5, <2>2 DEF flow_response_of_overflow, Landed
    <3>4. queued' \in Overflowing /\ queued'.at \in DOMAIN nodes
      <4> DEFINE q == IF queued = NotQueued THEN at ELSE queued.at
      <4>1. q \in References /\ q \in DOMAIN nodes
        BY <3>1, <3>2
      <4>2. queued' = [at |-> q, depth |-> queued.depth + 1]
        BY <3>3
      <4> HIDE DEF q
      <4> QED
        BY <3>2, <4>1, <4>2 DEF Overflowing
    <3>5. FlowCallTypeOK'
      BY <1>0, <3>1, <3>3, <3>4 DEF FlowCallTypeOK, Overflowing
    <3>6. \A n \in DOMAIN nodes' : WellFormed(nodes, n)'
      BY <3>3 DEF Routed, WellFormed, CheckRef
    <3> QED
      BY <3>1, <3>3, <3>4, <3>5, <3>6 DEF Routed, NoNodeIsMissing
  <2> QED
    BY <2>1, <2>2
<1>6. ASSUME NEW option \in BOOLEAN, resolve_menu_input(option)
      PROVE  Routed'
  <2>1. at \in DOMAIN nodes /\ nodes[at].type = "menu"
    BY <1>0, <1>6 DEF resolve_menu_input, Routed
  <2>2. /\ nodes[at].to \in DOMAIN nodes
        /\ nodes[at].else # NoNode => nodes[at].else \in DOMAIN nodes
    BY <2>1, ReferenceLeads
  <2>3. \/ GoTo(nodes[at].to)
        \/ nodes[at].else # NoNode /\ GoTo(nodes[at].else)
        \/ GoTo(at)
    BY <1>6 DEF resolve_menu_input
  <2> QED
    BY <2>1, <2>2, <2>3, GoToKeeps
<1>7. CASE resolve_forward_failover
  <2>1. CASE nodes[at].to = NoNode
    BY <1>7, <2>1, BecomesKeeps DEF resolve_forward_failover
  <2>2. CASE nodes[at].to # NoNode
    BY <1>0, <1>7, <2>2, ReferenceLeads, GoToKeeps DEF resolve_forward_failover
  <2> QED
    BY <2>1, <2>2
<1>8. CASE call_is_over
    BY <1>8, BecomesKeeps DEF call_is_over
<1>9. CASE UNCHANGED flowCallVars
    BY <1>9
    DEF flowCallVars, Routed, FlowCallTypeOK, NoNodeIsMissing, WellFormed, CheckRef
<1> QED
    BY <1>1, <1>2, <1>3, <1>4, <1>5, <1>6, <1>7, <1>8, <1>9 DEF FlowCallNext

\* A call begins at the entry of a flow that has been validated.
LEMMA FlowCallStarts == FlowCallInit => Routed
  BY HopsAssumption
  DEF FlowCallInit, validate_flow, Routed, FlowCallTypeOK, References, NotQueued, NoNodeIsMissing

\* The types of the graph and of the call.
THEOREM FlowCallTypeCorrect == FlowCallSpec => []FlowCallTypeOK
<1>1. Routed => FlowCallTypeOK
    BY DEF Routed
<1> QED
    BY <1>1, FlowCallStarts, FlowCallStep, PTL DEF FlowCallSpec

\* A validated flow never sends a call to a node it does not have.
THEOREM CallsStayInTheFlow == FlowCallSpec => []NoNodeIsMissing
<1>1. Routed => NoNodeIsMissing
    BY DEF Routed
<1> QED
    BY <1>1, FlowCallStarts, FlowCallStep, PTL DEF FlowCallSpec
=============================================================================
