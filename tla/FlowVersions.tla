---------------------------- MODULE FlowVersions ----------------------------
(***************************************************************************)
(* The versions of one call flow (routing/service.py): admins edit its     *)
(* draft, publish it and roll back, each in a transaction of their own.    *)
(* A publication and a rollback lock every row of the flow before they     *)
(* read; an edit of the draft does not.                                    *)
(***************************************************************************)
EXTENDS Naturals, Sequences

CONSTANTS
    Admins,
    NoAdmin,
    NodeGraphs,   \* what the nodes of a version can be
    Valid,        \* those that validate_flow accepts
    MaxVersions   \* bound

ASSUME NoAdminAssumption == NoAdmin \notin Admins
ASSUME MaxVersionsAssumption == MaxVersions \in Nat \ {0}

VARIABLES
    versions,  \* the CallFlowVersion rows, in the order of their creation
    holder,    \* whose transaction holds the locks of _lock_flow_versions
    edit       \* an admin's transaction: what it has read

flowVars == <<versions, holder, edit>>

NoEdit == [op |-> "none"]
Version == [number : Nat, status : {"draft", "published", "archived"}, nodes : NodeGraphs]

FlowTypeOK ==
    /\ versions \in Seq(Version)
    /\ holder \in Admins \cup {NoAdmin}
    /\ edit \in [Admins ->
                   {NoEdit}
                   \cup [op : {"save"}, draft : Nat, nodes : NodeGraphs]
                   \cup [op : {"publish"}, draft : Nat, live : SUBSET Nat, number : Nat]
                   \cup [op : {"rollback"}, nodes : NodeGraphs, live : SUBSET Nat, number : Nat]]

\* create_flow
FlowInit ==
    /\ \E g \in NodeGraphs : versions = <<[number |-> 1, status |-> "draft", nodes |-> g]>>
    /\ holder = NoAdmin
    /\ edit = [u \in Admins |-> NoEdit]

WithStatus(s) == {i \in DOMAIN versions : versions[i].status = s}

\* _next_version_number: one more than the highest.
NextVersionNumber ==
    1 + CHOOSE n \in {versions[i].number : i \in DOMAIN versions} :
            \A i \in DOMAIN versions : versions[i].number <= n

-----------------------------------------------------------------------------
(* Every row of the flow is locked, and one of them, the first, always has *)
(* been there: two transactions never get through at once.                 *)

\* Mutant: nothing is locked.
LockableAnyway == TRUE

Lockable == holder = NoAdmin

\* What a transaction reads it reads after the lock, and a draft that
\* validate_flow refuses ends it.
begin_publish(u) ==
    /\ edit[u] = NoEdit
    /\ Lockable
    /\ Len(versions) < MaxVersions
    /\ \E d \in WithStatus("draft") :
          /\ versions[d].nodes \in Valid
          /\ edit' = [edit EXCEPT ![u] =
                [op |-> "publish", draft |-> d, live |-> WithStatus("published"),
                 number |-> NextVersionNumber]]
    /\ holder' = u
    /\ UNCHANGED versions

Archive(vs, live) ==
    [i \in DOMAIN vs |-> IF i \in live THEN [vs[i] EXCEPT !.status = "archived"] ELSE vs[i]]

publish_flow(u) ==
    /\ edit[u].op = "publish"
    /\ LET d == edit[u].draft IN
       versions' =
          Append([Archive(versions, edit[u].live) EXCEPT ![d].status = "published"],
                 [number |-> edit[u].number, status |-> "draft", nodes |-> versions[d].nodes])
    /\ edit' = [edit EXCEPT ![u] = NoEdit]
    /\ holder' = NoAdmin

\* Any version may be the target, and its nodes are not validated again.
begin_rollback(u, target) ==
    /\ edit[u] = NoEdit
    /\ Lockable
    /\ Len(versions) < MaxVersions
    /\ target \in DOMAIN versions
    /\ edit' = [edit EXCEPT ![u] =
          [op |-> "rollback", nodes |-> versions[target].nodes,
           live |-> WithStatus("published"), number |-> NextVersionNumber]]
    /\ holder' = u
    /\ UNCHANGED versions

rollback_flow(u) ==
    /\ edit[u].op = "rollback"
    /\ versions' =
          Append(Archive(versions, edit[u].live),
                 [number |-> edit[u].number, status |-> "published", nodes |-> edit[u].nodes])
    /\ edit' = [edit EXCEPT ![u] = NoEdit]
    /\ holder' = NoAdmin

\* An edit reads the draft without a lock, and its UPDATE waits for whoever
\* holds one: the row may have been published in between.
begin_save(u, nodes) ==
    /\ edit[u] = NoEdit
    /\ \E d \in WithStatus("draft") :
          edit' = [edit EXCEPT ![u] = [op |-> "save", draft |-> d, nodes |-> nodes]]
    /\ UNCHANGED <<versions, holder>>

save_draft(u) ==
    /\ edit[u].op = "save"
    /\ holder = NoAdmin
    /\ versions' = [versions EXCEPT ![edit[u].draft].nodes = edit[u].nodes]
    /\ edit' = [edit EXCEPT ![u] = NoEdit]
    /\ UNCHANGED holder

edit_dies(u) ==
    /\ edit[u] # NoEdit
    /\ edit' = [edit EXCEPT ![u] = NoEdit]
    /\ holder' = IF holder = u THEN NoAdmin ELSE holder
    /\ UNCHANGED versions

AdminStep(u) ==
    \/ begin_publish(u) \/ publish_flow(u)
    \/ \E t \in DOMAIN versions : begin_rollback(u, t)
    \/ rollback_flow(u)
    \/ \E g \in NodeGraphs : begin_save(u, g)
    \/ save_draft(u)
    \/ edit_dies(u)

FlowNext == \E u \in Admins : AdminStep(u)

FlowSpec == FlowInit /\ [][FlowNext]_flowVars

-----------------------------------------------------------------------------
(* Properties.                                                             *)

\* "Exactly one version per call_flow_id may be PUBLISHED" (routing/models.py),
\* "Every call flow is created with a draft and always has exactly one"
\* (service.py), and no two versions have the same number, however edits,
\* publications and rollbacks overlap.
OnePublished ==
    /\ \A i, j \in DOMAIN versions :
          i # j => versions[i].number # versions[j].number
    /\ \A i, j \in WithStatus("published") : i = j
    /\ \A i, j \in WithStatus("draft") : i = j
    /\ WithStatus("draft") # {}
=============================================================================
