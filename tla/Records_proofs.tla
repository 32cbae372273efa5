--------------------------- MODULE Records_proofs ---------------------------
(***************************************************************************)
(* What holds of every instance of the components whose argument is short: *)
(* the ports of a number, the ledger of a usage event, the event outbox,   *)
(* the metering of calls and its reconciliation.                           *)
(***************************************************************************)
EXTENDS Reconciliation, Porting, UsageLedger, Outbox, TLAPS

-----------------------------------------------------------------------------
(* Ports.                                                                  *)

PortRow == [status : {"none", "rejected", "canceled", "completed"} \cup BeingPorted,
            created : BOOLEAN]
PortStep == {Resting} \cup [op : {"cancel", "approve", "reject", "complete", "link"}, p : Ports]

\* The inductive invariant behind CompletedOwnsNumber: whoever is about to name
\* the number it created has created it.
PortInv ==
    /\ PortTypeOK
    /\ CompletedOwnsNumber
    /\ \A h \in PortHandlers :
          porting[h].op = "link" => owner = PortAccount[porting[h].p]

\* A request whose status is written.
LEMMA StatusWritten ==
    ASSUME PortTypeOK, NEW p \in Ports,
           NEW s \in {"submitted", "canceled", "approved", "rejected", "completed"}
    PROVE  /\ [port EXCEPT ![p].status = s] \in [Ports -> PortRow]
           /\ [port EXCEPT ![p].status = s][p].status = s
           /\ \A q \in Ports : [port EXCEPT ![p].status = s][q].created = port[q].created
           /\ \A q \in Ports : q # p => [port EXCEPT ![p].status = s][q] = port[q]
<1>1. port \in [Ports -> PortRow]
    BY DEF PortTypeOK, PortRow
<1>2. /\ [port[p] EXCEPT !.status = s] \in PortRow
      /\ [port[p] EXCEPT !.status = s].status = s
      /\ [port[p] EXCEPT !.status = s].created = port[p].created
    BY <1>1 DEF PortRow, BeingPorted
<1> QED
    BY <1>1, <1>2

\* A request that names the number it created.
LEMMA CreatedWritten ==
    ASSUME PortTypeOK, NEW p \in Ports
    PROVE  /\ [port EXCEPT ![p].created = TRUE] \in [Ports -> PortRow]
           /\ \A q \in Ports : [port EXCEPT ![p].created = TRUE][q].status = port[q].status
           /\ \A q \in Ports : q # p => [port EXCEPT ![p].created = TRUE][q] = port[q]
<1>1. port \in [Ports -> PortRow]
    BY DEF PortTypeOK, PortRow
<1>2. /\ [port[p] EXCEPT !.created = TRUE] \in PortRow
      /\ [port[p] EXCEPT !.created = TRUE].status = port[p].status
    BY <1>1 DEF PortRow
<1> QED
    BY <1>1, <1>2

\* A handler that goes on.
LEMMA PortingWritten ==
    ASSUME PortTypeOK, NEW h \in PortHandlers, NEW x \in PortStep
    PROVE  /\ [porting EXCEPT ![h] = x] \in [PortHandlers -> PortStep]
           /\ [porting EXCEPT ![h] = x][h] = x
           /\ \A k \in PortHandlers : k # h => [porting EXCEPT ![h] = x][k] = porting[k]
<1>1. porting \in [PortHandlers -> PortStep]
    BY DEF PortTypeOK, PortStep
<1> QED
    BY <1>1

\* While the number is nobody's, no request is completed or has created it.
LEMMA NobodyPorted ==
    ASSUME PortInv, owner = Nobody
    PROVE  /\ \A p \in Ports : port[p].status # "completed" /\ ~port[p].created
           /\ \A h \in PortHandlers : porting[h].op # "link"
<1>1. PortTypeOK
    BY DEF PortInv
<1>2. \A h \in PortHandlers : porting[h].op = "link" => porting[h].p \in Ports
    BY <1>1 DEF PortTypeOK, Resting
<1>3. \A p \in Ports : port[p].created \in BOOLEAN
    BY <1>1 DEF PortTypeOK
<1> QED
    BY <1>2, <1>3, PortAssumption DEF PortInv, CompletedOwnsNumber

\* A decision that is not a completion keeps it, whatever it overwrites.
LEMMA DecisionKeeps ==
    ASSUME PortInv, NEW h \in PortHandlers,
           NEW op \in {"cancel", "approve", "reject"},
           NEW s \in {"canceled", "approved", "rejected"}, Writes(h, op, s)
    PROVE  PortInv'
<1>1. /\ PortTypeOK /\ porting[h].op = op
      /\ port \in [Ports -> PortRow] /\ porting \in [PortHandlers -> PortStep]
      /\ Resting \in PortStep
    BY DEF PortInv, PortTypeOK, PortRow, PortStep, Writes
<1>2. porting[h].p \in Ports
    BY <1>1 DEF PortStep, Resting
<1>3. s \in {"submitted", "canceled", "approved", "rejected", "completed"}
    OBVIOUS
<1>4. /\ [port EXCEPT ![porting[h].p].status = s] \in [Ports -> PortRow]
      /\ [port EXCEPT ![porting[h].p].status = s][porting[h].p].status = s
      /\ \A q \in Ports : [port EXCEPT ![porting[h].p].status = s][q].created = port[q].created
      /\ \A q \in Ports : q # porting[h].p =>
            [port EXCEPT ![porting[h].p].status = s][q] = port[q]
  <2>1. /\ [port[porting[h].p] EXCEPT !.status = s] \in PortRow
        /\ [port[porting[h].p] EXCEPT !.status = s].status = s
        /\ [port[porting[h].p] EXCEPT !.status = s].created = port[porting[h].p].created
    BY <1>1, <1>2, <1>3 DEF PortRow, BeingPorted
  <2> QED
    BY <1>1, <1>2, <2>1
<1>5. /\ port' \in [Ports -> PortRow] /\ port'[porting[h].p].status = s
      /\ \A q \in Ports : port'[q].created = port[q].created
      /\ \A q \in Ports : q # porting[h].p => port'[q] = port[q]
    BY <1>4 DEF Writes
<1>6. /\ porting' = [porting EXCEPT ![h] = Resting] /\ owner' = owner
    BY DEF Writes, Rests
<1>7. /\ porting' \in [PortHandlers -> PortStep] /\ porting'[h] = Resting
      /\ \A k \in PortHandlers : k # h => porting'[k] = porting[k]
    BY <1>1, <1>6, PortingWritten
<1>8. PortTypeOK'
    BY <1>1, <1>5, <1>6, <1>7 DEF PortTypeOK, PortRow, PortStep
<1>9. CompletedOwnsNumber'
    BY <1>5, <1>6 DEF PortInv, CompletedOwnsNumber
<1>10. \A k \in PortHandlers : porting'[k].op = "link" => owner' = PortAccount[porting'[k].p]
    BY <1>6, <1>7 DEF PortInv, Resting
<1> QED
    BY <1>8, <1>9, <1>10 DEF PortInv

\* A step keeps it.
LEMMA PortStepKeeps ==
    ASSUME PortInv, [PortNext]_portVars
    PROVE  PortInv'
<1> DEFINE Linked(h) == porting[h].op = "link" => owner = PortAccount[porting[h].p]
<1>0. /\ PortTypeOK /\ CompletedOwnsNumber /\ \A h \in PortHandlers : Linked(h)
      /\ port \in [Ports -> PortRow] /\ porting \in [PortHandlers -> PortStep]
      /\ Resting \in PortStep
    BY DEF PortInv, PortTypeOK, PortRow, PortStep
<1>1. ASSUME NEW p \in Ports, submit_porting_request(p)
      PROVE  PortInv'
  <2>2. /\ [port[p] EXCEPT !.status = "submitted"] \in PortRow
        /\ [port[p] EXCEPT !.status = "submitted"].status = "submitted"
        /\ [port[p] EXCEPT !.status = "submitted"].created = port[p].created
    BY <1>0 DEF PortRow, BeingPorted
  <2>3. /\ port' = [port EXCEPT ![p] = [port[p] EXCEPT !.status = "submitted"]]
        /\ porting' = porting /\ owner' = owner
    BY <1>0, <1>1 DEF submit_porting_request
  <2>4. port' \in [Ports -> PortRow]
        /\ \A q \in Ports : port'[q].status = "completed" \/ port'[q].created =>
              port[q].status = "completed" \/ port[q].created
    BY <1>0, <2>2, <2>3
  <2>5. PortTypeOK'
    BY <1>0, <2>3, <2>4 DEF PortTypeOK, PortRow
  <2> QED
    BY <1>0, <2>3, <2>4, <2>5 DEF PortInv, CompletedOwnsNumber
<1>2. ASSUME NEW h \in PortHandlers, NEW op \in {"cancel", "approve", "reject", "complete"},
             NEW p \in Ports, reads_request(h, op, p)
      PROVE  PortInv'
  <2>1. [op |-> op, p |-> p] \in PortStep
    BY DEF PortStep
  <2>2. /\ porting' = [porting EXCEPT ![h] = [op |-> op, p |-> p]]
        /\ port' = port /\ owner' = owner
    BY <1>2 DEF reads_request
  <2>3. /\ porting' \in [PortHandlers -> PortStep]
        /\ porting'[h].op # "link" /\ \A k \in PortHandlers : k # h => porting'[k] = porting[k]
    BY <1>0, <2>1, <2>2, PortingWritten
  <2>4. PortTypeOK'
    BY <1>0, <2>2, <2>3 DEF PortTypeOK, PortStep
  <2> QED
    BY <1>0, <2>2, <2>3, <2>4 DEF PortInv, CompletedOwnsNumber
<1>3. ASSUME NEW h \in PortHandlers,
             cancel_porting_request(h) \/ approve_porting_request(h) \/ reject_porting_request(h)
      PROVE  PortInv'
  <2>1. CASE cancel_porting_request(h)
    BY <1>3, <2>1, DecisionKeeps DEF cancel_porting_request
  <2>2. CASE approve_porting_request(h)
    BY <1>3, <2>2, DecisionKeeps DEF approve_porting_request
  <2>3. CASE reject_porting_request(h)
    BY <1>3, <2>3, DecisionKeeps DEF reject_porting_request
  <2> QED
    BY <1>3, <2>1, <2>2, <2>3
<1>4. ASSUME NEW h \in PortHandlers, complete_porting_request(h)
      PROVE  PortInv'
  <2> DEFINE p == porting[h].p
  <2>1. p \in Ports
    BY <1>0, <1>4 DEF complete_porting_request, PortStep, Resting
  <2> HIDE DEF p
  <2>2. CASE owner = Nobody
    <3>1. /\ owner' = PortAccount[p] /\ port' = [port EXCEPT ![p].status = "completed"]
          /\ porting' = [porting EXCEPT ![h] = [op |-> "link", p |-> p]]
      BY <1>4, <2>2 DEF complete_porting_request, CompletesOrConflicts, p
    <3>2. /\ port' \in [Ports -> PortRow]
          /\ \A q \in Ports : port'[q].created = port[q].created
          /\ \A q \in Ports : q # p => port'[q] = port[q]
      <4>1. "completed" \in {"submitted", "canceled", "approved", "rejected", "completed"}
        OBVIOUS
      <4> QED
        BY <1>0, <2>1, <3>1, <4>1, StatusWritten
    <3>3. [op |-> "link", p |-> p] \in PortStep
      BY <2>1 DEF PortStep
    <3>4. /\ porting' \in [PortHandlers -> PortStep] /\ porting'[h] = [op |-> "link", p |-> p]
          /\ \A k \in PortHandlers : k # h => porting'[k] = porting[k]
      BY <1>0, <3>1, <3>3, PortingWritten
    <3>5. PortTypeOK'
      BY <1>0, <2>1, <3>1, <3>2, <3>4 DEF PortTypeOK, PortRow, PortStep
    <3>6. CompletedOwnsNumber'
      BY <2>2, <3>1, <3>2, NobodyPorted DEF CompletedOwnsNumber
    <3>7. \A k \in PortHandlers : Linked(k)'
      BY <2>2, <3>1, <3>4, NobodyPorted
    <3> QED
      BY <3>5, <3>6, <3>7 DEF PortInv
  <2>3. CASE owner # Nobody
    <3>1. owner' = owner /\ port' = port /\ porting' = [porting EXCEPT ![h] = Resting]
      BY <1>4, <2>3 DEF complete_porting_request, CompletesOrConflicts
    <3>2. /\ porting' \in [PortHandlers -> PortStep] /\ porting'[h] = Resting
          /\ \A k \in PortHandlers : k # h => porting'[k] = porting[k]
      BY <1>0, <3>1, PortingWritten
    <3>3. PortTypeOK' /\ \A k \in PortHandlers : Linked(k)'
      BY <1>0, <3>1, <3>2 DEF PortTypeOK, PortStep, Resting
    <3> QED
      BY <1>0, <3>1, <3>3 DEF PortInv, CompletedOwnsNumber
  <2> QED
    BY <2>2, <2>3
<1>5. ASSUME NEW h \in PortHandlers, created_number(h)
      PROVE  PortInv'
  <2> DEFINE p == porting[h].p
  <2>1. /\ p \in Ports /\ owner = PortAccount[p] /\ owner' = owner
        /\ port' = [port EXCEPT ![p].created = TRUE]
        /\ porting' = [porting EXCEPT ![h] = Resting]
    BY <1>0, <1>5 DEF created_number, Rests, PortStep, Resting
  <2> HIDE DEF p
  <2>2. /\ port' \in [Ports -> PortRow]
        /\ \A q \in Ports : port'[q].status = port[q].status
        /\ \A q \in Ports : q # p => port'[q] = port[q]
    BY <1>0, <2>1, CreatedWritten
  <2>3. /\ porting' \in [PortHandlers -> PortStep] /\ porting'[h] = Resting
        /\ \A k \in PortHandlers : k # h => porting'[k] = porting[k]
    BY <1>0, <2>1, PortingWritten
  <2>4. PortTypeOK' /\ \A k \in PortHandlers : Linked(k)'
    BY <1>0, <2>1, <2>2, <2>3 DEF PortTypeOK, PortRow, PortStep, Resting
  <2> QED
    BY <1>0, <2>1, <2>2, <2>4 DEF PortInv, CompletedOwnsNumber
<1>6. ASSUME NEW h \in PortHandlers, porting_dies(h)
      PROVE  PortInv'
  <2>1. owner' = owner /\ port' = port /\ porting' = [porting EXCEPT ![h] = Resting]
    BY <1>6 DEF porting_dies, Rests
  <2>2. /\ porting' \in [PortHandlers -> PortStep] /\ porting'[h] = Resting
        /\ \A k \in PortHandlers : k # h => porting'[k] = porting[k]
    BY <1>0, <2>1, PortingWritten
  <2>3. PortTypeOK' /\ \A k \in PortHandlers : Linked(k)'
    BY <1>0, <2>1, <2>2 DEF PortTypeOK, PortStep, Resting
  <2> QED
    BY <1>0, <2>1, <2>3 DEF PortInv, CompletedOwnsNumber
<1>7. CASE added_elsewhere
  <2>1. owner = Nobody /\ owner' = Elsewhere /\ port' = port /\ porting' = porting
    BY <1>7 DEF added_elsewhere
  <2> QED
    BY <1>0, <2>1, NobodyPorted DEF PortInv, PortTypeOK, CompletedOwnsNumber
<1>8. CASE UNCHANGED portVars
    BY <1>0, <1>8 DEF portVars, PortInv, PortTypeOK, CompletedOwnsNumber
<1> QED
    BY <1>1, <1>2, <1>3, <1>4, <1>5, <1>6, <1>7, <1>8 DEF PortNext

\* No port has been asked for to begin with.
LEMMA PortStarts == PortInit => PortInv
<1> SUFFICES ASSUME PortInit PROVE PortInv
    OBVIOUS
<1>1. Unported \in PortRow /\ Unported.status = "none" /\ Unported.created = FALSE
    BY DEF Unported, PortRow
<1>2. \A p \in Ports : port[p].status = "none" /\ port[p].created = FALSE
    BY <1>1 DEF PortInit
<1>3. \A h \in PortHandlers : porting[h].op = "none"
    BY DEF PortInit, Resting
<1>4. PortTypeOK
    BY <1>1 DEF PortInit, PortTypeOK, PortRow
<1> QED
    BY <1>2, <1>3, <1>4 DEF PortInv, CompletedOwnsNumber

\* A completed port has activated the number for its own account, however
\* cancellations and completions overlap.
THEOREM PortsOwnTheirNumbers == PortSpec => []CompletedOwnsNumber
<1>1. PortInv => CompletedOwnsNumber
    BY DEF PortInv
<1>2. PortInv /\ [PortNext]_portVars => PortInv'
    BY PortStepKeeps
<1> QED
    BY <1>1, <1>2, PortStarts, PTL DEF PortSpec

-----------------------------------------------------------------------------
(* The ledger of a usage event.                                            *)

Adjustments == [dispute : Disputes, previous : Prices, new : Costs]
Resolution == {NotResolving} \cup
    [step : {"adjust", "adjusting", "write"}, d : Disputes, to : Resolved, read : Prices]
Explained(d) == \E i \in DOMAIN ledger : ledger[i].dispute = d

\* The inductive invariant behind LedgerExplainsCost: whoever is about to write
\* "adjusted" has adjusted.
LedgerInv ==
    /\ LedgerTypeOK
    /\ LedgerExplainsCost
    /\ \A r \in Resolvers :
          resolving[r].step = "write" /\ resolving[r].to = "resolved_adjusted"
          => Explained(resolving[r].d)

\* A step keeps it.
LEMMA LedgerStepKeeps ==
    ASSUME LedgerInv, [LedgerNext]_ledgerVars
    PROVE  LedgerInv'
<1> DEFINE Wrote(r) == resolving[r].step = "write" /\ resolving[r].to = "resolved_adjusted"
                       => Explained(resolving[r].d)
           Settled(d) == dispute[d] = "resolved_adjusted" => Explained(d)
           Priced == \/ event.cost \in {Rated, Unrated}
                     \/ \E i \in DOMAIN ledger : ledger[i].new = event.cost
           Told == ~overtaken /\ ledger # <<>> =>
                      /\ event.cost = Last(ledger).new
                      /\ \A i \in DOMAIN ledger : i > 1 => ledger[i].previous = ledger[i - 1].new
           Event == [step : {"none", "rating", "rated"}, cost : Prices]
<1>0. /\ event \in Event
      /\ ledger \in Seq(Adjustments)
      /\ dispute \in [Disputes -> {"none", "open"} \cup Resolved]
      /\ resolving \in [Resolvers -> Resolution]
      /\ overtaken \in BOOLEAN
      /\ Priced /\ Told
      /\ \A d \in Disputes : Settled(d)
      /\ \A r \in Resolvers : Wrote(r)
    BY DEF LedgerInv, LedgerTypeOK, LedgerExplainsCost, Adjustments, Resolution, Explained
<1>00. ASSUME event' \in Event,
              ledger' \in Seq(Adjustments),
              dispute' \in [Disputes -> {"none", "open"} \cup Resolved],
              resolving' \in [Resolvers -> Resolution],
              overtaken' \in BOOLEAN,
              Priced', Told', \A d \in Disputes : Settled(d)', \A r \in Resolvers : Wrote(r)'
       PROVE  LedgerInv'
    BY <1>00 DEF LedgerInv, LedgerTypeOK, LedgerExplainsCost, Adjustments, Resolution, Explained
<1>1. CASE usage_event_recorded
  <2>1. /\ event.step = "none" /\ event' = [event EXCEPT !.step = "rating"]
        /\ ledger' = ledger /\ dispute' = dispute /\ resolving' = resolving
        /\ overtaken' = overtaken
    BY <1>1 DEF usage_event_recorded
  <2>2. event' \in Event /\ event'.cost = event.cost
    BY <1>0, <2>1
  <2> QED
    BY <1>0, <1>00, <2>1, <2>2 DEF Explained
<1>2. ASSUME NEW cost \in {Rated, Unrated}, sync_usage_event_to_zoikonex(cost)
      PROVE  LedgerInv'
  <2>1. /\ event' = [step |-> "rated", cost |-> IF cost = Unrated THEN event.cost ELSE cost]
        /\ overtaken' = (overtaken \/ (cost # Unrated /\ event.cost # Unrated))
        /\ ledger' = ledger /\ dispute' = dispute /\ resolving' = resolving
    BY <1>2 DEF sync_usage_event_to_zoikonex
  <2>2. event' \in Event /\ overtaken' \in BOOLEAN /\ Priced'
    BY <1>0, <2>1 DEF Prices
  <2>3. Told'
    <3>1. ASSUME ledger # <<>>
          PROVE  Last(ledger).new \in Costs
      <4>1. Len(ledger) \in DOMAIN ledger
        BY <1>0, <3>1
      <4>2. ledger[Len(ledger)] \in Adjustments
        BY <1>0, <4>1
      <4> QED
        BY <4>2 DEF Adjustments, Last
    <3> QED
      BY <1>0, <2>1, <3>1, CostAssumption
  <2> QED
    BY <1>0, <1>00, <2>1, <2>2, <2>3 DEF Explained
<1>3. ASSUME NEW d \in Disputes, open_usage_dispute(d)
      PROVE  LedgerInv'
  <2>1. /\ dispute' = [dispute EXCEPT ![d] = "open"]
        /\ ledger' = ledger /\ event' = event /\ resolving' = resolving
        /\ overtaken' = overtaken
    BY <1>3 DEF open_usage_dispute
  <2>2. dispute' \in [Disputes -> {"none", "open"} \cup Resolved]
        /\ \A e \in Disputes : Settled(e)'
    BY <1>0, <2>1 DEF Explained
  <2> QED
    BY <1>0, <1>00, <2>1, <2>2 DEF Explained
<1>4. ASSUME NEW r \in Resolvers, NEW d \in Disputes, NEW to \in Resolved,
             resolve_usage_dispute(r, d, to)
      PROVE  LedgerInv'
  <2> DEFINE step == IF to = "resolved_adjusted" THEN "adjust" ELSE "write"
  <2>1. /\ resolving' = [resolving EXCEPT ![r] = [step |-> step, d |-> d, to |-> to,
                                                    read |-> Unrated]]
        /\ ledger' = ledger /\ event' = event /\ dispute' = dispute /\ overtaken' = overtaken
    BY <1>4 DEF resolve_usage_dispute
  <2>2. resolving' \in [Resolvers -> Resolution]
    BY <1>0, <2>1 DEF Resolution, Prices
  <2>3. \A k \in Resolvers : Wrote(k)'
    BY <1>0, <2>1 DEF Explained
  <2> QED
    BY <1>0, <1>00, <2>1, <2>2, <2>3 DEF Explained
<1>9. ASSUME NEW r \in Resolvers, cost_read(r)
      PROVE  LedgerInv'
  <2>1. /\ resolving[r].step = "adjust"
        /\ resolving' = [resolving EXCEPT ![r].step = "adjusting", ![r].read = event.cost]
        /\ ledger' = ledger /\ event' = event /\ dispute' = dispute /\ overtaken' = overtaken
    BY <1>9 DEF cost_read
  <2> DEFINE k == [resolving[r] EXCEPT !.step = "adjusting", !.read = event.cost]
  <2>2. k \in Resolution /\ k.step = "adjusting"
    <3>1. resolving[r] \in [step : {"adjust", "adjusting", "write"}, d : Disputes, to : Resolved,
                            read : Prices]
      BY <1>0, <2>1 DEF Resolution, NotResolving
    <3>2. event.cost \in Prices
      BY <1>0
    <3> QED
      BY <3>1, <3>2 DEF Resolution
  <2>3. resolving' = [resolving EXCEPT ![r] = k]
    BY <1>0, <2>1
  <2> HIDE DEF k
  <2>4. /\ resolving' \in [Resolvers -> Resolution] /\ resolving'[r] = k
        /\ \A s \in Resolvers : s # r => resolving'[s] = resolving[s]
    BY <1>0, <2>2, <2>3
  <2>5. \A s \in Resolvers : Wrote(s)'
    BY <1>0, <2>1, <2>2, <2>4 DEF Explained
  <2> QED
    BY <1>0, <1>00, <2>1, <2>4, <2>5 DEF Explained
<1>5. ASSUME NEW r \in Resolvers, NEW new \in Costs, create_usage_adjustment(r, new)
      PROVE  LedgerInv'
  <2> DEFINE read == resolving[r].read
             a == [dispute |-> resolving[r].d, previous |-> read, new |-> new]
             k == [resolving[r] EXCEPT !.step = "write", !.read = Unrated]
  <2>1. /\ event' = [event EXCEPT !.cost = IF new = read THEN @ ELSE new]
        /\ overtaken' = (overtaken \/ event.cost # read)
        /\ ledger' = Append(ledger, a) /\ dispute' = dispute
        /\ resolving[r].step = "adjusting"
        /\ resolving' = [resolving EXCEPT ![r].step = "write", ![r].read = Unrated]
    BY <1>5 DEF create_usage_adjustment, Adjusted, PriceWritten
  <2>2. resolving[r] \in [step : {"adjust", "adjusting", "write"}, d : Disputes, to : Resolved,
                          read : Prices]
    BY <1>0, <2>1 DEF Resolution, NotResolving
  <2>3. a \in Adjustments /\ a.new = new /\ a.dispute = resolving[r].d /\ a.previous = read
    BY <2>2 DEF Adjustments
  <2>4. k \in Resolution /\ k.d = resolving[r].d /\ resolving' = [resolving EXCEPT ![r] = k]
    BY <1>0, <2>1, <2>2 DEF Resolution, Prices
  <2> HIDE DEF a, k
  <2>5. /\ ledger' \in Seq(Adjustments) /\ ledger' # <<>> /\ Last(ledger') = a
        /\ \A i \in DOMAIN ledger : i \in DOMAIN ledger' /\ ledger'[i] = ledger[i]
        /\ Len(ledger') \in DOMAIN ledger' /\ ledger'[Len(ledger')] = a
        /\ Len(ledger') = Len(ledger) + 1 /\ Len(ledger) \in Nat
        /\ DOMAIN ledger' = 1..Len(ledger') /\ DOMAIN ledger = 1..Len(ledger)
        /\ ledger # <<>> => Last(ledger) = ledger[Len(ledger)]
        /\ ledger = <<>> => Len(ledger) = 0
    <3>1. ledger \in Seq(Adjustments) /\ ledger' = Append(ledger, a) /\ a \in Adjustments
      BY <1>0, <2>1, <2>3
    <3>2. ledger' \in Seq(Adjustments) /\ Len(ledger') = Len(ledger) + 1 /\ Len(ledger) \in Nat
      BY <3>1
    <3>3. DOMAIN ledger' = 1..Len(ledger') /\ DOMAIN ledger = 1..Len(ledger)
      BY <3>1, <3>2
    <3>4. /\ \A i \in DOMAIN ledger : ledger'[i] = ledger[i]
          /\ ledger'[Len(ledger')] = a
      BY <3>1, <3>2
    <3>5. /\ \A i \in DOMAIN ledger : i \in DOMAIN ledger'
          /\ Len(ledger') \in DOMAIN ledger' /\ ledger' # <<>>
      BY <3>2, <3>3
    <3>6. ledger = <<>> => Len(ledger) = 0
      OBVIOUS
    <3> QED
      BY <3>2, <3>3, <3>4, <3>5, <3>6 DEF Last
  <2>6. /\ \A d \in Disputes : Explained(d) => Explained(d)'
        /\ \E i \in DOMAIN ledger' : ledger'[i].dispute = resolving[r].d
    BY <2>3, <2>5 DEF Explained
  <2>7. event' \in Event /\ overtaken' \in BOOLEAN
        /\ event'.cost = IF new = read THEN event.cost ELSE new
    BY <1>0, <2>1 DEF Prices
  <2>8. Priced'
    <3>1. CASE new = read
      BY <1>0, <2>5, <2>7, <3>1
    <3>2. CASE new # read
      BY <2>3, <2>5, <2>7, <3>2
    <3> QED
      BY <3>1, <3>2
  <2>9. Told'
    <3> SUFFICES ASSUME ~overtaken' PROVE Told'
      OBVIOUS
    <3>1. ~overtaken /\ event.cost = read
      BY <2>1
    <3>2. event'.cost = Last(ledger').new
      BY <2>3, <2>5, <2>7, <3>1
    <3>3. ASSUME NEW i \in DOMAIN ledger', i > 1
          PROVE  ledger'[i].previous = ledger'[i - 1].new
      <4>1. CASE i \in DOMAIN ledger
        <5>1. i - 1 \in DOMAIN ledger /\ ledger # <<>>
          BY <2>5, <3>3, <4>1
        <5> QED
          BY <1>0, <2>5, <3>1, <3>3, <4>1, <5>1
      <4>2. CASE i \notin DOMAIN ledger
        <5>1. i = Len(ledger') /\ i - 1 = Len(ledger) /\ ledger # <<>>
              /\ i - 1 \in DOMAIN ledger
          BY <2>5, <3>3, <4>2
        <5> QED
          BY <1>0, <2>3, <2>5, <3>1, <5>1
      <4> QED
        BY <4>1, <4>2
    <3> QED
      BY <3>2, <3>3
  <2>10. /\ resolving' \in [Resolvers -> Resolution] /\ resolving'[r].d = resolving[r].d
         /\ \A s \in Resolvers : s # r => resolving'[s] = resolving[s]
    BY <1>0, <2>4
  <2>11. \A s \in Resolvers : resolving[s].step = "write" => resolving[s].d \in Disputes
    BY <1>0 DEF Resolution, NotResolving
  <2>12. \A s \in Resolvers : Wrote(s)'
    <3> SUFFICES ASSUME NEW s \in Resolvers PROVE Wrote(s)'
      OBVIOUS
    <3>1. CASE s = r
      BY <2>6, <2>10, <3>1 DEF Explained
    <3>2. CASE s # r
      <4>1. resolving'[s] = resolving[s] /\ Wrote(s)
        BY <1>0, <2>10, <3>2
      <4>2. resolving[s].step = "write" => resolving[s].d \in Disputes
        BY <2>11
      <4> QED
        BY <2>6, <4>1, <4>2 DEF Explained
    <3> QED
      BY <3>1, <3>2
  <2>13. \A d \in Disputes : Settled(d)'
    BY <1>0, <2>1, <2>6 DEF Explained
  <2> QED
    BY <1>0, <1>00, <2>1, <2>5, <2>7, <2>8, <2>9, <2>10, <2>12, <2>13
<1>6. ASSUME NEW r \in Resolvers, dispute_resolved(r)
      PROVE  LedgerInv'
  <2>1. /\ resolving[r].step = "write"
        /\ dispute' = [dispute EXCEPT ![resolving[r].d] = resolving[r].to]
        /\ resolving' = [resolving EXCEPT ![r] = NotResolving]
        /\ ledger' = ledger /\ event' = event /\ overtaken' = overtaken
    BY <1>6 DEF dispute_resolved
  <2>2. resolving[r].d \in Disputes /\ resolving[r].to \in Resolved
    BY <1>0, <2>1 DEF Resolution, NotResolving
  <2>3. dispute' \in [Disputes -> {"none", "open"} \cup Resolved]
        /\ \A d \in Disputes : Settled(d)'
    BY <1>0, <2>1, <2>2 DEF Explained
  <2>4. resolving' \in [Resolvers -> Resolution] /\ \A k \in Resolvers : Wrote(k)'
    BY <1>0, <2>1 DEF Resolution, NotResolving, Explained
  <2> QED
    BY <1>0, <1>00, <2>1, <2>3, <2>4
<1>7. ASSUME NEW r \in Resolvers, resolution_dies(r)
      PROVE  LedgerInv'
  <2>1. /\ resolving' = [resolving EXCEPT ![r] = NotResolving]
        /\ ledger' = ledger /\ event' = event /\ dispute' = dispute /\ overtaken' = overtaken
    BY <1>7 DEF resolution_dies
  <2>2. resolving' \in [Resolvers -> Resolution] /\ \A k \in Resolvers : Wrote(k)'
    BY <1>0, <2>1 DEF Resolution, NotResolving, Explained
  <2> QED
    BY <1>0, <1>00, <2>1, <2>2 DEF Explained
<1>8. CASE UNCHANGED ledgerVars
    BY <1>0, <1>00, <1>8 DEF ledgerVars, Explained
<1> QED
    BY <1>1, <1>2, <1>3, <1>4, <1>5, <1>6, <1>7, <1>8, <1>9 DEF LedgerNext

\* Nothing has been billed or disputed to begin with.
LEMMA LedgerStarts == LedgerInit => LedgerInv
<1> SUFFICES ASSUME LedgerInit PROVE LedgerInv
    OBVIOUS
<1>1. /\ event = [step |-> "none", cost |-> Unrated] /\ ledger = <<>>
      /\ ledger \in Seq([dispute : Disputes, previous : Prices, new : Costs])
      /\ overtaken = FALSE
      /\ dispute \in [Disputes -> {"none", "open"} \cup Resolved]
      /\ \A d \in Disputes : dispute[d] # "resolved_adjusted"
      /\ \A r \in Resolvers : resolving[r] = NotResolving
      /\ resolving = [r \in Resolvers |-> NotResolving]
    BY DEF LedgerInit
<1>2. LedgerTypeOK
    BY <1>1 DEF LedgerTypeOK, Prices
<1>3. \A r \in Resolvers : resolving[r].step # "write"
    BY <1>1 DEF NotResolving
<1> QED
    BY <1>1, <1>2, <1>3 DEF LedgerInv, LedgerExplainsCost

\* The adjustments account for what is billed, up to the first cost written over
\* one that its writer had not read, and a dispute resolved with an adjustment
\* has one, however resolutions overlap and wherever they die.
THEOREM AdjustmentsExplainCost == LedgerSpec => []LedgerExplainsCost
<1>1. LedgerInv => LedgerExplainsCost
    BY DEF LedgerInv
<1>2. LedgerInv /\ [LedgerNext]_ledgerVars => LedgerInv'
    BY LedgerStepKeeps
<1> QED
    BY <1>1, <1>2, LedgerStarts, PTL DEF LedgerSpec

-----------------------------------------------------------------------------
(* The event outbox.                                                       *)

\* The inductive invariant behind NothingSkipped: the consumer is at most one
\* message ahead of what it has committed, and gives up none that is not buried.
OutboxInv ==
    /\ OutboxTypeOK
    /\ NothingSkipped
    /\ offset <= reading.taken /\ reading.taken <= offset + 1
    /\ reading.taken <= Len(topic) /\ Len(topic) <= MaxMessages
    /\ Busy /\ reading.attempts = MAX_ATTEMPTS => Current \in buried

\* A step of the producer only lengthens the topic.
LEMMA ProducerKeeps ==
    ASSUME OutboxInv, outbox' \in [Events -> {"none", "pending", "published"}],
           flush' \in [Flushers -> SUBSET Events],
           NEW e \in Events,
           topic' = topic \/ (topic' = Append(topic, e) /\ Len(topic) < MaxMessages),
           UNCHANGED <<offset, reading, event_log, buried>>
    PROVE  OutboxInv'
<1>1. /\ topic \in Seq(Events) /\ offset \in Nat /\ reading.taken \in Nat /\ MaxMessages \in Nat
      /\ offset <= reading.taken /\ reading.taken <= Len(topic)
      /\ event_log' = event_log /\ buried' = buried /\ offset' = offset /\ reading' = reading
    BY MessagesAssumption DEF OutboxInv, OutboxTypeOK
<1>2. /\ topic' \in Seq(Events) /\ Len(topic) <= Len(topic')
      /\ \A i \in 1..Len(topic) : topic'[i] = topic[i]
      /\ Len(topic) <= MaxMessages => Len(topic') <= MaxMessages
  <2>1. CASE topic' = topic
    BY <1>1, <2>1
  <2>2. CASE topic' = Append(topic, e) /\ Len(topic) < MaxMessages
    <3>1. /\ topic' \in Seq(Events) /\ Len(topic') = Len(topic) + 1
          /\ \A i \in 1..Len(topic) : topic'[i] = topic[i]
      BY <1>1, <2>2
    <3> QED
      BY <1>1, <2>2, <3>1
  <2> QED
    BY <2>1, <2>2
<1>3. NothingSkipped'
    BY <1>1, <1>2 DEF OutboxInv, NothingSkipped
<1>4. /\ reading.taken <= Len(topic')
      /\ Busy => topic'[reading.taken] = topic[reading.taken]
    BY <1>1, <1>2 DEF Busy
<1> QED
    BY <1>1, <1>2, <1>3, <1>4 DEF OutboxInv, OutboxTypeOK, Busy, Current

\* A step keeps it.
LEMMA OutboxStepKeeps ==
    ASSUME OutboxInv, [OutboxNext]_outboxVars
    PROVE  OutboxInv'
<1>0. /\ outbox \in [Events -> {"none", "pending", "published"}]
      /\ flush \in [Flushers -> SUBSET Events]
      /\ topic \in Seq(Events) /\ Len(topic) \in Nat
      /\ event_log \subseteq Events /\ buried \subseteq Events
      /\ offset \in 0..MaxMessages
      /\ reading \in [taken : 0..MaxMessages, attempts : 0..MAX_ATTEMPTS]
      /\ MaxMessages \in Nat /\ MAX_ATTEMPTS \in Nat \ {0}
      /\ offset <= reading.taken /\ reading.taken <= offset + 1
      /\ reading.taken <= Len(topic) /\ Len(topic) <= MaxMessages
      /\ \A i \in 1..offset : topic[i] \in event_log \cup buried
      /\ reading.taken > offset /\ reading.attempts = MAX_ATTEMPTS => topic[reading.taken] \in buried
    BY MessagesAssumption, AttemptsAssumption
    DEF OutboxInv, OutboxTypeOK, NothingSkipped, Busy, Current
<1>1. ASSUME NEW e \in Events, publish_event_durably(e)
      PROVE  OutboxInv'
  <2>1. /\ outbox' \in [Events -> {"none", "pending", "published"}]
        /\ flush' \in [Flushers -> SUBSET Events] /\ topic' = topic
    BY <1>0, <1>1 DEF publish_event_durably
  <2> QED
    BY <1>1, <2>1, ProducerKeeps DEF publish_event_durably
<1>2. ASSUME NEW f \in Flushers, flush_pending_outbox_events(f)
      PROVE  OutboxInv'
  <2>1. /\ flush' = [flush EXCEPT ![f] = {e \in Events : outbox[e] = "pending"}]
        /\ UNCHANGED <<outbox, topic, offset, reading, event_log, buried>>
    BY <1>2 DEF flush_pending_outbox_events
  <2>2. flush' \in [Flushers -> SUBSET Events]
    BY <1>0, <2>1
  <2> QED
    BY <2>1, <2>2 DEF OutboxInv, OutboxTypeOK, NothingSkipped, Busy, Current
<1>3. ASSUME NEW f \in Flushers, NEW e \in Events, outbox_row_published(f, e)
      PROVE  OutboxInv'
  <2>1. /\ outbox' \in [Events -> {"none", "pending", "published"}]
        /\ flush' \in [Flushers -> SUBSET Events]
    BY <1>0, <1>3 DEF outbox_row_published
  <2> QED
    BY <1>3, <2>1, ProducerKeeps DEF outbox_row_published
<1>4. ASSUME NEW f \in Flushers, NEW e \in Events, outbox_row_fails(f, e)
      PROVE  OutboxInv'
  <2>1. /\ outbox' \in [Events -> {"none", "pending", "published"}]
        /\ flush' \in [Flushers -> SUBSET Events] /\ topic' = topic
    BY <1>0, <1>4 DEF outbox_row_fails
  <2> QED
    BY <1>4, <2>1, ProducerKeeps DEF outbox_row_fails
<1>5. ASSUME NEW f \in Flushers, NEW e \in Events, flush_dies(f, e)
      PROVE  OutboxInv'
  <2>1. /\ outbox' \in [Events -> {"none", "pending", "published"}]
        /\ flush' \in [Flushers -> SUBSET Events]
    BY <1>0, <1>5 DEF flush_dies
  <2> QED
    BY <1>5, <2>1, ProducerKeeps DEF flush_dies
<1>6. CASE take_message
  <2>1. /\ reading' = [taken |-> reading.taken + 1, attempts |-> 0]
        /\ ~(reading.taken > offset) /\ reading.taken < Len(topic)
        /\ UNCHANGED <<outbox, flush, topic, offset, event_log, buried>>
    BY <1>6 DEF take_message, Busy
  <2>2. /\ reading' \in [taken : 0..MaxMessages, attempts : 0..MAX_ATTEMPTS]
        /\ reading'.taken = reading.taken + 1 /\ reading'.attempts = 0
    BY <1>0, <2>1
  <2> QED
    BY <1>0, <2>1, <2>2 DEF OutboxInv, OutboxTypeOK, NothingSkipped, Busy, Current
<1>7. CASE persist_event
  <2>1. /\ event_log' = event_log \cup {topic[reading.taken]} /\ reading.taken > offset
        /\ UNCHANGED <<outbox, flush, topic, offset, reading, buried>>
    BY <1>7 DEF persist_event, Busy, Current
  <2>2. topic[reading.taken] \in Events
    BY <1>0, <2>1
  <2> QED
    BY <1>0, <2>1, <2>2 DEF OutboxInv, OutboxTypeOK, NothingSkipped, Busy, Current
<1>8. CASE persist_fails
  <2>1. /\ reading.taken > offset /\ reading.attempts < MAX_ATTEMPTS
        /\ reading' = [reading EXCEPT !.attempts = @ + 1]
        /\ buried' = IF reading.attempts + 1 = MAX_ATTEMPTS
                     THEN buried \cup {topic[reading.taken]} ELSE buried
        /\ UNCHANGED <<outbox, flush, topic, offset, event_log>>
    BY <1>8 DEF persist_fails, Busy, Current
  <2>2. topic[reading.taken] \in Events
    BY <1>0, <2>1
  <2>3. /\ reading' \in [taken : 0..MaxMessages, attempts : 0..MAX_ATTEMPTS]
        /\ reading'.taken = reading.taken /\ reading'.attempts = reading.attempts + 1
    BY <1>0, <2>1
  <2>4. /\ buried' \subseteq Events /\ buried \subseteq buried'
        /\ reading'.attempts = MAX_ATTEMPTS => topic[reading.taken] \in buried'
    BY <1>0, <2>1, <2>2, <2>3
  <2> QED
    BY <1>0, <2>1, <2>3, <2>4 DEF OutboxInv, OutboxTypeOK, NothingSkipped, Busy, Current
<1>9. CASE commit_offset
  <2>1. /\ reading.taken > offset /\ offset' = reading.taken
        /\ reading.attempts = MAX_ATTEMPTS \/ topic[reading.taken] \in event_log
        /\ UNCHANGED <<outbox, flush, topic, reading, event_log, buried>>
    BY <1>9 DEF commit_offset, MayCommit, Handled, Busy, Current
  <2>2. topic[reading.taken] \in event_log \cup buried /\ reading.taken = offset + 1
    BY <1>0, <2>1
  <2>3. \A i \in 1..offset' : topic[i] \in event_log \cup buried
    BY <1>0, <2>1, <2>2
  <2> QED
    BY <1>0, <2>1, <2>2, <2>3 DEF OutboxInv, OutboxTypeOK, NothingSkipped, Busy, Current
<1>10. CASE consumer_restarts
  <2>1. /\ reading' = [taken |-> offset, attempts |-> 0]
        /\ UNCHANGED <<outbox, flush, topic, offset, event_log, buried>>
    BY <1>10 DEF consumer_restarts
  <2>2. /\ reading' \in [taken : 0..MaxMessages, attempts : 0..MAX_ATTEMPTS]
        /\ reading'.taken = offset /\ reading'.attempts = 0
    BY <1>0, <2>1
  <2> QED
    BY <1>0, <2>1, <2>2 DEF OutboxInv, OutboxTypeOK, NothingSkipped, Busy, Current
<1>11. CASE UNCHANGED outboxVars
    BY <1>11 DEF outboxVars, OutboxInv, OutboxTypeOK, NothingSkipped, Busy, Current
<1> QED
    BY <1>1, <1>2, <1>3, <1>4, <1>5, <1>6, <1>7, <1>8, <1>9, <1>10, <1>11 DEF OutboxNext

\* The topic is empty to begin with.
LEMMA OutboxStarts == OutboxInit => OutboxInv
<1> SUFFICES ASSUME OutboxInit PROVE OutboxInv
    OBVIOUS
<1>1. /\ offset = 0 /\ reading = [taken |-> 0, attempts |-> 0] /\ topic = <<>>
      /\ Len(topic) = 0 /\ topic \in Seq(Events)
    BY DEF OutboxInit
<1>2. OutboxTypeOK
    BY <1>1, MessagesAssumption, AttemptsAssumption DEF OutboxInit, OutboxTypeOK
<1> QED
    BY <1>1, <1>2, MessagesAssumption DEF OutboxInv, NothingSkipped, Busy

\* The committed offset passes no event that is neither logged nor given up,
\* wherever flushes and the consumer die.
THEOREM CommittedIsHandled == OutboxSpec => []NothingSkipped
<1>1. OutboxInv => NothingSkipped
    BY DEF OutboxInv
<1>2. OutboxInv /\ [OutboxNext]_outboxVars => OutboxInv'
    BY OutboxStepKeeps
<1> QED
    BY <1>1, <1>2, OutboxStarts, PTL DEF OutboxSpec

-----------------------------------------------------------------------------
(* The metering of calls.                                                  *)

Jobs == {Idle} \cup [step : {"look", "insert"}, call : Calls, disposition : TERMINAL_CALL_STATUSES]

\* The inductive invariant behind MeteredOnce: a final webhook, a metering under
\* way and a usage event are about a call that is over, which never changes, and
\* a call not yet placed is unknown to Twilio.
RecordInv ==
    /\ RecordTypeOK
    /\ MeteredOnce
    /\ \A w \in CallWorkers : job[w] # Idle =>
          Over(job[w].call) /\ job[w].disposition = twilio[job[w].call]
    /\ \A c \in Calls :
          /\ "final" \in posts[c] \/ usage[c] # <<>> => Over(c)
          /\ origin[c] = "none" \/ request[c] = "allowed" => twilio[c] = "none"

\* A step that meters nothing, and leaves the calls that are over as they are.
LEMMA UnmeteredKeeps ==
    ASSUME RecordInv, RecordTypeOK', usage' = usage, job' = job,
           \A c \in Calls :
              /\ Over(c) => twilio'[c] = twilio[c]
              /\ "final" \in posts'[c] => "final" \in posts[c] \/ twilio'[c] \in TERMINAL_CALL_STATUSES
              /\ origin'[c] = "none" \/ request'[c] = "allowed" => twilio'[c] = "none"
    PROVE  RecordInv'
<1>1. \A c \in Calls : Over(c) => Over(c)'
    BY DEF Over
<1>2. \A c \in Calls : "final" \in posts'[c] \/ usage'[c] # <<>> => Over(c)'
    BY <1>1 DEF RecordInv, Over
<1>3. MeteredOnce'
    BY <1>1 DEF RecordInv, MeteredOnce
<1>4. \A w \in CallWorkers : job[w] # Idle => job[w].call \in Calls
    BY DEF RecordInv, RecordTypeOK
<1>5. \A w \in CallWorkers : job'[w] # Idle =>
         Over(job[w].call)' /\ job'[w].disposition = twilio'[job'[w].call]
    BY <1>1, <1>4 DEF RecordInv, Over
<1> QED
    BY <1>2, <1>3, <1>5 DEF RecordInv, Over

\* Worker w is told status, the outcome of call c if it is a final one.
LEMMA ToldKeeps ==
    ASSUME RecordInv, NEW w \in CallWorkers, NEW c \in Calls, NEW status \in Statuses,
           status \in TERMINAL_CALL_STATUSES => Over(c) /\ status = twilio[c],
           update_call_status(w, c, status),
           UNCHANGED <<origin, twilio, request, usage>>,
           posts' \in [Calls -> SUBSET {"dial", "final"}],
           \A d \in Calls : posts'[d] \subseteq posts[d],
           stale' \subseteq Calls
    PROVE  RecordInv'
<1> DEFINE new == [step |-> "look", call |-> c, disposition |-> status]
<1>1. /\ job \in [CallWorkers -> Jobs] /\ row \in [Calls -> {"none"} \cup Statuses]
      /\ origin' = origin /\ twilio' = twilio /\ request' = request /\ usage' = usage
    BY DEF RecordInv, RecordTypeOK, Jobs
<1>2. row' \in [Calls -> {"none"} \cup Statuses]
    BY <1>1 DEF update_call_status
<1>3. CASE job' = job
  <2>1. RecordTypeOK'
    BY <1>1, <1>2, <1>3 DEF RecordInv, RecordTypeOK
  <2> QED
    BY <1>1, <1>3, <2>1, UnmeteredKeeps DEF RecordInv
<1>4. CASE job' = [job EXCEPT ![w] = new] /\ status \in TERMINAL_CALL_STATUSES
  <2>1. new \in Jobs /\ new.call = c /\ new.disposition = twilio[c] /\ Over(c)
    BY <1>4 DEF Jobs
  <2> HIDE DEF new
  <2>2. /\ job' \in [CallWorkers -> Jobs] /\ job'[w] = new
        /\ \A v \in CallWorkers : v # w => job'[v] = job[v]
    BY <1>1, <1>4, <2>1
  <2>3. RecordTypeOK'
    BY <1>1, <1>2, <2>2 DEF RecordInv, RecordTypeOK, Jobs
  <2>4. \A v \in CallWorkers : job'[v] # Idle =>
           twilio[job'[v].call] \in TERMINAL_CALL_STATUSES
           /\ job'[v].disposition = twilio[job'[v].call]
    BY <2>1, <2>2 DEF RecordInv, Over
  <2> QED
    BY <1>1, <2>3, <2>4 DEF RecordInv, MeteredOnce, Over
<1> QED
    BY <1>3, <1>4 DEF update_call_status

\* A step keeps it.
LEMMA RecordStepKeeps ==
    ASSUME RecordInv, [RecordNext]_recordVars
    PROVE  RecordInv'
<1>0. /\ RecordTypeOK
      /\ \A c \in Calls :
            /\ "final" \in posts[c] => Over(c)
            /\ origin[c] = "none" \/ request[c] = "allowed" => twilio[c] = "none"
      /\ \A c \in Calls : twilio[c] \in {"none", "live"} => ~Over(c)
    BY DEF RecordInv, Over, TERMINAL_CALL_STATUSES
<1>1. ASSUME NEW c \in Calls, place_outbound_call(c)
      PROVE  RecordInv'
  <2>1. /\ origin[c] = "none" /\ twilio[c] = "none"
        /\ origin' = [origin EXCEPT ![c] = "api"] /\ request' = [request EXCEPT ![c] = "allowed"]
        /\ UNCHANGED <<twilio, row, posts, job, usage, stale>>
    BY <1>0, <1>1 DEF place_outbound_call
  <2>2. RecordTypeOK'
    BY <1>0, <2>1 DEF RecordTypeOK
  <2>3. \A d \in Calls : origin'[d] = "none" \/ request'[d] = "allowed" => twilio'[d] = "none"
    BY <1>0, <2>1 DEF RecordTypeOK
  <2> QED
    BY <2>1, <2>2, <2>3, UnmeteredKeeps
<1>2. ASSUME NEW c \in Calls, NEW ok \in BOOLEAN, call_begins(c, ok)
      PROVE  RecordInv'
  <2>1. /\ origin[c] = "api" /\ twilio[c] = "none"
        /\ request' = [request EXCEPT ![c] = IF ok THEN "placed" ELSE "done"]
        /\ twilio' = [twilio EXCEPT ![c] = IF ok THEN "live" ELSE @]
        /\ UNCHANGED <<origin, row, posts, job, usage, stale>>
    BY <1>0, <1>2 DEF call_begins
  <2>2. RecordTypeOK'
    BY <1>0, <2>1 DEF RecordTypeOK
  <2>3. \A d \in Calls :
           /\ Over(d) => twilio'[d] = twilio[d]
           /\ origin'[d] = "none" \/ request'[d] = "allowed" => twilio'[d] = "none"
    BY <1>0, <2>1 DEF RecordTypeOK
  <2> QED
    BY <2>1, <2>2, <2>3, UnmeteredKeeps
<1>3. ASSUME NEW c \in Calls, NEW ok \in BOOLEAN, handle_browser_connect(c, ok) \/ incoming_call(c)
      PROVE  RecordInv'
  <2>1. PICK o \in {"browser", "inbound"}, q \in {"placed", "done"} :
           /\ origin[c] = "none" /\ twilio[c] = "none"
           /\ origin' = [origin EXCEPT ![c] = o]
           /\ twilio' = [twilio EXCEPT ![c] = "live"]
           /\ request' = [request EXCEPT ![c] = q]
           /\ UNCHANGED <<row, posts, job, usage, stale>>
    BY <1>0, <1>3 DEF handle_browser_connect, incoming_call
  <2>2. RecordTypeOK'
    BY <1>0, <2>1 DEF RecordTypeOK
  <2>3. \A d \in Calls :
           /\ Over(d) => twilio'[d] = twilio[d]
           /\ origin'[d] = "none" \/ request'[d] = "allowed" => twilio'[d] = "none"
    BY <1>0, <2>1 DEF RecordTypeOK
  <2> QED
    BY <2>1, <2>2, <2>3, UnmeteredKeeps
<1>4. ASSUME NEW c \in Calls, record_call(c) \/ request_dies(c)
      PROVE  RecordInv'
  <2>1. /\ request' = [request EXCEPT ![c] = "done"]
        /\ row' = row \/ row' = [row EXCEPT ![c] = FirstStatus(c)]
        /\ UNCHANGED <<origin, twilio, posts, job, usage, stale>>
    BY <1>4 DEF record_call, request_dies
  <2>2. FirstStatus(c) \in Statuses
    BY DEF FirstStatus, Statuses
  <2>3. row' \in [Calls -> {"none"} \cup Statuses]
    <3>1. row \in [Calls -> {"none"} \cup Statuses]
      BY <1>0 DEF RecordTypeOK
    <3>2. CASE row' = row
      BY <3>1, <3>2
    <3>3. CASE row' = [row EXCEPT ![c] = FirstStatus(c)]
      BY <2>2, <3>1, <3>3
    <3> QED
      BY <2>1, <3>2, <3>3
  <2>4. RecordTypeOK'
    BY <1>0, <2>1, <2>3 DEF RecordTypeOK
  <2>5. \A d \in Calls : origin'[d] = "none" \/ request'[d] = "allowed" => twilio'[d] = "none"
    BY <1>0, <2>1 DEF RecordTypeOK
  <2> QED
    BY <2>1, <2>4, <2>5, UnmeteredKeeps
<1>5. ASSUME NEW c \in Calls, dial_ends(c)
      PROVE  RecordInv'
  <2>1. /\ posts' = [posts EXCEPT ![c] = @ \cup {"dial"}]
        /\ UNCHANGED <<origin, twilio, request, row, job, usage, stale>>
    BY <1>5 DEF dial_ends
  <2>2. RecordTypeOK'
    BY <1>0, <2>1 DEF RecordTypeOK
  <2>3. \A d \in Calls : "final" \in posts'[d] => "final" \in posts[d]
    BY <1>0, <2>1 DEF RecordTypeOK
  <2> QED
    BY <1>0, <2>1, <2>2, <2>3, UnmeteredKeeps
<1>6. ASSUME NEW c \in Calls, NEW outcome \in Endings, call_ends(c, outcome)
      PROVE  RecordInv'
  <2>0. outcome \in TERMINAL_CALL_STATUSES
    BY EndingsAssumption DEF TERMINAL_CALL_STATUSES
  <2>1. /\ twilio[c] = "live" /\ twilio' = [twilio EXCEPT ![c] = outcome]
        /\ posts' = [posts EXCEPT ![c] = IF origin[c] = "browser" THEN @ ELSE @ \cup {"final"}]
        /\ UNCHANGED <<origin, request, row, job, usage, stale>>
    BY <1>6 DEF call_ends
  <2>2. /\ twilio' \in [Calls -> {"none", "live"} \cup TERMINAL_CALL_STATUSES]
        /\ posts' \in [Calls -> SUBSET {"dial", "final"}]
        /\ twilio'[c] = outcome
        /\ \A d \in Calls : d # c => twilio'[d] = twilio[d] /\ posts'[d] = posts[d]
    BY <1>0, <2>0, <2>1 DEF RecordTypeOK
  <2>3. RecordTypeOK'
    BY <1>0, <2>1, <2>2 DEF RecordTypeOK
  <2>4. \A d \in Calls :
           /\ Over(d) => twilio'[d] = twilio[d]
           /\ "final" \in posts'[d] => "final" \in posts[d] \/ twilio'[d] \in TERMINAL_CALL_STATUSES
           /\ origin'[d] = "none" \/ request'[d] = "allowed" => twilio'[d] = "none"
    BY <1>0, <2>0, <2>1, <2>2
  <2> QED
    BY <2>1, <2>3, <2>4, UnmeteredKeeps
<1>7. ASSUME NEW c \in Calls, NEW p \in {"dial", "final"}, post_is_lost(c, p)
      PROVE  RecordInv'
  <2>1. /\ posts' = [posts EXCEPT ![c] = @ \ {p}]
        /\ UNCHANGED <<origin, twilio, request, row, job, usage, stale>>
    BY <1>7 DEF post_is_lost
  <2>2. RecordTypeOK'
    BY <1>0, <2>1 DEF RecordTypeOK
  <2>3. \A d \in Calls : "final" \in posts'[d] => "final" \in posts[d]
    BY <1>0, <2>1 DEF RecordTypeOK
  <2> QED
    BY <1>0, <2>1, <2>2, <2>3, UnmeteredKeeps
<1>8. ASSUME NEW c \in Calls, NEW p \in {"dial", "final"}, NEW w \in CallWorkers,
             status_callback(w, c, p)
      PROVE  RecordInv'
  <2> DEFINE status == IF p = "dial" THEN "in-progress" ELSE twilio[c]
  <2>1. /\ p \in posts[c] /\ update_call_status(w, c, status)
        /\ posts' = [posts EXCEPT ![c] = @ \ {p}] \/ posts' = posts
        /\ UNCHANGED <<origin, twilio, request, usage, stale>>
    BY <1>8 DEF status_callback
  <2>2. /\ status \in Statuses
        /\ status \in TERMINAL_CALL_STATUSES => Over(c) /\ status = twilio[c]
    BY <1>0, <2>1 DEF Statuses, Over, TERMINAL_CALL_STATUSES
  <2>3. /\ posts' \in [Calls -> SUBSET {"dial", "final"}]
        /\ \A d \in Calls : posts'[d] \subseteq posts[d]
        /\ stale' \subseteq Calls
    <3>1. posts \in [Calls -> SUBSET {"dial", "final"}] /\ stale' \subseteq Calls
      BY <1>0, <2>1 DEF RecordTypeOK
    <3>2. CASE posts' = posts
      BY <3>1, <3>2
    <3>3. CASE posts' = [posts EXCEPT ![c] = @ \ {p}]
      BY <3>1, <3>3
    <3> QED
      BY <2>1, <3>1, <3>2, <3>3
  <2> HIDE DEF status
  <2> QED
    BY <2>1, <2>2, <2>3, ToldKeeps
<1>9. ASSUME NEW c \in Calls, NEW answered \in BOOLEAN, sweep_stale_calls(c, answered)
      PROVE  RecordInv'
  <2>1. /\ stale' = stale \ {c} /\ UNCHANGED <<origin, twilio, request, posts, usage>>
        /\ stale' \subseteq Calls
    BY <1>0, <1>9 DEF sweep_stale_calls, RecordTypeOK
  <2>2. CASE answered /\ Over(c)
    <3>1. twilio[c] \in Statuses /\ update_call_status(Cron, c, twilio[c])
      BY <1>9, <2>2 DEF sweep_stale_calls, Over, Statuses
    <3>2. posts' \in [Calls -> SUBSET {"dial", "final"}] /\ \A d \in Calls : posts'[d] \subseteq posts[d]
      BY <1>0, <2>1 DEF RecordTypeOK
    <3>3. Cron \in CallWorkers
      BY CronAssumption
    <3> QED
      BY <2>1, <2>2, <3>1, <3>2, <3>3, ToldKeeps
  <2>3. CASE ~(answered /\ Over(c))
    <3>1. row' = row /\ job' = job
      BY <1>9, <2>3 DEF sweep_stale_calls
    <3>2. RecordTypeOK'
      BY <1>0, <2>1, <3>1 DEF RecordTypeOK
    <3> QED
      BY <1>0, <2>1, <3>1, <3>2, UnmeteredKeeps
  <2> QED
    BY <2>2, <2>3
<1>10. ASSUME NEW w \in CallWorkers, record_usage_event(w)
       PROVE  RecordInv'
  <2> DEFINE c == job[w].call
  <2>1. /\ job[w] # Idle /\ job[w] \in Jobs /\ job \in [CallWorkers -> Jobs]
        /\ UNCHANGED <<origin, twilio, request, row, posts, stale>>
    BY <1>0, <1>10 DEF record_usage_event, Idle, RecordTypeOK, Jobs
  <2>2. /\ c \in Calls /\ twilio[c] \in TERMINAL_CALL_STATUSES /\ job[w].disposition = twilio[c]
        /\ [job[w] EXCEPT !.step = "insert"] \in Jobs
        /\ [job[w] EXCEPT !.step = "insert"].call = c
        /\ [job[w] EXCEPT !.step = "insert"].disposition = twilio[c]
    BY <2>1 DEF RecordInv, Over, Jobs
  <2>3. PICK x \in Jobs :
           /\ job' = [job EXCEPT ![w] = x]
           /\ x # Idle => x.call = c /\ x.disposition = twilio[c]
    BY <1>10, <2>1, <2>2 DEF record_usage_event, Jobs
  <2>4. /\ usage \in [Calls -> Seq(TERMINAL_CALL_STATUSES)]
        /\ usage' = usage \/ usage' = [usage EXCEPT ![c] = <<twilio[c]>>]
    <3>1. usage \in [Calls -> Seq(TERMINAL_CALL_STATUSES)]
      BY <1>0 DEF RecordTypeOK
    <3>2. CASE job[w].step = "look"
      BY <1>10, <3>1, <3>2 DEF record_usage_event
    <3>3. CASE job[w].step = "insert" /\ usage[c] = <<>>
      <4>1. usage' = [usage EXCEPT ![c] = Append(usage[c], job[w].disposition)]
        BY <1>10, <3>3 DEF record_usage_event, Insertable
      <4>2. Append(usage[c], job[w].disposition) = <<twilio[c]>>
        BY <2>2, <3>3
      <4> QED
        BY <3>1, <4>1, <4>2
    <3>4. CASE job[w].step = "insert" /\ usage[c] # <<>>
      <4>1. usage' = [usage EXCEPT ![c] = usage[c]]
        BY <1>10, <3>4 DEF record_usage_event, Insertable
      <4> QED
        BY <3>1, <4>1
    <3> QED
      BY <1>10, <3>1, <3>2, <3>3, <3>4 DEF record_usage_event
  <2> HIDE DEF c
  <2>5. /\ job' \in [CallWorkers -> Jobs] /\ job'[w] = x
        /\ \A v \in CallWorkers : v # w => job'[v] = job[v]
    BY <2>1, <2>3
  <2>6. /\ usage' \in [Calls -> Seq(TERMINAL_CALL_STATUSES)]
        /\ \A d \in Calls : usage'[d] \in {usage[d], <<twilio[d]>>}
        /\ \A d \in Calls : usage'[d] # usage[d] => d = c
    <3>1. CASE usage' = usage
      BY <2>4, <3>1
    <3>2. CASE usage' = [usage EXCEPT ![c] = <<twilio[c]>>]
      <4>1. <<twilio[c]>> \in Seq(TERMINAL_CALL_STATUSES)
        BY <2>2
      <4> QED
        BY <2>2, <2>4, <3>2, <4>1
    <3> QED
      BY <2>4, <3>1, <3>2
  <2>7. RecordTypeOK'
    BY <1>0, <2>1, <2>5, <2>6 DEF RecordTypeOK, Jobs
  <2>8. \A v \in CallWorkers : job'[v] # Idle =>
           twilio[job'[v].call] \in TERMINAL_CALL_STATUSES
           /\ job'[v].disposition = twilio[job'[v].call]
    BY <2>2, <2>3, <2>5 DEF RecordInv, Over
  <2>9. \A d \in Calls : usage'[d] # <<>> => twilio[d] \in TERMINAL_CALL_STATUSES
    BY <2>2, <2>6 DEF RecordInv, Over
  <2>10. MeteredOnce'
    BY <2>1, <2>6 DEF RecordInv, MeteredOnce
  <2> QED
    BY <1>0, <2>1, <2>7, <2>8, <2>9, <2>10 DEF RecordInv, Over
<1>11. ASSUME NEW w \in CallWorkers, worker_dies(w)
       PROVE  RecordInv'
  <2>1. /\ job' = [job EXCEPT ![w] = Idle]
        /\ UNCHANGED <<origin, twilio, request, row, posts, usage, stale>>
    BY <1>11 DEF worker_dies
  <2>2. RecordTypeOK' /\ \A v \in CallWorkers : job'[v] # Idle => job'[v] = job[v]
    BY <1>0, <2>1 DEF RecordTypeOK
  <2> QED
    BY <2>1, <2>2 DEF RecordInv, MeteredOnce, Over
<1>12. CASE sweep_begins
  <2>1. /\ stale' = {c \in Calls : Stale(c)}
        /\ UNCHANGED <<origin, twilio, request, row, posts, job, usage>>
    BY <1>12 DEF sweep_begins
  <2>2. RecordTypeOK'
    BY <1>0, <2>1 DEF RecordTypeOK
  <2> QED
    BY <1>0, <2>1, <2>2, UnmeteredKeeps
<1>13. CASE UNCHANGED recordVars
    BY <1>13 DEF recordVars, RecordInv, RecordTypeOK, MeteredOnce, Over
<1> QED
    BY <1>1, <1>2, <1>3, <1>4, <1>5, <1>6, <1>7, <1>8, <1>9, <1>10, <1>11, <1>12, <1>13
    DEF RecordNext, CallStep

\* No call has been placed to begin with.
LEMMA RecordStarts == RecordInit => RecordInv
<1> SUFFICES ASSUME RecordInit PROVE RecordInv
    OBVIOUS
<1>1. RecordTypeOK
    BY DEF RecordInit, RecordTypeOK
<1>2. \A w \in CallWorkers : job[w] = Idle
    BY DEF RecordInit
<1>3. \A c \in Calls : usage[c] = <<>> /\ posts[c] = {} /\ twilio[c] = "none"
    BY DEF RecordInit
<1> QED
    BY <1>1, <1>2, <1>3 DEF RecordInv, MeteredOnce

\* A call is metered at most once, by the outcome Twilio gave it, whatever
\* webhooks are lost, repeated or overtaken.
THEOREM CallsMeteredOnce == RecordSpec => []MeteredOnce
<1>1. RecordInv => MeteredOnce
    BY DEF RecordInv
<1>2. RecordInv /\ [RecordNext]_recordVars => RecordInv'
    BY RecordStepKeeps
<1> QED
    BY <1>1, <1>2, RecordStarts, PTL DEF RecordSpec
\* A row says that a call is over only as Twilio says it.
OutcomesAreTwilios ==
    \A c \in Calls : row[c] \in TERMINAL_CALL_STATUSES => row[c] = twilio[c]

\* What a worker was told is written to the row of the call and to no other.
LEMMA StatusIsWritten ==
    ASSUME RecordTypeOK, OutcomesAreTwilios, twilio' = twilio,
           NEW w \in CallWorkers, NEW c \in Calls, NEW status,
           update_call_status(w, c, status),
           status \in TERMINAL_CALL_STATUSES => status = twilio[c]
    PROVE  OutcomesAreTwilios'
<1>1. /\ row \in [Calls -> {"none"} \cup Statuses]
      /\ row' = [row EXCEPT ![c] = IF @ = "none" THEN @ ELSE status]
    BY DEF RecordTypeOK, update_call_status
<1>2. \A d \in Calls : row'[d] = row[d] \/ (d = c /\ row'[d] = status)
    BY <1>1
<1> QED
    BY <1>2 DEF OutcomesAreTwilios

\* A step of a call, a worker or the sweep.
LEMMA OutcomesStep ==
    ASSUME RecordInv, OutcomesAreTwilios, [RecordNext]_recordVars
    PROVE  /\ OutcomesAreTwilios'
           /\ \A c \in Calls : Over(c) => twilio'[c] = twilio[c]
<1>0. /\ RecordTypeOK
      /\ \A c \in Calls :
            /\ "final" \in posts[c] => Over(c)
            /\ origin[c] = "none" \/ request[c] = "allowed" => twilio[c] = "none"
      /\ \A c \in Calls : twilio[c] \in {"none", "live"} => ~Over(c)
      /\ twilio \in [Calls -> {"none", "live"} \cup TERMINAL_CALL_STATUSES]
      /\ row \in [Calls -> {"none"} \cup Statuses]
    BY DEF RecordInv, RecordTypeOK, Over, TERMINAL_CALL_STATUSES
<1>1. ASSUME row' = row, \A c \in Calls : Over(c) => twilio'[c] = twilio[c]
      PROVE  OutcomesAreTwilios'
    BY <1>0, <1>1 DEF OutcomesAreTwilios, Over
<1>2. ASSUME NEW c \in Calls, CallStep(c)
      PROVE  /\ OutcomesAreTwilios'
             /\ \A d \in Calls : Over(d) => twilio'[d] = twilio[d]
  <2>1. CASE \/ place_outbound_call(c) \/ request_dies(c) \/ dial_ends(c)
             \/ \E p \in {"dial", "final"} : post_is_lost(c, p)
    BY <1>1, <2>1 DEF place_outbound_call, request_dies, dial_ends, post_is_lost
  <2>2. CASE \/ \E ok \in BOOLEAN : call_begins(c, ok) \/ handle_browser_connect(c, ok)
             \/ incoming_call(c) \/ \E outcome \in Endings : call_ends(c, outcome)
    <3>1. ~Over(c) /\ row' = row
      BY <1>0, <2>2 DEF call_begins, handle_browser_connect, incoming_call, call_ends
    <3>2. \A d \in Calls : d # c => twilio'[d] = twilio[d]
      BY <1>0, <2>2 DEF call_begins, handle_browser_connect, incoming_call, call_ends
    <3> QED
      BY <1>1, <3>1, <3>2
  <2>3. CASE record_call(c)
    <3>1. twilio' = twilio /\ row' = [row EXCEPT ![c] = FirstStatus(c)]
      BY <2>3 DEF record_call
    <3>2. FirstStatus(c) \notin TERMINAL_CALL_STATUSES
      BY DEF FirstStatus, TERMINAL_CALL_STATUSES
    <3>3. \A d \in Calls : row'[d] = row[d] \/ row'[d] = FirstStatus(c)
      BY <1>0, <3>1
    <3> QED
      BY <3>1, <3>2, <3>3 DEF OutcomesAreTwilios
  <2>4. ASSUME NEW p \in {"dial", "final"}, NEW w \in CallWorkers, status_callback(w, c, p)
        PROVE  OutcomesAreTwilios' /\ twilio' = twilio
    <3> DEFINE status == IF p = "dial" THEN "in-progress" ELSE twilio[c]
    <3>1. update_call_status(w, c, status) /\ twilio' = twilio
      BY <2>4 DEF status_callback
    <3>2. status \in TERMINAL_CALL_STATUSES => status = twilio[c]
      BY DEF TERMINAL_CALL_STATUSES
    <3> HIDE DEF status
    <3> QED
      BY <1>0, <3>1, <3>2, StatusIsWritten
  <2>5. ASSUME NEW answered \in BOOLEAN, sweep_stale_calls(c, answered)
        PROVE  OutcomesAreTwilios' /\ twilio' = twilio
    <3>1. twilio' = twilio /\ (row' = row \/ update_call_status(Cron, c, twilio[c]))
      BY <2>5 DEF sweep_stale_calls
    <3> QED
      BY <1>0, <1>1, <3>1, StatusIsWritten, CronAssumption
  <2> QED
    BY <1>2, <2>1, <2>2, <2>3, <2>4, <2>5 DEF CallStep
<1>3. CASE \/ \E w \in CallWorkers : record_usage_event(w) \/ worker_dies(w)
           \/ sweep_begins \/ UNCHANGED recordVars
    BY <1>1, <1>3 DEF record_usage_event, worker_dies, sweep_begins, recordVars
<1> QED
    BY <1>2, <1>3 DEF RecordNext

\* However webhooks are lost, repeated and overtaken, a row never shows an
\* outcome that is not Twilio's.
THEOREM RowsTellTwiliosOutcome == RecordSpec => []OutcomesAreTwilios
<1>1. RecordInit => OutcomesAreTwilios
    BY DEF RecordInit, OutcomesAreTwilios, TERMINAL_CALL_STATUSES
<1>2. RecordInv /\ [RecordNext]_recordVars => RecordInv'
    BY RecordStepKeeps
<1>3. RecordInv /\ OutcomesAreTwilios /\ [RecordNext]_recordVars => OutcomesAreTwilios'
    BY OutcomesStep
<1> QED
    BY <1>1, <1>2, <1>3, RecordStarts, PTL DEF RecordSpec

-----------------------------------------------------------------------------
(* The reconciliation.                                                     *)

Exception == [call : Calls, by : Auditors, resolved : BOOLEAN]
Audits == {NotAuditing} \cup [step : {"reads"}, open : SUBSET Calls, metered : SUBSET Calls]

\* Every exception is about a call that Twilio completed.
ExceptionsAreCompleted == \A e \in exceptions : twilio[e.call] = "completed"

AuditInv == RecordInv /\ OutcomesAreTwilios /\ AuditTypeOK /\ ExceptionsAreCompleted

\* A run, or staff at work on what it found.
LEMMA AuditKeeps ==
    ASSUME AuditInv, AuditNext
    PROVE  AuditTypeOK' /\ ExceptionsAreCompleted' /\ UNCHANGED recordVars
<1>0. /\ exceptions \subseteq Exception /\ audit \in [Auditors -> Audits]
      /\ row \in [Calls -> {"none"} \cup Statuses]
    BY DEF AuditInv, AuditTypeOK, Exception, Audits, RecordInv, RecordTypeOK
<1>1. NotAuditing \in Audits
    BY DEF Audits
<1>2. ASSUME NEW a \in Auditors, reads_usage_events(a)
      PROVE  AuditTypeOK' /\ ExceptionsAreCompleted' /\ UNCHANGED recordVars
  <2> DEFINE new == [step |-> "reads", open |-> AlreadyOpen,
                     metered |-> {c \in Calls : usage[c] # <<>>}]
  <2>1. AlreadyOpen \in SUBSET Calls
    BY <1>0 DEF AlreadyOpen, Exception
  <2>2. new \in Audits
    BY <2>1 DEF Audits
  <2>3. audit' = [audit EXCEPT ![a] = new] /\ UNCHANGED <<exceptions, recordVars>>
    BY <1>2 DEF reads_usage_events
  <2> HIDE DEF new
  <2>4. audit' \in [Auditors -> Audits]
    BY <1>0, <2>2, <2>3
  <2>5. twilio' = twilio
    BY <2>3 DEF recordVars
  <2> QED
    BY <1>0, <2>3, <2>4, <2>5
    DEF AuditTypeOK, Audits, Exception, AuditInv, ExceptionsAreCompleted
<1>3. ASSUME NEW a \in Auditors, run_zoikonex_reconciliation(a)
      PROVE  AuditTypeOK' /\ ExceptionsAreCompleted' /\ UNCHANGED recordVars
  <2> DEFINE found == {c \in Calls : row[c] = "completed"} \ (audit[a].metered \cup audit[a].open)
             new == [call : found, by : {a}, resolved : {FALSE}]
  <2>1. /\ exceptions' = exceptions \cup new /\ UNCHANGED recordVars
        /\ audit' = [audit EXCEPT ![a] = NotAuditing]
    BY <1>3 DEF run_zoikonex_reconciliation
  <2>2. found \subseteq Calls /\ \A c \in found : row[c] = "completed"
    OBVIOUS
  <2> HIDE DEF found
  <2>3. new \subseteq Exception /\ \A e \in new : e.call \in found
    BY <2>2 DEF Exception
  <2>4. \A e \in new : twilio[e.call] = "completed"
    BY <2>2, <2>3 DEF AuditInv, OutcomesAreTwilios, TERMINAL_CALL_STATUSES
  <2> HIDE DEF new
  <2>5. audit' \in [Auditors -> Audits]
    BY <1>0, <1>1, <2>1
  <2>6. twilio' = twilio
    BY <2>1 DEF recordVars
  <2> QED
    BY <1>0, <2>1, <2>3, <2>4, <2>5, <2>6
    DEF AuditTypeOK, Audits, Exception, AuditInv, ExceptionsAreCompleted
<1>4. ASSUME NEW a \in Auditors, run_dies(a)
      PROVE  AuditTypeOK' /\ ExceptionsAreCompleted' /\ UNCHANGED recordVars
  <2>1. audit' = [audit EXCEPT ![a] = NotAuditing] /\ UNCHANGED <<exceptions, recordVars>>
    BY <1>4 DEF run_dies
  <2>2. audit' \in [Auditors -> Audits] /\ twilio' = twilio
    BY <1>0, <1>1, <2>1 DEF recordVars
  <2> QED
    BY <1>0, <2>1, <2>2 DEF AuditTypeOK, Audits, Exception, AuditInv, ExceptionsAreCompleted
<1>5. ASSUME NEW e \in exceptions, resolve_zoikonex_reconciliation_exception(e)
      PROVE  AuditTypeOK' /\ ExceptionsAreCompleted' /\ UNCHANGED recordVars
  <2> DEFINE closed == [e EXCEPT !.resolved = TRUE]
  <2>1. closed \in Exception /\ closed.call = e.call
    BY <1>0 DEF Exception
  <2>2. exceptions' = (exceptions \ {e}) \cup {closed} /\ UNCHANGED <<audit, recordVars>>
    BY <1>5 DEF resolve_zoikonex_reconciliation_exception
  <2> HIDE DEF closed
  <2>3. twilio' = twilio
    BY <2>2 DEF recordVars
  <2> QED
    BY <1>0, <2>1, <2>2, <2>3
    DEF AuditTypeOK, Audits, Exception, AuditInv, ExceptionsAreCompleted
<1> QED
    BY <1>2, <1>3, <1>4, <1>5 DEF AuditNext

\* A step of the calls or of the reconciliation.
LEMMA AuditStep ==
    ASSUME AuditInv, [AuditedNext]_<<recordVars, auditVars>>
    PROVE  AuditInv'
<1>0. RecordInv /\ OutcomesAreTwilios /\ AuditTypeOK /\ ExceptionsAreCompleted
    BY DEF AuditInv
<1>1. CASE AuditNext
  <2>1. RecordInv' /\ OutcomesAreTwilios'
    BY <1>0, <1>1, AuditKeeps, RecordStepKeeps, OutcomesStep
  <2> QED
    BY <1>1, <2>1, AuditKeeps DEF AuditInv
<1>2. ASSUME [RecordNext]_recordVars, UNCHANGED auditVars
      PROVE  AuditInv'
  <2>1. /\ RecordInv' /\ OutcomesAreTwilios'
        /\ \A c \in Calls : Over(c) => twilio'[c] = twilio[c]
    BY <1>0, <1>2, RecordStepKeeps, OutcomesStep
  <2>2. exceptions' = exceptions /\ audit' = audit
    BY <1>2 DEF auditVars
  <2>3. AuditTypeOK'
    BY <1>0, <2>2 DEF AuditTypeOK
  <2>4. \A e \in exceptions : e.call \in Calls
    BY <1>0 DEF AuditTypeOK
  <2>5. ExceptionsAreCompleted'
    BY <1>0, <2>1, <2>2, <2>4 DEF ExceptionsAreCompleted, Over, TERMINAL_CALL_STATUSES
  <2> QED
    BY <2>1, <2>3, <2>5 DEF AuditInv
<1> QED
    BY <1>1, <1>2 DEF AuditedNext

\* Nothing has been reconciled to begin with.
LEMMA AuditStarts == RecordInit /\ AuditInit => AuditInv
<1> SUFFICES ASSUME RecordInit, AuditInit PROVE AuditInv
    OBVIOUS
<1>1. RecordInv
    BY RecordStarts
<1>2. OutcomesAreTwilios
    BY DEF RecordInit, OutcomesAreTwilios, TERMINAL_CALL_STATUSES
<1>3. AuditTypeOK /\ ExceptionsAreCompleted
    BY DEF AuditInit, AuditTypeOK, ExceptionsAreCompleted
<1> QED
    BY <1>1, <1>2, <1>3 DEF AuditInv

\* The staff's queue names only calls that Twilio completed, however the runs and
\* the staff overlap with the webhooks.
THEOREM ExceptionsAreReal == AuditSpec => []ExceptionsAreCompleted
<1>1. AuditInv => ExceptionsAreCompleted
    BY DEF AuditInv
<1>2. AuditInv /\ [AuditedNext]_<<recordVars, auditVars>> => AuditInv'
    BY AuditStep
<1> QED
    BY <1>1, <1>2, AuditStarts, PTL DEF AuditSpec
=============================================================================
