---------------------------- MODULE NumberMarket ----------------------------
(***************************************************************************)
(* What the number service promises of a number, whoever asks and whatever *)
(* fails: it is open to all, or promised to one account, or serving that   *)
(* account, or resting after a cancellation; an account gets it only while *)
(* it is open, and keeps it until its promise lapses or its service ends.  *)
(***************************************************************************)
CONSTANTS Accounts, Numbers, None

VARIABLE market     \* of each number: its phase, and the account it is for

Open    == [phase |-> "open", for |-> None]
Resting == [phase |-> "resting", for |-> None]
For(phase, a) == [phase |-> phase, for |-> a]

Init == market = [n \in Numbers |-> Open]

Promise(a, n) ==
    /\ market[n] = Open
    /\ market' = [market EXCEPT ![n] = For("promised", a)]

\* The account did not complete its purchase in time.
Lapse(n) ==
    /\ market[n].phase = "promised"
    /\ market' = [market EXCEPT ![n] = Open]

Serve(a, n) ==
    /\ market[n] = For("promised", a)
    /\ market' = [market EXCEPT ![n] = For("serving", a)]

\* A cancellation ends the service of one number, a teardown of several.
End(a, S) ==
    /\ \A n \in S : market[n] = For("serving", a)
    /\ market' = [n \in Numbers |-> IF n \in S THEN Resting ELSE market[n]]

Reopen(n) ==
    /\ market[n] = Resting
    /\ market' = [market EXCEPT ![n] = Open]

Next ==
    \/ \E a \in Accounts, n \in Numbers : Promise(a, n) \/ Serve(a, n)
    \/ \E n \in Numbers : Lapse(n) \/ Reopen(n)
    \/ \E a \in Accounts, S \in SUBSET Numbers : End(a, S)

Spec == Init /\ [][Next]_market
=============================================================================
