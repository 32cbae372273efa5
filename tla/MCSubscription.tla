--------------------------- MODULE MCSubscription ---------------------------
(* Small instances of Subscription for TLC. *)
EXTENDS Subscription

\* One session for the highest plan by the year, the others for a month.
MCOrderOf ==
    [c \in Checkouts |-> IF c = CHOOSE d \in Checkouts : TRUE
                         THEN [plan |-> CHOOSE p \in Plans : \A q \in Plans : q <= p,
                               period |-> "annual"]
                         ELSE [plan |-> Default, period |-> "monthly"]]
=============================================================================
