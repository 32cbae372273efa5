\* Two handlers run into each other and die: a checkout, a trial and a payment
\* event delivered in any order.
SPECIFICATION FairSpec
CONSTANTS
    Plans     = {0}
    Default   = 0
    Month     = 1
    Year      = 2
    Grace     = 1
    Trial     = 1
    Horizon   = 0
    Checkouts = {c1}
    OrderOf  <- MCOrderOf
    Notices   = {e1}
    Workers   = {w1, w2}
    Faults    = {"crash"}
    None      = None
PROPERTIES
    StatusFlow
    CancelEndsCharging
    PaidIsHonoured
