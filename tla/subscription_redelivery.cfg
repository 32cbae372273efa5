\* Stripe redelivers a failed payment.
SPECIFICATION Spec
CONSTANTS
    Plans     = {0, 1}
    Default   = 0
    Month     = 1
    Year      = 2
    Grace     = 1
    Trial     = 0
    Horizon   = 1
    Checkouts = {c1}
    OrderOf  <- MCOrderOf
    Notices   = {e1}
    Workers   = {w1}
    Faults    = {}
    None      = None
PROPERTY GraceStartsOnce
