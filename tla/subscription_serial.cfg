\* One handler at a time, nothing dies: two checkouts, time, ZoikoNex.
SPECIFICATION Spec
CONSTANTS
    Plans     = {0, 1}
    Default   = 0
    Month     = 1
    Year      = 2
    Grace     = 1
    Trial     = 1
    Horizon   = 2
    Checkouts = {c1, c2}
    OrderOf  <- MCOrderOf
    Notices   = {}
    Workers   = {w1}
    Faults    = {"zoikonex"}
    None      = None
INVARIANTS
    TypeOK
    OneBiller
