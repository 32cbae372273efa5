SPECIFICATION Spec
CONSTANTS
    Requests   = {r1, r2}
    Notes      = {}
    KindOf    <- MCKindOf
    Staff      = {s1, s2}
    Charges    = {c1}
    LastPeriod = 1
    MaxNotes   = 2
    Workers    = {w1}
    Faults     = {"crash"}
    None       = None
INVARIANT
    PendingIsNeverInvoiced
CHECK_DEADLOCK FALSE
