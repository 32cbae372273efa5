SPECIFICATION FairSpec
CONSTANTS
    Requests   = {r1, r2}
    Notes      = {r2}
    KindOf    <- MCKindOf
    Staff      = {s1, s2}
    Charges    = {c1}
    LastPeriod = 1
    MaxNotes   = 2
    Workers    = {w1, w2}
    Faults     = {"crash"}
    None       = None
INVARIANTS
    TypeOK
    InvoicedIsBilled
    ChargedOnce
    ExecutedIsApproved
    ResolvedOnce
PROPERTY
    ApprovalsEnd
\* Every request may end up resolved, every charge invoiced.
CHECK_DEADLOCK FALSE
