\* Crashes and lost provider answers anywhere; every purchase has its number to itself.
SPECIFICATION Spec
CONSTANTS
    Accounts = {a1, a2}
    Numbers  = {n1, n2}
    Requests = {r1, r2}
    Faults   = {"crash", "lost_reply"}
    None     = None
SYMMETRY Symmetry
INVARIANTS
    TypeOK
    SoleBuyer
    CancelledIsReleased
    RowsMatchProvider
    PurchasesSettle
PROPERTIES
    NoClobber
    CustomerSuspensionHolds
    MarketSpec
