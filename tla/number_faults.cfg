\* Every fault there is: requests still end and locks are still dropped.
SPECIFICATION FairSpec
CONSTANTS
    Accounts = {a1}
    Numbers  = {n1}
    Requests = {r1, r2}
    Faults   = {"crash", "lost_reply", "slow_buy", "double_checkout", "lazy_commit"}
    None     = None
INVARIANT LocksAccounted
PROPERTY RequestsFinish
