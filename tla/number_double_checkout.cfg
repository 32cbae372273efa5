\* A double click on checkout.
SPECIFICATION Spec
CONSTANTS
    Accounts = {a1}
    Numbers  = {n1}
    Requests = {r1, r2}
    Faults   = {"double_checkout"}
    None     = None
PROPERTY FailureNeverResets
