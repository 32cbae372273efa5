\* A removed user comes back with a copy that was cached before the removal.
SPECIFICATION IdentitySpec
CONSTANTS
    Users = {u1}
    Visits = {w1, w2}
    Links = {l1}
    Phones = {p1}
    NoPhone = NoPhone
    Secrets = {s1, s2}
    NoSecret = NoSecret
    MaxPassword = 1
PROPERTIES UpdatesStay
CHECK_DEADLOCK FALSE
