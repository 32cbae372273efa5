SPECIFICATION Spec
CONSTANTS
    Callers = {k1, k2}
    NoCaller = NoCaller
    Pulls = {y1, y2}
    Calls = {c1, c2}
    CallWorkers = {web, cron}
    Cron = cron
    Limit = 1
    Endings = {"completed"}
    Auditors = {daily}
    Admins = {u1, u2}
    NoAdmin = NoAdmin
    NodeGraphs = {good, bad}
    Valid = {good}
    MaxVersions = 4
    NodeIds = {n1, n2}
    NoNode = NoNode
    MAX_RESOLUTION_HOPS = 3
    RecursionLimit = 3
    VideoRequests = {v1, v2}
    Egresses = {e1, e2}
    NoEgress = NoEgress
    Ports = {p1, p2}
    PortAccount <- MCPortAccount
    PortHandlers = {h1, h2}
    Nobody = Nobody
    Elsewhere = Elsewhere
    Disputes = {d1, d2}
    Resolvers = {r1, r2}
    Costs = {1}
    Rated = 2
    Unrated = Unrated
    MaxAdjustments = 2
    Sessions = {s1, s2}
    NoSession = NoSession
    Customers = {q1}
    Deciders = {x1, x2}
    Papers = {passport}
    Signals = {g1, g2}
    Requests = {r1}
    Score <- MCScore
    AUTO_SUSPEND_THRESHOLD = 100
    REVIEW_THRESHOLD = 60
    Recordings = {t1, t2}
    Purgers = {p1}
    Events = {m1, m2}
    Flushers = {f1, f2}
    MAX_ATTEMPTS = 2
    MaxMessages = 2
    Bundles = {b1, b2}
    NoBundle = NoBundle
    Askers = {clicks, sweep}
    Sweeper = sweep
    Threads = {th1, th2}
    FAILURE_THRESHOLD = 2
    Users = {usr}
    Visits = {w1}
    Links = {l1}
    Phones = {}
    NoPhone = NoPhone
    Secrets = {secret}
    NoSecret = NoSecret
    MaxPassword = 1
    Emails = {n1}
    Templates = {mfa, invoice, NoDomain}
    Exempt = {mfa}
    Domain <- MCDomain
    NoDomain = NoDomain
    Hooks = {r1, r2}
INVARIANTS TypeOK OneAgentPerCaller MeteredOnce OnePublished NoNodeIsMissing
    CompletedOwnsNumber LedgerExplainsCost SessionDecidesOnce ThresholdSuspends
    HoldKeepsEvidence NothingSkipped
PROPERTIES CallersLeave SlotsAreFreed CallsStayAccountedFor RecordingsSettle
    DecisionIsNoticed HealthyIsUsed CopiesCatchUp BouncesSuppress
CHECK_DEADLOCK FALSE
