SPECIFICATION Spec
CONSTANTS
    Deliveries = {1, 2}
    Senders = {s1, s2}
    NoDelivery = none
    MaxSendAttempts = 2
    SendBatch = 1
    OutboxCap = 1
    MaxSendRetries = 1
    MaxSendFaults = 1
    Tokens = {1, 2, 3}
    NoToken = none
    Callers = {c1, c2}
    MaxVersion = 2
    Links = {l1, l2, l3}
    FirstLink = l1
    Resets = {r1, r2}
    Codes = {k1}
    NoSecret = none
    Clients = {m1, m2}
    People = {q1, q2, q3}
    FirstOwner = q1
    Admins = {a1, a2}
    MaxTeamCalls = 3
    Jobs = {j1, j2}
    Contacts = {x1}
    Typed = {x1}
    NoContact = none
    NoJob = none
    Runners = {u1, u2}
    MaxRows = 2
    Movers = {w1}
    NoStage = none
    MaxStageEdits = 3
    CustomName = custom
    CustomLives = {"open"}
    Deals = {d1, d2}
    SalesUsers = {1, 2}
    NoOwner = none
    Assigners = {g1}
    Editors = {e1, e2}
    Schedulers = {e1}
    LongMonth = 1
    ShortMonth = 1
    Hours = {0}
    Frequencies = {"monthly"}
    NoTime = none
    BrainRuns = {b1, b2}
    Budget = 2
    MaxTokens = 1
    MaxSteps = 2
    MaxAttempts = 2
    Tools = {t1}
    GoalTools = {t1}
    RoleTools = {t1}
    LastDay = 1
    MaxDefinition = 3
    StepLimit = 2
    DepthLimit = 2
    Patchers = {p1, p2}
    HoursInDay = 2
    MinutesInHour = 2
    Week = 3
    MonthLength = 4
    LeapCycle = 2
    Lookback = 16
    Requests = {i1, i2}
    Connections = {n1}
    Organizations = {o1, o2}
    NoConnection = none
    NoOrg = none
INVARIANTS
    ServiceTypesOK SentOnce OneLivePerFamily ConsumedOnce ImportsAccounted BoardAgrees EvenShares
    OverspendBounded AcceptedRuns FiresLatest TenantScoped
PROPERTY DeliveriesSettle
CHECK_DEADLOCK FALSE
