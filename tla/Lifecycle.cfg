CONSTANTS
    r1 = r1
    r2 = r2
    alice = alice
    bob = bob
    jane = jane
    NoCaller = NoCaller
    BadUrl = BadUrl
    Callers <- TwoRequests
    Flaky <- OneFlaky
    Limit <- OneAnHour
    Window <- TwoTicks
    MinGap = 1
    Horizon = 2
    Ttl = 1
    MaxEntries = 2
    Kinds <- AnyCaller
    KeysRequired = TRUE
    Sessions <- WithSession
    RateLimit = 0
    RateWindow = 2
    AnonLimit = 0
    AnonWindow = 3
    Second = 1
    Grace = 1
    MaxStops = 1
SPECIFICATION LifeSpec
CHECK_DEADLOCK FALSE
INVARIANTS
    BudgetPerLife
    FloorPerLife
PROPERTY
    EveryRequestIsAnsweredOrLost
