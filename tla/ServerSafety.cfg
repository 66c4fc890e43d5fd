CONSTANTS
    r1 = r1
    r2 = r2
    alice = alice
    bob = bob
    jane = jane
    NoCaller = NoCaller
    BadUrl = BadUrl
    Callers <- TwoRequests
    Flaky <- Nobody
    Limit <- OneAnHour
    Window <- ShortWindows
    MinGap = 0
    Horizon = 3
    Ttl = 1
    MaxEntries = 2
    Kinds <- EveryKind
    KeysRequired = TRUE
    Sessions <- EitherWay
    RateLimit = 1
    RateWindow = 2
    AnonLimit = 1
    AnonWindow = 3
    Second = 2
SPECIFICATION ServerSpec
CHECK_DEADLOCK FALSE
SYMMETRY RequestSymmetry
INVARIANTS
    ServerTypeOK
    OnlyFetchesReachLinkedIn
    CachedAnswerIsRight
    RepeatsAreServedFromCache
    RateWindowHolds
    RetryAfterHeaderSuffices
PROPERTY
    UsesGate
