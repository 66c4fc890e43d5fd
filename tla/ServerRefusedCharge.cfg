CONSTANTS
    r1 = r1
    r2 = r2
    alice = alice
    bob = bob
    jane = jane
    NoCaller = NoCaller
    BadUrl = BadUrl
    Callers <- TwoRequests
    Flaky <- Nobody
    Limit <- OneAnHour
    Window <- ShortWindows
    MinGap = 0
    Horizon = 1
    Ttl = 1
    MaxEntries = 2
    Kinds <- AnonymousKinds
    KeysRequired = TRUE
    Sessions <- WithSession
    RateLimit = 0
    RateWindow = 2
    AnonLimit = 2
    AnonWindow = 3
    Second = 1
SPECIFICATION ServerSpec
CHECK_DEADLOCK FALSE
INVARIANT
    OnlyFetchesAreCharged
