CONSTANTS
    c1 = c1
    c2 = c2
    c3 = c3
    NoCaller = NoCaller
    Callers <- ThreeCallers
    Flaky <- OneFlaky
    Limit <- TightLimits
    Window <- TightWindows
    MinGap = 1
    Horizon = 4
SPECIFICATION GateSpec
CHECK_DEADLOCK FALSE
INVARIANTS
    GateTypeOK
    BudgetWindow
    FloorBetweenFetches
    ChargedExactlyWhenAdmitted
    RetryAfterExact
    GateInv
PROPERTIES
    ImplementsUpstream
    EveryCallReturns
