CONSTANTS
    a = a
    b = b
    activityCard = activityCard
    other = other
    noArguments = noArguments
    WantedCards <- TwoCards
    ActivityCard = activityCard
    NoArguments = noArguments
    Statuses <- SomeStatuses
    Shells <- SomeShells
    Concurrency = 2
SPECIFICATION FetchSpec
CHECK_DEADLOCK FALSE
INVARIANTS
    FetchTypeOK
    BoundedFanOut
    EveryCardAccountedFor
    NoStraggler
PROPERTIES
    FetchReturns
    ImplementsVerdict
