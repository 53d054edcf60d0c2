SPECIFICATION FairSpec
CONSTANTS
    Limit = 2
    RecentErrorLimit = 2
    MaxEvents = 3
    MaxFaults = 3
    MaxCrashes = 2
INVARIANTS
    TypeOK
    LoopLives
    NeverSleepsThroughWork
PROPERTIES
    EventuallyExamined
    StopReturns
