CONSTANTS
    Cycles = 4
    RetryAttempts = 3
    FailuresToNoAction = 2
    MinInterval = 2
    BeatTimeout = 2
    Persistent = 3
SPECIFICATION FairSpec
INVARIANTS
    ExecutesOnlyFreshPlans
PROPERTIES
    RunStops
CHECK_DEADLOCK FALSE
