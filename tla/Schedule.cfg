SPECIFICATION FairSpec
CONSTANTS
    Plans <- SomePlans
    Period = 2
    TooMany = 1
    MaxTime = 6
    MaxJobs = 3
INVARIANTS RunsOnce
PROPERTIES RunsAreMet PauseReaches
CHECK_DEADLOCK FALSE
