SPECIFICATION Spec
CONSTANTS
    Plans <- SomePlans
    Period = 2
    TooMany = 1
    MaxTime = 6
    MaxJobs = 3
INVARIANT OneAtATime
CHECK_DEADLOCK FALSE
