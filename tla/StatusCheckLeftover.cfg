SPECIFICATION Spec
CONSTANTS
    Synchronous = FALSE
    HasDuration = FALSE
    FailureThreshold = 2
    SuccessThreshold = 1
    Limit = 2
    MaxUid = 1
    MaxWorkers = 1
    MaxCrashes = 0
    MaxFailures = 0
INVARIANTS DeleteCleansUp
CHECK_DEADLOCK FALSE
