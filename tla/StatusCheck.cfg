SPECIFICATION FairSpec
CONSTANTS
    Synchronous = TRUE
    HasDuration = TRUE
    FailureThreshold = 2
    SuccessThreshold = 1
    Limit = 2
    MaxUid = 2
    MaxWorkers = 3
    MaxCrashes = 1
    MaxFailures = 1
INVARIANTS TypeOK StoppedMeansDecided AtMostOneActive CompletedHasNoWorker
PROPERTY DurationCompletes
CHECK_DEADLOCK FALSE
