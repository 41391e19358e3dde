SPECIFICATION FairSpec
CONSTANTS
    t1 = t1
    t2 = t2
    Targets <- OneTarget
    OneShot = FALSE
    HasDuration = TRUE
    Faults = {"call", "crash"}
    MaxFaults = 1
    MaxPauses = 1
PROPERTIES DeletedEventuallyReleased StopsAtDeadline
CHECK_DEADLOCK FALSE
