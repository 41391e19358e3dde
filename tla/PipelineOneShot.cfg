SPECIFICATION Spec
CONSTANTS
    t1 = t1
    t2 = t2
    Targets <- MCTargets
    OneShot = TRUE
    HasDuration = FALSE
    Faults = {"write", "call", "crash"}
    MaxFaults = 1
    MaxPauses = 1
SYMMETRY TargetSymmetry
INVARIANT ReleasedOnlyRecovered
PROPERTIES OneShotStaysInjected
CHECK_DEADLOCK FALSE
