SPECIFICATION Spec
CONSTANTS
    t1 = t1
    t2 = t2
    Targets <- MCTargets
    OneShot = FALSE
    HasDuration = TRUE
    Faults = {"call", "crash"}
    MaxFaults = 1
    MaxPauses = 1
SYMMETRY TargetSymmetry
INVARIANTS TypeOK FinalizerGuardsInjection QuietMeansConverged ReleasedOnlyRecovered
PROPERTIES TargetsFixed
CHECK_DEADLOCK FALSE
