SPECIFICATION Spec
CONSTANTS
    t1 = t1
    t2 = t2
    Targets <- OneTarget
    OneShot = FALSE
    HasDuration = TRUE
    Faults = {"write"}
    MaxFaults = 1
    MaxPauses = 0
INVARIANT FinalizerGuardsInjection
CHECK_DEADLOCK FALSE
