SPECIFICATION Spec
CONSTANTS
    t1 = t1
    t2 = t2
    Targets <- OneTarget
    OneShot = FALSE
    HasDuration = TRUE
    Faults = {}
    MaxFaults = 0
    MaxPauses = 0
PROPERTY InjectedOnlyWhileExists
CHECK_DEADLOCK FALSE
