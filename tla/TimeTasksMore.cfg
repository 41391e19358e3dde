SPECIFICATION Spec
CONSTANTS
    u1 = u1
    u2 = u2
    u3 = u3
    n1 = n1
    Uids <- ThreeUids
    Names <- MCNames
    Records <- MCRecords
    HasChild = TRUE
    MaxSkews = 5
    MaxToggles = 2
    MaxLost = 1
    MaxFailures = 1
    MaxRestarts = 1
    MaxFaults = 3
SYMMETRY UidSymmetry
INVARIANTS TypeOK MutualExclusion TasksMatchConfigs RecoveredIsClean AcknowledgedIsObserved
CHECK_DEADLOCK FALSE
