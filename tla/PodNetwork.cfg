SPECIFICATION Spec
CONSTANTS
    Experiments <- TwoExperiments
    Kind <- Kinds
    Keys <- OneKey
    Commits <- OneKey
    MaxPods = 2
    MaxFaults = 1
INVARIANTS InjectedIsWanted ObservedIsInForce GoneLeavesNothing
CHECK_DEADLOCK FALSE
