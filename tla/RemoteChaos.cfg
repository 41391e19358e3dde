SPECIFICATION FairSpec
CONSTANTS
    Scenarios <- SomeScenarios
INVARIANTS NothingBehind
PROPERTIES FinalizersHeld ClusterSettles CopiesGo
CHECK_DEADLOCK FALSE
