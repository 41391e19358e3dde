SPECIFICATION FairSpec
CONSTANTS
    Scenarios <- SomeScenarios
INVARIANTS TypeOK ReadyIsInstalled
PROPERTIES UnownedUntouched ExperimentSettles
CHECK_DEADLOCK FALSE
