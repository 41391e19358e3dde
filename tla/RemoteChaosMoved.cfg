SPECIFICATION Spec
CONSTANTS
    Scenarios <- SomeScenarios
INVARIANT NoReleaseLeft
CHECK_DEADLOCK FALSE
