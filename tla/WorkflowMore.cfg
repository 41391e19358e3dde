SPECIFICATION FairSpec
CONSTANTS
    Trees <- SomeTrees
    MaxNodes = 4
INVARIANTS TypeOK EntryKept
PROPERTIES FinishedStays
CHECK_DEADLOCK FALSE
