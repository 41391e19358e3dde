SPECIFICATION FairSpec
CONSTANTS
    Trees <- SomeTrees
    MaxNodes = 4
INVARIANTS SerialInOrder AccomplishedMeansDone
PROPERTIES StopsReach EntryIsReported
CHECK_DEADLOCK FALSE
