SPECIFICATION Spec
CONSTANTS
    Trees <- TiedTrees
    MaxNodes = 4
INVARIANTS EntryKept
CHECK_DEADLOCK FALSE
