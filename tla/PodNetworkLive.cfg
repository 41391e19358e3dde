SPECIFICATION FairSpec
CONSTANTS
    Experiments <- PartitionOnly
    Kind <- PartitionKind
    Keys <- BothKeys
    Commits <- BothKeys
    MaxPods = 2
    MaxFaults = 1
PROPERTIES Injects DeletedGoes
CHECK_DEADLOCK FALSE
