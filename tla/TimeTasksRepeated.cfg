SPECIFICATION FairSpec
CONSTANTS
    u1 = u1
    u2 = u2
    u3 = u3
    n1 = n1
    Uids <- TwoUids
    Names <- MCNames
    Records <- MCRecords
    HasChild = FALSE
    MaxSkews = 3
    MaxToggles = 1
    MaxLost = 1
    MaxFailures = 0
    MaxRestarts = 0
    MaxFaults = 1
PROPERTY StopRecovers
CHECK_DEADLOCK FALSE
