SPECIFICATION Spec
CONSTANTS
    k1 = k1
    k2 = k2
    c1 = c1
    c2 = c2
    Keys <- MCKeys
    Clients <- MCClients
    Writes <- OneWriter
    Capacity = 2
    MaxVersion = 3
INVARIANTS NothingLost
CHECK_DEADLOCK FALSE
