SPECIFICATION Spec
CONSTANTS
    k1 = k1
    k2 = k2
    c1 = c1
    c2 = c2
    Keys <- MCKeys
    Clients <- MCClients
    Writes <- AllWrite
    Capacity = 1
    MaxVersion = 3
INVARIANT TypeOK
PROPERTY NeverGoesBack
CHECK_DEADLOCK FALSE
