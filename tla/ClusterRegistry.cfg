SPECIFICATION FairSpec
CONSTANTS
    n1 = n1
    c1 = c1
    c2 = c2
    k1 = k1
    k2 = k2
    Names <- OneName
    Configs <- TwoConfigs
    Callers <- TwoCallers
    MaxEntries = 2
    MaxFailures = 1
PROPERTIES EnsuredIsConfigured ImplementsPromise CallersReturn
CHECK_DEADLOCK FALSE
