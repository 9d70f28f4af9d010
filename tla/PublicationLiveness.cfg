SPECIFICATION FairSpec
CONSTANTS
    k1 = k1
    k2 = k2
    g1 = g1
    r1 = r1
    r2 = r2
    i1 = i1
    i2 = i2
    None = None
    Keys <- OneKey
    Groups <- MCGroups
    Routes <- MCRoutes
    Instances <- TwoInstances
    Group <- MCGroup
    Route <- MCRoute
    OwnsRepository = TRUE
    MaxToken = 3
CHECK_DEADLOCK FALSE
PROPERTIES
    GivenUpEnds
