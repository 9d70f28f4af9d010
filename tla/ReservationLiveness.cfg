SPECIFICATION FairSpec
CONSTANTS
    o1 = o1
    o2 = o2
    i1 = i1
    v1 = v1
    None = None
    Owners <- MCOwners
    Identities <- OneIdentity
    Instances <- NoInstance
    TTL = 1
    MaxWait = 1
    MaxFence = 2
    MaxGone = 1
    FlushCanStop = FALSE
PROPERTIES
    ReservationsEnd
