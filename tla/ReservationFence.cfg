SPECIFICATION Spec
CONSTANTS
    o1 = o1
    o2 = o2
    i1 = i1
    v1 = v1
    None = None
    Owners <- MCOwners
    Identities <- OneIdentity
    Instances <- OneInstance
    TTL = 2
    MaxWait = 2
    MaxFence = 2
    MaxGone = 1
    FlushCanStop = FALSE
SYMMETRY Symmetry
INVARIANTS
    TypeOK
    ReservationsHold
    FencesAreUnique
PROPERTIES
    ImplementsFencedPointer
