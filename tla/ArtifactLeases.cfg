SPECIFICATION Spec
CONSTANTS
    o1 = o1
    o2 = o2
    a1 = a1
    None = None
    Owners <- MCOwners
    Artifacts <- OneArtifact
    MaxAhead = 2
    MaxHandles = 1
    MaxClosed = 1
    MaxCrashed = 1
    MaxGone = 1
    ReleaseWhileOpening = FALSE
    CatalogBusy = TRUE
SYMMETRY Symmetry
INVARIANTS
    TypeOK
    HandlesArePinned
PROPERTIES
    ImplementsPinnedArtifacts
