SPECIFICATION Spec
CONSTANTS
    o1 = o1
    o2 = o2
    a1 = a1
    None = None
    Owners <- MCOwners
    Artifacts <- OneArtifact
    MaxAhead = 3
    MaxHandles = 1
    MaxClosed = 0
    MaxCrashed = 0
    MaxGone = 2
    ReleaseWhileOpening = TRUE
    CatalogBusy = FALSE
SYMMETRY Symmetry
INVARIANTS
    HandlesArePinned
