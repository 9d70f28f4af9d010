SPECIFICATION FairSpec
CONSTANTS
    o1 = o1
    o2 = o2
    a1 = a1
    None = None
    Owners <- OneOwner
    Artifacts <- OneArtifact
    MaxAhead = 3
    MaxHandles = 1
    MaxClosed = 0
    MaxCrashed = 0
    MaxGone = 2
    ReleaseWhileOpening = FALSE
    CatalogBusy = TRUE
PROPERTIES
    FlushEnds
