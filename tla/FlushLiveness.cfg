SPECIFICATION FlushSpec
CONSTANTS
    o1 = o1
    a1 = a1
    None = None
    Owners <- OneOwner
    Artifacts <- OneArtifact
    MaxAhead = 4
    MaxHandles = 2
    MaxClosed = 1
    MaxCrashed = 0
    MaxGone = 2
    ReleaseWhileOpening = FALSE
    CatalogBusy = FALSE
    p1 = p1
    s1 = s1
    v1 = v1
    v2 = v2
    r1 = r1
    f1 = f1
    f2 = f2
    Worker = Worker
    Nobody = Nobody
    QueueProducers <- OneProducer
    Scopes <- OneScope
    Vectors <- TwoVectors
    Recorders <- OneRecorder
    Flushers <- TwoFlushers
    Size <- MCSize
    Oversized <- NoneOversized
    MaxPending = 1
    MaxBytes = 2
    MaxProducers = 1
    MaxAttempts = 2
    OwnsRepository = TRUE
    WorkerInterrupted = TRUE
    MaxAccepted = 2
CHECK_DEADLOCK FALSE
INVARIANTS
    WorkerNeverStranded
    FlushNeverStranded
    FlushedReleasesLeaveNoLease
PROPERTIES
    FlushesEnd
