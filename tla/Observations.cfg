SPECIFICATION ObservationsSpec
CONSTANTS
    p1 = p1
    p2 = p2
    v1 = v1
    v2 = v2
    x1 = x1
    q1 = q1
    q2 = q2
    w1 = w1
    w2 = w2
    s1 = s1
    r1 = r1
    f1 = f1
    None = None
    Producers <- TwoProducers
    Values <- TwoValues
    Plans <- OnePlan
    Occurrences <- OneOrTwo
    ByteCount <- SecondLarger
    Limits <- TwoHandles
    RetainedProducers = 1
    Corruptible = {2}
    MaxRevision = 3
    Worker = Worker
    Nobody = Nobody
    QueueProducers <- QueueTwoProducers
    Scopes <- OneScope
    Vectors <- TwoVectors
    Recorders <- OneRecorder
    Flushers <- OneFlusher
    Size <- MCSize
    Oversized <- SecondOversized
    MaxPending = 2
    MaxBytes = 3
    MaxProducers = 1
    MaxAttempts = 2
    OwnsRepository = TRUE
    WorkerInterrupted = FALSE
    MaxAccepted = 3
CHECK_DEADLOCK FALSE
SYMMETRY Symmetry
INVARIANTS
    ObservationsTypeOK
    OccurrencesInOrder
    QueuesAreDrained
    TablesAgree
    EvidenceDetected
PROPERTIES
    FlushMeansCounted
    RevisionKeptInUse
