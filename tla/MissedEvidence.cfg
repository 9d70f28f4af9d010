SPECIFICATION Spec
CONSTANTS
    p1 = p1
    p2 = p2
    v1 = v1
    v2 = v2
    x1 = x1
    None = None
    Producers <- TwoProducers
    Values <- TwoValues
    Plans <- OnePlan
    Occurrences <- One
    ByteCount <- OneByte
    Limits <- OneHandle
    RetainedProducers = 1
    Corruptible = {}
    MaxRevision = 2
SYMMETRY Symmetry
INVARIANTS
    EvidenceAlwaysDetected
