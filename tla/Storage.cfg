SPECIFICATION StorageSpec
CONSTANTS
    st1 = st1
    gn1 = gn1
    StoredStates <- MCStates
    StoredGenerations <- MCGenerations
    MembersOf <- MCMembers
    MaxSiblings = 3
    MaxMishaps = 2
    KeptGenerations <- MCKeptGenerations
    KeptStates <- MCKeptStates
    Scopes <- MCScopes
    ScopeOf <- MCScopeOf
    Pinned <- MCPinned
    ContentBytes <- MCContent
    MetaBytes <- MCMeta
    Limits <- MCLimits
    MaxLeased = 1
    MaxUndeleted = 1
    NoArtifact = "none"
    LockProcs = {"p", "q"}
    MaxNodes = 4
    MaxCorruptions = 2
    Writers = {"w1", "w2"}
    OwnTree <- MCOwnTree
    FirstTree = "first"
    OtherTrees = {"other"}
    MaxOutside = 1
    MaxFailures = 1
    Openers = {"p", "q"}
    CommittedTrees = {"t"}
    MaxCatalogs = 3
    MaxBroken = 1
    Notebooks <- MCNotebooks
    MaxRunTroubles = 1
    Borrowers = {"b1"}
    Kernels = {"k1"}
    Hosts = {"h1"}
    Cached = {"c"}
    OutputCells = {"c"}
    Contents = {"plain", "inline", "session", "unrestorable"}
    MaxThirdParty = 1
    MaxRewrites = 1
    PrepareCalls = {"c1", "c2"}
    CallKinds <- MCCallKinds
    OpensRepository <- MCOpensRepository
    Aliases = {"a", "b"}
    Rows <- MCRows
    Values = {1, 2}
    Autorun = 1
    Versions = {1, 2}
    EntryBytes <- MCEntryBytes
    LeastEntry = 2
    IndexLimits = {1, 3, 4, 5}
    MaxNotebookEdits = 2
    MaxCallTroubles = 1
    NotebookPlans <- MCNotebookPlans
    NameRank <- MCNameRank
CHECK_DEADLOCK FALSE
INVARIANTS
    StorageTypeOK
    StoreSurvivesCrashes
    AdmissionMakesRoom
    LockIsExclusive
    DeliveriesAreAtomic
    OnlyIndexedRemain
    StatesAreTheirOwn
    PreparedExportIsSound
PROPERTIES
    ProtectedIsKept
