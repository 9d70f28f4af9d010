SPECIFICATION ServicesSpec
CONSTANTS
    WebExports = {"e1", "e2"}
    WebStates <- MCWebStates
    WebTexts <- MCWebTexts
    WebManifests <- MCWebManifests
    MaxRequests = 3
    MaxCancels = 1
    MaxPortFailures = 1
    WireIndexes <- MCWireIndexes
    Responses <- MCResponses
    IndexLimit = 3
    AssetLimit = 2
    TotalLimit = 5
    FirstBuffer = 1
    MaxCalls = 2
    ModuleOf <- MCModuleOf
    MaxMounts = 1
    MaxPageModules = 2
    ReplayInputs <- MCReplayInputs
    Attempts = 2
    MaxFaults = 1
    MaxEdits = 1
    MaxOps = 1
    Captures = {"c1", "c2"}
    WantedAssets <- MCWantedAssets
    MaxTickets = 2
    MaxTransferBytes = 3
    MaxStates = 1
    MaxTrouble = 1
    Wires <- MCWires
    GoodWires <- MCGoodWires
    MaxEventSymbols = 10
    MaxAnswer = 2
CHECK_DEADLOCK FALSE
INVARIANTS
    ServicesTypeOK
    BrowserShowsWhatItRead
    PiecesAreJoined
    ManagedNotebookIsOwned
    RemoteCaptureIsSound
PROPERTIES
    GivenUpServicesEnd
