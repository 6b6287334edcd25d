\* Two calls with the same text on one event loop; only the embedder may fail.
CONSTANTS
    w1 = w1
    w2 = w2
    w3 = w3
    w4 = w4
    w5 = w5
    e0 = e0
    h1 = h1
    h2 = h2
    NoId = NoId
    Ids <- MCIds
    RowIds <- MCIds
    RowId <- MCRowId
    Procs <- MCPair
    Hosts <- MCHosts
    Host <- MCOneHost
    MaxFaults = 0
    FaultyCalls = {}
    Texts <- MCTexts
    Text <- MCText
    LowSignal <- MCLowSignal
SPECIFICATION SteadySpec
INVARIANTS
    DuplicateIsStored
