\* Five calls on two hosts, three of them writing the same text, two sharing a
\* rowid and one having that of a stored entry; any database call may throw,
\* twice in all, and hosts may crash.
CONSTANTS
    w1 = w1
    w2 = w2
    w3 = w3
    w4 = w4
    w5 = w5
    e0 = e0
    h1 = h1
    h2 = h2
    NoId = NoId
    Ids <- MCIds
    RowIds <- MCIds
    RowId <- MCRowId
    Procs <- MCProcs
    Hosts <- MCHosts
    Host <- MCTwoHosts
    MaxFaults = 2
    FaultyCalls = {"open", "read", "store", "index", "delete", "vector", "vectorStatus"}
    Texts <- MCTexts
    Text <- MCText
    LowSignal <- MCLowSignal
SPECIFICATION Spec
INVARIANTS
    TypeOK
    SearchSound
    RejectedLeavesNothing
    NoDuplicateRows
PROPERTIES
    AtomicPublication
    EveryCallEnds
