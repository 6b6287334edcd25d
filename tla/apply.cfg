\* Two executions on two hosts.  Either host may crash; one database call may
\* throw, any but clearing the links and the second half of a vector deletion.
CONSTANTS
    a1 = a1
    a2 = a2
    e1 = e1
    e2 = e2
    e3 = e3
    e4 = e4
    h1 = h1
    h2 = h2
    wide = wide
    narrow = narrow
    NoId = NoId
    Entries <- MCEntries
    Previews <- MCPreviews
    Groups <- MCGroups
    MaxGroups <- MCMaxGroups
    Ids <- MCIds
    RowIds <- MCIds
    RowId <- MCRowId
    Procs <- MCProcs
    Hosts <- MCHosts
    Host <- MCTwoHosts
    MaxFaults = 1
    FaultyCalls = {"read", "store", "index", "mark", "delete", "vector", "commit"}
SPECIFICATION Spec
SYMMETRY MCSymmetry
INVARIANTS
    TypeOK
    CommittedIntact
    NoDanglingLink
    RejectedLeavesNoTrace
    ActiveSearchable
PROPERTIES
    AtomicCompaction
