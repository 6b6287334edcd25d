\* One execution; marking may throw once.
CONSTANTS
    a1 = a1
    a2 = a2
    e1 = e1
    e2 = e2
    e3 = e3
    e4 = e4
    h1 = h1
    h2 = h2
    wide = wide
    narrow = narrow
    NoId = NoId
    Entries <- MCEntries
    Previews <- MCPreviews
    Groups <- MCGroups
    MaxGroups <- MCMaxGroups
    Ids <- MCIds
    RowIds <- MCIds
    RowId <- MCRowId
    Procs <- MCOneProc
    Hosts <- MCHosts
    Host <- MCOneHost
    MaxFaults = 1
    FaultyCalls = {"mark"}
SPECIFICATION SteadySpec
INVARIANTS
    NoHalfApplied
