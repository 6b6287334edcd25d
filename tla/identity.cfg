\* Two sessions, three calls of any kind, one crash: first use of a project, or one
\* that runs under a random id when git starts to yield a better one.
CONSTANTS
    c1 = c1
    c2 = c2
    c3 = c3
    h1 = h1
    h2 = h2
    git = git
    alice = alice
    local1 = local1
    local2 = local2
    old1 = old1
    old2 = old2
    OldRows = {old1, old2}
    None = None
    Keep = Keep
    Absent = Absent
    Torn = Torn
    NoFile = NoFile
    Legacy = Absent
    Calls = {c1, c2, c3}
    Hosts = {h1, h2}
    Host <- MCHost
    Users = {git, alice, local1, local2}
    Operations <- MCOperations
    RandomUser <- MCRandomUser
    DerivedUser = git
    MaxCrashes = 1
CHECK_DEADLOCK FALSE
SPECIFICATION Spec
INVARIANTS
    TypeOK
    OneMutationAtATime
    LocalIdentityIgnored
PROPERTIES
    SettledRowsKept
    EveryCallEnds
