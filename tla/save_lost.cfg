\* Two users have a database; the configured user changes to the other and back.
CONSTANTS
    s1 = s1
    s2 = s2
    e1 = e1
    e2 = e2
    e3 = e3
    e4 = e4
    r1 = r1
    n1 = n1
    n2 = n2
    n3 = n3
    n4 = n4
    q1 = q1
    a = a
    b = b
    x = x
    y = y
    f = f
    g = g
    h = h
    o = o
    Calls = {s1, s2}
    Contents = {x, y}
    Project <- MCTwoProjects
    General <- MCNoGeneral
    Kind <- MCOnlySaves
    Files = {f, g, o}
    Workspace = {f}
    Touches <- MCNoGeneral
    Note <- MCNote
    EvidenceLimit = 1
    Users = {a, b}
    FirstUser = a
    FirstFiles = {{a, b}}
    MaxFailures = 0
    MaxChanges = 2
    None = None
    Global = Global
    Policy = {"periodic", "shutdown"}
    MinimumWrites = 1
    Journals = TRUE
    MaxRequests = 1
    Mixes = {{s1, s2}}
CHECK_DEADLOCK FALSE
SPECIFICATION Spec
INVARIANTS
    AnsweredIsThere
