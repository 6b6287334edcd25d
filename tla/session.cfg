\* A session of two requests and the calls of one mix, with a change of
\* the user and two failures, shut down at any time.
CONSTANTS
    s1 = s1
    s2 = s2
    e1 = e1
    e2 = e2
    e3 = e3
    e4 = e4
    r1 = r1
    n1 = n1
    n2 = n2
    n3 = n3
    n4 = n4
    q1 = q1
    a = a
    b = b
    x = x
    y = y
    f = f
    g = g
    h = h
    o = o
    Calls = {s1, s2, e1, e2, e3, e4, r1, n1, n2, n3, n4, q1}
    Contents = {x, y}
    Project <- MCProject
    General <- MCGeneral
    Kind <- MCKind
    Files = {f, g, h, o}
    Workspace = {f, g, h}
    Touches <- MCTouches
    Note <- MCNote
    EvidenceLimit = 2
    Users = {a, b}
    FirstUser = a
    FirstFiles = {{}, {a, b}}
    MaxFailures = 2
    MaxChanges = 1
    None = None
    Global = Global
    Policy = {"periodic", "shutdown"}
    MinimumWrites = 2
    Journals = TRUE
    MaxRequests = 2
    Mixes <- MCMixes
CHECK_DEADLOCK FALSE
SPECIFICATION Spec
INVARIANTS
    TypeOK
    
    
    
    ReminderJustified
PROPERTIES
    ReminderInOrder
