\* A search of one session while another rebuilds the index.
CONSTANTS
    c1 = c1
    c2 = c2
    ann = ann
    bob = bob
    strong = strong
    weak = weak
    Calls = {c1, c2}
    Operations <- MCSearches
    Users = {ann, bob}
    Owner <- MCOwner
    Tables <- MCThreeTables
    MaxRows = 1
    MaxWrites = 3
    MaxFailures = 0
    IndexedFor = {ann}
    Missing = Missing
    Contents = {strong, weak}
    ContentOf <- MCContentOf
    BaseScore <- MCBaseScore
    MinimumScore = 65
    MaxAccepted = 1
    PromotedBefore = {}
CHECK_DEADLOCK FALSE
SPECIFICATION Spec
INVARIANT
    NoSilentGap
