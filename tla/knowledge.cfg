\* An index of two members, rebuilt, searched and promoted from while they write.
CONSTANTS
    c1 = c1
    c2 = c2
    ann = ann
    bob = bob
    strong = strong
    weak = weak
    Calls = {c1, c2}
    Operations <- MCOperations
    Users = {ann, bob}
    Owner <- MCOwner
    Tables <- MCTables
    MaxRows = 2
    MaxWrites = 3
    MaxFailures = 1
    IndexedFor = {ann}
    Missing = Missing
    Contents = {strong, weak}
    ContentOf <- MCContentOf
    BaseScore <- MCBaseScore
    MinimumScore = 65
    MaxAccepted = 1
    PromotedBefore = {}
CHECK_DEADLOCK FALSE
SPECIFICATION Spec
INVARIANTS
    TypeOK
    IndexWhole
    PromotionRecorded
PROPERTIES
    EveryCallEnds
