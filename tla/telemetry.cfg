\* A reader, a reviewer and the tools of sessions on one database with a past.
CONSTANTS
    c1 = c1
    c2 = c2
    c3 = c3
    valid_reject = valid_reject
    false_reject = false_reject
    Calls = {c1, c2, c3}
    Operations <- MCOperations
    Labels = {valid_reject, false_reject}
    WindowDays = 2
    SampleLimit = 1
    MaxPast = 2
    PastTypes = {"skipped"}
    MaxDays = 3
    MaxFailures = 1
    None = None
SYMMETRY MCSymmetry
CHECK_DEADLOCK FALSE
SPECIFICATION Spec
INVARIANTS
    TypeOK
    HintEarned
PROPERTIES
    ReportBracketed
