\* Two scopes, two previews, the second of which may revise the first, two apply
\* calls that overlap, a clock that passes the expiry and the retention; any read
\* or purge may fail and the session may restart at any time.
CONSTANTS
    p1 = p1
    p2 = p2
    c1 = c1
    c2 = c2
    s1 = s1
    s2 = s2
    f1 = f1
    f2 = f2
    None = None
    PreviewIds = {p1, p2}
    Calls = {c1, c2}
    Scopes = {s1, s2}
    Fingerprints = {f1, f2}
    MaxPreviews <- MCBudget
    MaxApplies <- MCBudget
    MaxRevisions = 1
    Ttl = 1
    Retention = 2
    MaxTime = 2
SPECIFICATION Spec
SYMMETRY Symmetry
INVARIANTS
    TypeOK
    AppliedWasEligible
    RevisionLineage
    PreviewBudgetHonoured
    ApplyOverrunBounded
