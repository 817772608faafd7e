SPECIFICATION Spec
CONSTANTS
    p1 = p1
    p2 = p2
    r1 = r1
    r2 = r2
    v1 = v1
    Procs = {p1, p2}
    Recs = {r1, r2}
    Missing = Missing
    Vals = {Missing, v1}
    None = None
    NoProc = NoProc
    MaxDepth = 2
    NestedCommit = FALSE
    InnerRelocks = FALSE
INVARIANTS
    PendingLocked
    NoOrphanLock
PROPERTIES
    ReadsRepeatable
    ImplementsTxnStore
