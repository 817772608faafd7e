SPECIFICATION Spec
CONSTANTS
    p1 = p1
    p2 = p2
    k1 = k1
    k2 = k2
    Procs = {p1, p2}
    Keys = {k1, k2}
    Hash <- MCHash
    Readers = {p1}
    Writers = {p1, p2}
    Selectors = {p1}
    GroupBytes = 1
    SplitLoad = 80
    MergeLoad = 50
    MinModulus = 1
    MaxModulus = 3
    NoProc = NoProc
INVARIANTS
    TypeOK
    Placed
    InhibitExact
    NoHoldAndWait
    SelectComplete
PROPERTIES
    ImplementsKeyStore
