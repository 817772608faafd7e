SPECIFICATION MCSpec
CONSTANTS
    r1 = r1
    r2 = r2
    p1 = p1
    p2 = p2
    s1 = s1
    Keys = {1, 2, 3}
    Ids = {r1, r2}
    IdLen <- MCIdLen
    Capacity = 3
    BigSize = 3
    MaxChild = 6
    Procs = {p1, p2}
    Scanners = {s1}
    MustLock = TRUE
    MaxValues = 2
    KeyHash <- MCKeyHash
    NoProc = NoProc
    NoId = NoId
INVARIANTS
    TreeSound
    NodesAccounted
PROPERTIES
    TreeKeepsPromises
    ScanInOrder
    ImplementsKeyIndex
VIEW Renumbered
