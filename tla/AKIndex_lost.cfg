SPECIFICATION IndexSpec
CONSTANTS
    r1 = r1
    r2 = r2
    p1 = p1
    p2 = p2
    s1 = s1
    Keys = {1, 2, 3, 4, 5, 6, 7}
    Ids = {r2}
    IdLen <- MCIdLen
    Capacity = 3
    BigSize = 3
    MaxChild = 6
    Procs = {p1}
    Scanners = {}
    MustLock = TRUE
    MaxValues = 7
    KeyHash <- MCKeyHash
    NoProc = NoProc
    NoId = NoId
INVARIANT ParentsUpdated
VIEW Renumbered
