SPECIFICATION OrderlySpec
CONSTANTS
    p1 = p1
    p2 = p2
    d1 = d1
    d2 = d2
    dir = dir
    Procs = {p1, p2}
    MaxUsers = 2
    Files = {d1, d2, dir}
    Dynamic = {d1, d2}
    NumFiles = 2
    MaxCache = 1
    MaxTries = 2
    MaxFVars = 2
    MaxUpdates = 1000
INVARIANTS
    RefCounts
    OpenCounts
    OneEntry
PROPERTIES
    ImplementsFileSharing
SYMMETRY Alike
VIEW Live
CHECK_DEADLOCK FALSE
