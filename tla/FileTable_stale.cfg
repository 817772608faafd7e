SPECIFICATION LivingSpec
CONSTANTS
    p1 = p1
    p2 = p2
    d1 = d1
    d2 = d2
    dir = dir
    Procs = {p1, p2}
    MaxUsers = 2
    Files = {d1}
    Dynamic = {d1}
    NumFiles = 1
    MaxCache = 1
    MaxTries = 2
    MaxFVars = 1
    MaxUpdates = 1
INVARIANT
    ParamsCurrent
CHECK_DEADLOCK FALSE
