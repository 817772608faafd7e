SPECIFICATION MCSpec
CONSTANTS
    p1 = p1
    p2 = p2
    p3 = p3
    l1 = l1
    Procs = {p1, p2, p3}
    MaxUsers = 2
    HiUser = 4
    FixBase = 2
    FixRange = 2
    Locks = {l1}
INVARIANTS
    OneUserEach
    NumbersSuffice
    ParentsKnown
    TaskLocksKept
SYMMETRY AnyProc
CHECK_DEADLOCK FALSE
