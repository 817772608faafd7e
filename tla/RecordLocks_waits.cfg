SPECIFICATION RingSpec
CONSTANTS
    N = 4
    Users = {1, 2, 3}
    Files = {1}
    Keys <- ThreeKeys
    Modes = {TRUE}
    RLockHash <- WrapHash
    FVars = {1}
    FVFile <- OneVar
    NonTxn = {}
    FileLockVars = {}
    Deadlock = TRUE
    Bound <- Never
    MaxLLT = 2
    MaxWaiters = 2
INVARIANTS
    WaitsEnd
PROPERTIES
    SomebodyRuns
