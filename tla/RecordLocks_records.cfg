SPECIFICATION Spec
CONSTANTS
    N = 2
    Users = {1, 2}
    Files = {1}
    Keys <- OneFileKeys
    Modes = {TRUE, FALSE}
    RLockHash <- WrapHash
    FVars = {1}
    FVFile <- OneVar
    NonTxn = {}
    FileLockVars = {}
    Deadlock = TRUE
    Bound <- AdminBreak
    MaxLLT = 2
    MaxWaiters = 2
INVARIANTS
    TableCounts
    WaitersCounted
    LocalExact
    NoGridlock
PROPERTIES
    ImplementsLM
VIEW LiveState
