SPECIFICATION Spec
CONSTANTS
    N = 2
    Users = {1, 2}
    Files = {1, 2}
    Keys <- TwoFileKeys
    Modes = {TRUE, FALSE}
    RLockHash <- WrapHash
    FVars = {1, 2}
    FVFile <- VarPerFile
    NonTxn = {2}
    FileLockVars = {1}
    Deadlock = TRUE
    Bound <- EachOnce
    MaxLLT = 2
    MaxWaiters = 2
PROPERTIES
    TxnLocksReleased
    ImplementsLM
VIEW LiveState
CHECK_DEADLOCK FALSE
ACTION_CONSTRAINT OneAtATime
