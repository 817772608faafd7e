SPECIFICATION Spec
CONSTANTS
    N = 6
    Users = {1, 2}
    Keys <- TwoChains
    GLockHash <- XorHash
    MaxCrashes = 1
INVARIANTS
    TypeOK
    ChainCounts
    Exclusion
    NoLeak
    NeverFull
    NoGridlock
PROPERTY ImplementsRW
VIEW LiveCells
