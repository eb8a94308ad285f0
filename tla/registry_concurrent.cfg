CONSTANTS
    Goroutines <- ThreeGoroutines
    Paths <- DiamondPaths
    Names <- DiamondNames
    Syms <- DiamondSyms
    Image <- DiamondImage
    Find <- DiamondFind
    Calls <- DiamondCalls
    Handles = {1, 2, 3, 4, 5, 6, 7, 8, 9, 10}
    None = None
    MayFail = {}
    OverClose = FALSE
    MaxOpens = 6
SPECIFICATION Spec
INVARIANTS
    TypeOK
    CacheCoherent
    NoLostWakeup
    GlobalsCurrent
    DependenciesLoaded
PROPERTIES
    ContractKept
