CONSTANTS
    Goroutines <- ThreeGoroutines
    Paths <- BrokenPaths
    Names <- BrokenNames
    Syms <- BrokenSyms
    Image <- BrokenImage
    Find <- BrokenFind
    Calls <- BrokenCalls
    Handles = {1, 2, 3, 4, 5, 6, 7, 8}
    None = None
    MayFail = {"/a", "/b"}
    OverClose = TRUE
    MaxOpens = 5
SPECIFICATION FairSpec
INVARIANTS
    SlotOwnership
    RefsConserved
PROPERTIES
    UnloadedForGood
    OpenReturns
