CONSTANTS
    Goroutines <- TwoGoroutines
    Paths <- RingPaths
    Names <- RingNames
    Syms <- RingSyms
    Image <- RingImage
    Find <- RingFind
    Calls <- RingCalls
    Handles = {1, 2, 3, 4}
    None = None
    MayFail = {}
    OverClose = FALSE
    MaxOpens = 2
SPECIFICATION FairSpec
PROPERTIES
    OpenReturns
CHECK_DEADLOCK FALSE
