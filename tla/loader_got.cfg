SPECIFICATION Spec
CONSTANTS
    Regions = {r1, r2, r3, r4}
    Objects <- FourObjects
    Threads = {t1}
    Tids = {i1}
    None = None
    MaxModuleID = 3
    MapFails = TRUE
    UnmapFails = TRUE
    CleansUp = TRUE
    Syms <- XY
    File <- GotFile
    tlsldMarker = tlsldMarker
    PagePairs = 2
    MayFail = {}
SYMMETRY SymmetricRegions
CHECK_DEADLOCK FALSE
INVARIANTS TypeOK GotEntries PairsFilled PagesReleased
