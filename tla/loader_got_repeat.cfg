SPECIFICATION Spec
CONSTANTS
    Regions = {r1, r2, r3, r4}
    Objects <- OneObject
    Threads = {t1}
    Tids = {i1}
    None = None
    MaxModuleID = 4
    MapFails = FALSE
    UnmapFails = FALSE
    CleansUp = FALSE
    Syms <- XY
    File <- RepeatFile
    tlsldMarker = tlsldMarker
    PagePairs = 1
    MayFail = {}
SYMMETRY SymmetricRegions
CHECK_DEADLOCK FALSE
INVARIANTS SameAddressAgain
