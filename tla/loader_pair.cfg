SPECIFICATION Spec
CONSTANTS
    Regions = {r1, r2, r3, r4, r5}
    Objects <- TwoObjects
    Threads = {t1, t2, t3}
    Tids = {i1, i2}
    None = None
    MaxModuleID = 4
    MapFails = TRUE
    UnmapFails = FALSE
    CleansUp = TRUE
    Syms <- XY
    File <- PairFile
    tlsldMarker = tlsldMarker
    PagePairs = 1
    MayFail = {}
SYMMETRY SymmetricRegions
CHECK_DEADLOCK FALSE
INVARIANTS BlocksApart OwnMappings ImagesReleased TemplatesCurrent
PROPERTIES AddressesStay
