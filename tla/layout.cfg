CONSTANTS
    PageSize = 4
    WordSize = 2
    NumPages = 6
    Files <- LayoutFiles
    MapFails = TRUE
    Others = {1}
    MaxOthers = 3
SPECIFICATION Spec
INVARIANTS
    TypeOK
    ImageFaithful
    ProtectionFaithful
    NoFault
    OthersIntact
    ReservationReleased
    TemplateFaithful
CHECK_DEADLOCK FALSE
