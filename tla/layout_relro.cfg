CONSTANTS
    PageSize = 4
    WordSize = 2
    NumPages = 6
    Files <- UnalignedRelro
    MapFails = FALSE
    Others = {1}
    MaxOthers = 1
SPECIFICATION Spec
INVARIANTS RelroEnforced
CHECK_DEADLOCK FALSE
