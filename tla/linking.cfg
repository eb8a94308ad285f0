CONSTANTS
    Names <- LinkNames
    Versions <- LinkVersions
    None = None
    Hash <- LinkHash
    maxFallbackSymbols = 3
    Half = 32
    Bases = {4, 12, 40}
    Files <- LinkFiles
    Providers <- LinkProviders
SPECIFICATION Spec
INVARIANTS
    TypeOK
    DefaultVersion
    VersionNamed
    HashesAgree
    ReferencesReach
    UndefinedReported
    TLSOffsetsAgree
CHECK_DEADLOCK FALSE
