CONSTANTS
    Goroutines <- TwoSearchers
    Dirs <- SomeDirs
    Bases <- SomeBases
    None = None
    Requests <- SomeRequests
    LibraryPath <- EnvPath
    defaultSearchPaths <- Standard
    CacheFiles <- SomeCaches
    Installable <- SomeFiles
    Changing <- SomeChanging
SPECIFICATION FairSpec
INVARIANTS
    TypeOK
    ResultWasThere
    FirstPlaceWins
    FailureJustified
    CacheFaithful
PROPERTIES
    SearchReturns
    CacheKept
