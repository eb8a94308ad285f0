CONSTANTS
    Goroutines <- OneGoroutine
    Paths <- PluginPaths
    Names <- PluginNames
    Syms <- PluginSyms
    Image <- PluginImage
    Find <- PluginFind
    Calls <- PluginCalls
    Handles = {1, 2, 3, 4}
    None = None
    MayFail = {}
    OverClose = FALSE
    MaxOpens = 2
SPECIFICATION Spec
INVARIANTS
    BindingsLive
