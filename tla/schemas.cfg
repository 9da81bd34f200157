SPECIFICATION Spec
CONSTANTS
    MaxDefFiles = 4
    Options <- MCOptions
    Names <- MCNames
    Worlds <- MCWorlds
    Locales = {"en", "xx"}
    Supported = {"en"}
    Fallback = "en"
    MaxEntries = 2
    LoadPacks <- LoadBuiltInPacks
    RootMissing <- MissingRoot
    BuildCatalog <- MergedCatalog
INVARIANTS
    DiscoveryOrderImmaterial
    OverridesMerge
    SidecarKeepsAuthor
    ViewsFold
    LookupsAgree
    BadFileCostsItself
    HitIsFresh
CHECK_DEADLOCK FALSE
