CONSTANTS
    s = s  a = a  b = b  c = c  d = d  other = other  aFrag = aFrag  broken = broken
    Unparsable = Unparsable
    Links <- MCLinks
    URLs <- MCURLs
    OnSite <- MCOnSite
    Norm <- MCNorm
    Seed = s
    PageLists <- MCPageLists
    OptURLs = 4
    OptDepth = 2
    MayRevoke = TRUE
SPECIFICATION FairSpec
CHECK_DEADLOCK FALSE
INVARIANTS
    UrlsBoundedAndDistinct
    FetchedLevelByLevel
    MapComplete
    OutcomeAgreed
PROPERTIES
    CancelStops
    Terminates
