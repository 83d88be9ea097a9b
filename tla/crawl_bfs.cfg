CONSTANTS
    s = s  a = a  b = b  c = c  other = other  aFrag = aFrag  broken = broken
    Unparsable = Unparsable
    Links <- MCLinks
    URLs <- MCURLs
    OnSite <- MCOnSite
    Norm <- MCNorm
    Seed = s
    PageLists <- MCPageLists
    Extract = {"markdown", "links"}
    OptPages = 4
    OptDepth = 2
    MayRevoke = TRUE
SPECIFICATION FairSpec
CHECK_DEADLOCK FALSE
INVARIANTS
    IInv
    Bounded
    EachPageOnce
    DepthIsDistance
    LevelByLevel
    NothingMissed
    OutcomeAgreed
PROPERTIES
    CancelStops
    Terminates
