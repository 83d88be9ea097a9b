CONSTANTS
    w1 = w1  w2 = w2  h1 = h1  h2 = h2
    None = None
    Workers = {w1, w2}
    Hosts = {h1, h2}
    Requests <- MCRequests
    Burst = 2
    MaxBrowsers = 1
    RedirectLimit = 2
SPECIFICATION FairSpec
INVARIANTS
    IInv
    NoSlotLeaked
    ReturnTruthful
    AdmissionsBounded
PROPERTY
    EveryScrapeReturns
