CONSTANTS
    w1 = w1  w2 = w2  h1 = h1  h2 = h2
    None = None
    Workers = {w1}
    Hosts = {h1}
    Requests <- MCPlain
    Burst = 1
    MaxBrowsers = 1
    RedirectLimit = 5
SPECIFICATION Spec
INVARIANT
    FollowsFiveRedirects
