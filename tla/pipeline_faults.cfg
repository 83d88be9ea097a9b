CONSTANTS
    j1 = j1  j2 = j2  j3 = j3  j4 = j4
    w1 = w1  w2 = w2  w3 = w3
    p1 = p1  p2 = p2
    None = None
    Jobs = {j3, j4}
    Workers = {w1, w3}
    Procs = {p1}
    Home <- MCHomeOne
    Kind <- MCKind
    Retries <- MCRetries
    Deleters = {}
    MaxFaults = 2
    MaxStops = 1
SPECIFICATION FairSpec
PROPERTIES
    AcceptedJobSettles
    StopReturns
