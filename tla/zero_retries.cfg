CONSTANTS
    j1 = j1  j2 = j2  j3 = j3  j4 = j4
    w1 = w1  w2 = w2  w3 = w3
    p1 = p1  p2 = p2
    None = None
    Jobs = {j2, j3}
    Workers = {w1}
    Procs = {p1}
    Home <- MCHomeOne
    Kind <- MCKind
    Retries <- MCRetries
    Deleters = {d1}
    MaxFaults = 0
    MaxStops = 0
SPECIFICATION FairSpec
PROPERTY
    AcceptedJobFinishes
