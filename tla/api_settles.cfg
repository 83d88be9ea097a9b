CONSTANTS
    api = api  worker = worker  s1 = s1  q1 = q1
    None = None
    Unset = Unset
    Procs = {api, worker}
    Api = api
    ConnectDeadline = 1
    MaxFaults = 1
    DefaultTimeout = 10
    DefaultRetries = 3
    Submits = {s1}
    Queries = {q1}
    Bodies <- CrawlBody
    WriteTimeout = 2
    LlmTimeout = 2
    ShutdownLimit = 1
    FreshLimit = 0
    PageBound = 1
SPECIFICATION FairSpec
CHECK_DEADLOCK FALSE
PROPERTY
    Settles
