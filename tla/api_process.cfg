CONSTANTS
    api = api  worker = worker  s1 = s1  q1 = q1
    None = None
    Unset = Unset
    Procs = {api, worker}
    Api = api
    ConnectDeadline = 1
    MaxFaults = 1
    DefaultTimeout = 10
    DefaultRetries = 3
    Submits = {s1}
    Queries = {q1}
    Bodies <- MCBodies
    WriteTimeout = 2
    LlmTimeout = 2
    ShutdownLimit = 2
    FreshLimit = 1
    PageBound = 2
SPECIFICATION Spec
CHECK_DEADLOCK FALSE
INVARIANTS
    OptionsArrive
    ExitsExplained
    AnswersTruthful
    ExtractionTruthful
