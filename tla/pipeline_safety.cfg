CONSTANTS
    j1 = j1  j2 = j2  j3 = j3  j4 = j4
    w1 = w1  w2 = w2  w3 = w3
    p1 = p1  p2 = p2
    None = None
    Jobs = {j1, j2}
    Workers = {w1, w2}
    Procs = {p1, p2}
    Home <- MCHomeSplit
    Kind <- MCKind
    Retries <- MCRetries
    Deleters = {d1}
    MaxFaults = 1
    MaxStops = 1
SPECIFICATION Spec
INVARIANTS
    IInv
    OneOwner
    OwnedIsProcessing
    AtMostOneExecution
    CancelConfirmed
    ConflictTruthful
    PollConsistent
PROPERTIES
    Lifecycle
    TerminalFrozen
    StrandedOnlyByFailure
