\* Two callers of every kind, two requests and six tokens in a window.
SPECIFICATION FairSpec
CONSTANTS
    a = a
    b = b
    Callers = {a, b}
    Workloads <- MCWorkloads
    Rpm = 2
    Tpm = 6
    Window = 1
    MaxRetries = 3
    SieRetries = 3
    SieBatch = 2
    SieSlots = 1
    ContextWindow = 3
    SegmentBudget = 2
    RequestCap = 3
    MaxInputs = 1
    TorchThreads = 4
    ThreadBudget = 2
INVARIANTS
    TokensWithinLimit
    RequestsWithinLimit
    EmbeddedInOrder
    CancelStopsCalls
    ThreadsRestored
PROPERTIES
    CallersFinish
CHECK_DEADLOCK FALSE
