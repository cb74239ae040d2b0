\* Two combinations on two workers, every request, storage faults.
SPECIFICATION Spec
CONSTANTS
    c1 = c1
    c2 = c2
    Combos = {c1, c2}
    MaxWorkers = 2
    NumQueries = 1
    OnError = "continue"
    Signature <- Distinct
    Resuming = FALSE
    Requests = {"cancel", "pause"}
    StorageFaults = TRUE
SYMMETRY AnyCombo
INVARIANTS
    TypeOK
    NoRunLeftBehind
    OnePhaseAfterCancel
    CompleteRunsHaveData
    VerdictHasCause
PROPERTIES
    KeepsPromise
CHECK_DEADLOCK FALSE
