\* A dense and a reranking combination with their real signatures, resumed on
\* one worker, on_error = stop.
SPECIFICATION FairSpec
CONSTANTS
    Combos <- SweptCombos
    Signature <- SweptSignature
    MaxWorkers = 1
    NumQueries = 1
    OnError = "stop"
    Resuming = TRUE
    Requests = {"cancel", "pause"}
    StorageFaults = TRUE
INVARIANTS
    CompleteMeansAll
    NoCompletedRunRepeated
    ResumeRunsTheRest
PROPERTIES
    NothingSubmittedAfterStop
    SweepEnds
CHECK_DEADLOCK FALSE
