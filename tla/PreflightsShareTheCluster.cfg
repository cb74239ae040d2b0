\* Two experiments on any one backend, each with one run of one chunk; the
\* first may be resumed. A cluster of two search indexes,
\* which others use too.
SPECIFICATION Spec
CONSTANTS
    Experiments = {"e1", "e2"}
    Resumable = {"e1"}
    Backends = {"mongodb", "postgres", "redis", "elasticsearch"}
    Configs <- MCPreflights
    Unknown = {"other"}
    Limit = 2
    Workers = {1}
    DenseOrder <- MCOneChunk
    SparseOrder <- MCOneChunk
    RerankOrder <- MCOneChunk
    TopInitial = 1
    TopFinal = 1
INVARIANTS
    RunningHasItsIndexes
PROPERTIES
    PreflightEnds
CHECK_DEADLOCK FALSE
