\* Four chunks, two of which have a word of the query. One experiment, new or
\* resumed, two runs of which are under way at a time; a cluster of two search
\* indexes, which other projects do not use.
SPECIFICATION Spec
CONSTANTS
    Experiments = {"e1"}
    Resumable = {"e1"}
    Backends = {"mongodb", "postgres", "redis", "elasticsearch"}
    Configs <- MCQueries
    Unknown = {}
    Limit = 2
    Workers = {1, 2}
    DenseOrder <- MCDenseOrder
    SparseOrder <- MCSparseOrder
    RerankOrder <- MCRerankOrder
    TopInitial = 3
    TopFinal = 2
PROPERTIES
    SearchFindsTheRun
CHECK_DEADLOCK FALSE
