\* Two threads, two runs, six calls.
SPECIFICATION Spec
CONSTANTS
    a = a
    b = b
    Clients = {a, b}
    Runs = {1, 2}
    Id = 0
    MaxCalls = 6
INVARIANTS
    StoresAgree
    ColumnsAreNotLost
    RowsHaveTheirExperiment
CHECK_DEADLOCK FALSE
