\* Two requests at a time, two sweeps, one error of the run state, no crash.
SPECIFICATION Spec
CONSTANTS
    c1 = c1
    c2 = c2
    k1 = k1
    k2 = k2
    Combos = {c1, c2}
    Clients = {k1, k2}
    Operations = {"cancel", "pause", "resume", "delete", "detail", "list"}
    Creating = FALSE
    MaxSweeps = 2
    MaxRequests = 3
    MaxCrashes = 0
    MaxFaults = 1
SYMMETRY Interchangeable
INVARIANTS
    TypeOK
    DeleteLeavesNoRows
CHECK_DEADLOCK FALSE
