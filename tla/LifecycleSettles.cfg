\* Liveness: a RUNNING experiment is settled, from its creation on, with two
\* crashes, an error of the run state, and a pause and a resume among the requests.
SPECIFICATION FairSpec
CONSTANTS
    c1 = c1
    c2 = c2
    k1 = k1
    Combos = {c1, c2}
    Clients = {k1}
    Operations = {"cancel", "pause", "resume", "delete", "detail"}
    Creating = TRUE
    MaxSweeps = 2
    MaxRequests = 2
    MaxCrashes = 2
    MaxFaults = 1
INVARIANTS
    ResumeRepeatsNothing
PROPERTIES
    BootSettlesRows
    RunningIsSettled
CHECK_DEADLOCK FALSE
