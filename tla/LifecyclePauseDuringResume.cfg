\* A pause that finds no control because a resume has not scheduled its sweep yet.
SPECIFICATION Spec
CONSTANTS
    c1 = c1
    c2 = c2
    k1 = k1
    k2 = k2
    Combos = {c1, c2}
    Clients = {k1, k2}
    Operations = {"pause", "resume"}
    Creating = FALSE
    MaxSweeps = 2
    MaxRequests = 3
    MaxCrashes = 0
    MaxFaults = 0
PROPERTIES
    PausedMeansQuiet
CHECK_DEADLOCK FALSE
