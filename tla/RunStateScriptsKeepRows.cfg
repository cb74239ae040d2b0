\* Two experiments, which nothing orders; the servers write three rows and three
\* scripts are started; deadlock is not checked, for the bounds end the system.
SPECIFICATION Spec
CONSTANTS
    Sources = {"mongo", "postgres"}
    Experiments = {e1, e2}
    e1 = e1
    e2 = e2
    MaxHost = 1
    MaxScripts = 3
    MaxWrites = 3
SYMMETRY Symmetry
INVARIANTS
    MergedIsWhole
    WalFollowsItsDatabase
PROPERTIES
    DroppedIsCopied
CHECK_DEADLOCK FALSE
