\* Two distinct candidates and one named twice, two errors of the storage,
\* on_error continue and stop, a cancel and a pause at every moment.
SPECIFICATION FairSpec
CONSTANTS
    c1 = c1
    c2 = c2
    Candidates = {c1, c2}
    Repeats = 1
    Configured = 0
    MaxFaults = 2
INVARIANTS
    BayesianVerdictHasCause
    TrialLogMatchesRows
PROPERTIES
    AskingEnds
CHECK_DEADLOCK FALSE
