\* Any one fault, one crash, and a cancel, a pause and a resume at any moment.
SPECIFICATION FairSpec
CONSTANTS
    Faults = {"submit", "poll", "download", "cache", "expiry", "storage", "cancel"}
    Requests = {"cancel", "pause", "resume"}
    MaxFaults = 1
    MaxCrashes = 1
INVARIANTS
    SweptAtMostOnce
    SweepHasVectors
    WaitingIsUnswept
PROPERTIES
    CancelIsFinal
    WaitingIsSettled
CHECK_DEADLOCK FALSE
