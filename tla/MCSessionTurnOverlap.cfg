CONSTANTS
    Tasks = {t1, t2}
    NoTask = NoTask
    Ops = {"send", "reply", "compact", "fork"}
    Standalone = FALSE
    MayLose = TRUE
    MaxMessages = 1
    MaxCalls = 0
    MaxFaults = 1
SYMMETRY TaskSymmetry
SPECIFICATION Spec
INVARIANT ContinuationMatchesSeen
PROPERTY ImplementsLock
PROPERTY OvertakenNeverOk
CHECK_DEADLOCK FALSE
