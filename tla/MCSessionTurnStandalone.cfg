CONSTANTS
    Tasks = {t1, t2}
    NoTask = NoTask
    Ops = {"send", "reply", "compact", "fork"}
    Standalone = TRUE
    MayLose = FALSE
    MaxMessages = 2
    MaxCalls = 1
    MaxFaults = 1
SYMMETRY TaskSymmetry
SPECIFICATION Spec
INVARIANT TurnIsContiguous
CHECK_DEADLOCK FALSE
