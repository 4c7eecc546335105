CONSTANTS
    Tasks = {t1, t2}
    NoTask = NoTask
    Ops = {"send", "compact"}
    Standalone = TRUE
    MayLose = FALSE
    MaxMessages = 1
    MaxCalls = 0
    MaxFaults = 0
SPECIFICATION LiveSpec
PROPERTY KeyRecovers
CHECK_DEADLOCK FALSE
