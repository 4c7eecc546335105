CONSTANTS
    Tasks = {t1, t2}
    NoTask = NoTask
    Ops = {"send", "reply", "compact", "fork"}
    Standalone = FALSE
    MayLose = FALSE
    MaxMessages = 1
    MaxCalls = 1
    MaxFaults = 1
SPECIFICATION LiveSpec
PROPERTY RequestEnds
PROPERTY KeyRecovers
CHECK_DEADLOCK FALSE
