CONSTANTS
    Tasks = {t1, t2}
    NoTask = NoTask
    Ops = {"send", "reply", "compact", "fork"}
    Standalone = FALSE
    MayLose = FALSE
    MaxMessages = 2
    MaxCalls = 1
    MaxFaults = 1
SYMMETRY TaskSymmetry
SPECIFICATION Spec
INVARIANT TypeOK
INVARIANT GuardExclusive
INVARIANT TurnIsContiguous
INVARIANT OkMeansRecorded
INVARIANT StrandedOnlyByFault
INVARIANT ChildWithinParent
PROPERTY SeenRegressesOnlyByHook
CHECK_DEADLOCK FALSE
