CONSTANTS
    Turns = {t1, t2}
    Clients = {k1}
    NoTurn = NoTurn
    Watchers = {w1}
    HookIds = {"h"}
    HookSets <- MCHookSets
    MaxPeers = 1
    MaxFaults = 1
CONSTRAINT Apart
SYMMETRY TurnSymmetry
SPECIFICATION Spec
INVARIANT RunsDoNotInterleave
INVARIANT WatcherMissesNothing
INVARIANT CompletedMeansSeeded
INVARIANT SeededAgainOnlyAfterFault
INVARIANT EffectEndsForAReason
CHECK_DEADLOCK FALSE
