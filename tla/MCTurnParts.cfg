CONSTANTS
    Turns = {t1, t2}
    NoTurn = NoTurn
    Clients = {c1}
    ReplyCapacity = 1
    MaxDeltas = 2
    MaxFaults = 1
    MaxRounds = 3
    MaxCalls = 2
    MaxParts = 2
    MaxReloads = 1
    MaxStoreFaults = 1
    ConfiguredBytes = 3
    ConfiguredChars = 0
    DefaultBytes = 4
    DefaultChars = 2
    MaxOutput = 4
SPECIFICATION MCSpec
INVARIANT TypeOK
INVARIANT ReaderSeesRun
INVARIANT AnswerIsOutcome
INVARIANT EveryCallAnswered
INVARIANT CompletedIsFound
INVARIANT TextOnce
INVARIANT BashTellsTruth
PROPERTY StreamsEnd
PROPERTY BashReturns
CHECK_DEADLOCK FALSE
