CONSTANTS
    Clients = {c1, c2}
    NoClient = NoClient
    TTL = 3
    RenewInterval = 1
    AcquireTimeout = 1
    MaxDelay = 2
    Faulty = TRUE
SPECIFICATION LiveSpec
INVARIANT TypeOK
INVARIANT SupersededNeverHolds
PROPERTY ImplementsLock
PROPERTY AbandonedKeyRecovered
PROPERTY ReleaseEnds
