CONSTANTS
    Clients = {c1, c2}
    NoClient = NoClient
    TTL = 4
    RenewInterval = 1
    AcquireTimeout = 1
    MaxDelay = 1
    Faulty = TRUE
SPECIFICATION Spec
INVARIANT MutualExclusion
