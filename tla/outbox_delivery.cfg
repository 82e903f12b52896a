SPECIFICATION FairSpec
CONSTANTS
    Event = {e1, e2}
    Dispatcher = {d1, d2}
    NoClaim = NoClaim
    Limit = 2
    Lease = 2
    Timeout = 1
    MaxAttempts = 2
    Backoff <- Growing
    MaxCrashes = 1
    MaxStalls = 0
    MaxLag = 0
    e1 = e1
    e2 = e2
    d1 = d1
    d2 = d2
INVARIANTS
    GivesUpLate
    AttemptsBounded
    SentWasReceived
    Exclusive
PROPERTY EverySettled
