SPECIFICATION FairSpec
CONSTANTS
    c1 = c1
    c2 = c2
    Calls = {c1, c2}
    Attempts = 2
    OuterAttempts = 2
    Backoff <- BackoffSchedule
    RetryAfters = {0, 2}
    Interval = 2
    Burst = 1
INVARIANTS
    NoSlipUnlessExtended
    GateCoversEveryWindow
    RetryAfterHonoured
    RequestBudget
PROPERTIES
    PacedAsALeakyBucket
    EveryCallReturns
