SPECIFICATION FairSpec
CONSTANTS
    MaxMixed = 3
    MaxFiles = 5
    Inputs <- Lists
    Limits = {0, 2}
    Workers = 3
INVARIANTS
    EveryFileIsInOnePlace
    WritesOnlyAWholeRun
    NoGoroutineIsLeft
PROPERTIES
    EveryRunReturns
