SPECIFICATION FairSpec
CONSTANTS
    r1 = r1  r2 = r2  n1 = n1  d1 = d1
    Clients = {r1, n1}
    Mode <- Modes
    LocalExt <- MixedExt
    Initial <- AnyFolder
    Attempts = 2
    Converts = TRUE
    MaxFaults = 4
    MaxEdits = 1
INVARIANTS
    BodiesMatchNames
    OkLeavesMyBody
    InPlaceHasNoWindow
PROPERTIES
    OtherKindsSurvive
    EveryOperationEnds
