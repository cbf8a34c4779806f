CONSTANTS
    r1 = r1  r2 = r2  n1 = n1  d1 = d1
    Clients = {r1}
    Mode <- Modes
    LocalExt <- OoxmlExt
    Initial <- OneOoxml
    Attempts = 2
    Converts = TRUE
    MaxFaults = 1
    MaxEdits = 0
SPECIFICATION Spec
INVARIANTS
    FallbackLeavesAFile
