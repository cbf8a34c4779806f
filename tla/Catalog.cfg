CONSTANTS
  Disk <- MCDisk
  Noisy <- MCNoisy
  LocalPart <- MCLocalPart
  InitialContacts <- MCContacts
  MaxRuns = 4
  MaxFaults = 1
  MaxCopies = 2
  MaxStops = 1
  MaxRemovals = 1
SPECIFICATION Spec
INVARIANTS TwinsComeOfLostIds EmployersAreLinked
PROPERTY IdsAreKept
