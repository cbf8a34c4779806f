CONSTANTS
  Readers <- MCReaders
  Searcher = "search"
  Folders <- MCFolders
  Attempts = 2
  Pieces = 2
  MaxShown = 3
SPECIFICATION Spec
INVARIANTS
    OneCopyInTheWriter GivesUpOnlyEverywhere PathsAgree
PROPERTY EveryReadReturns
\* A panic ends the program.
CHECK_DEADLOCK FALSE
