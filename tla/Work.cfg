SPECIFICATION Spec
CONSTANTS
    Actors <- MCActors
    Jobs <- MCJobs
    Portals <- MCPortals
    MaxFaults = 2
    MailPage = 2
INVARIANTS BoardIsThere ReappliedSafely EverybodyIsLinked NoStalePDFIsMailed EveryMailIsFetched CleanupKeepsACopy DownloadsAreWhole TasksHaveTheirFiles
