SPECIFICATION Spec
CONSTANTS
    Actors <- MCActors
    Jobs <- MCJobs
    Portals <- MCPortals
    MaxFaults = 1
    ContactsPage = 3
INVARIANTS NobodyIsCutOff InfoSurvives ContactsAreClean EmployerKept
PROPERTY EveryCommandEnds
