SPECIFICATION Spec
CONSTANTS
    Actors <- MCActors
    Jobs <- Cleanup
    Portals <- MCPortals
    MaxFaults = 0
    MailPage = 2
INVARIANT CurrentPDFSurvives
