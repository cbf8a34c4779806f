SPECIFICATION Spec
CONSTANTS
    Actors <- MCActors
    Jobs <- Deletes
    Portals <- MCPortals
    MaxFaults = 0
    MailPage = 2
INVARIANT DeletesOnlyFiles
