SPECIFICATION FairSpec
CONSTANTS
    ThreeDigitMax = 999
    NULL = NULL
    AgentIDs = {1}
    Users = {alice}
    Admins = {admin}
    Window = 1
    MaxRegistrations = 3
    MaxRestarts = 1
CHECK_DEADLOCK TRUE
INVARIANTS
    StatusHasEvidence
    LastSeenNotAhead
PROPERTIES
    ImplementsDevices
    SilentGoesOffline
    GreeterGoesOnline
