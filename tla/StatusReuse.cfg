SPECIFICATION Spec
CONSTANTS
    ThreeDigitMax = 999
    NULL = NULL
    AgentIDs = {1}
    Users = {alice}
    Admins = {admin}
    Window = 1
    MaxRegistrations = 2
    MaxRestarts = 0
CHECK_DEADLOCK TRUE
INVARIANT
    OnlineClientGreeted
