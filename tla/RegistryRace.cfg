SPECIFICATION Spec
CONSTANTS
    ThreeDigitMax = 9
    NULL = NULL
    Monitor = monitor
    Conns = {c1, c2}
    Devices = {d1, d2}
    MaxRegistrations = 3
    MaxFaults = 0
    MaxRestarts = 0
SYMMETRY Symmetry
CHECK_DEADLOCK TRUE
INVARIANT
    AgentIdsNotShared
