SPECIFICATION Spec
CONSTANTS
    ThreeDigitMax = 9
    NULL = NULL
    Monitor = monitor
    Conns = {c1, c2}
    Devices = {d1, d2}
    MaxRegistrations = 3
    MaxFaults = 1
    MaxRestarts = 1
SYMMETRY Symmetry
CONSTRAINT OneDisturbance
CHECK_DEADLOCK TRUE
INVARIANT
    AgentIdsDense
PROPERTY
    RowsAreStable
