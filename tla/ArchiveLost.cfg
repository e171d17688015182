SPECIFICATION Spec
CONSTANTS
    Conns = {c1, c2}
    AgentIDs = {a1, a2}
    PageSize = 2
    EOL = EOL
    ERROR = ERROR
    NULL = NULL
    MaxEntries = 2
    MaxFaults = 0
    MaxRotations = 1
    MaxRestarts = 0
SYMMETRY Symmetry
CHECK_DEADLOCK FALSE
INVARIANT
    RotationKeepsEntries
