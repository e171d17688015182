SPECIFICATION Spec
CONSTANTS
    Conns = {c1, c2}
    AgentIDs = {a1, a2}
    PageSize = 1
    EOL = EOL
    ERROR = ERROR
    NULL = NULL
    MaxEntries = 3
    MaxFaults = 1
    MaxRotations = 2
    MaxRestarts = 1
SYMMETRY Symmetry
CONSTRAINTS ReadsOrRotates FewDisruptions
CHECK_DEADLOCK FALSE
INVARIANTS
    TypeOK
    AnsweredIsReadable
    PagingSkipsNothing
    PagesMakeTheWhole
    RotationAccounts
