SPECIFICATION FairSpec
CONSTANTS
    Agents = {a1, a2}
    ALL = ALL
    MaxPages = 2
    MaxCalls = 5
    MaxVersion = 1
    BROKEN = BROKEN
    REFUSED = REFUSED
    NULL = NULL
CONSTRAINTS Apart LastCallReloads
CHECK_DEADLOCK FALSE
INVARIANTS
    TypeOK
    LogShowsChosen
    OwnChangesShown
PROPERTY
    LoadingEnds
