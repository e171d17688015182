SPECIFICATION FairSpec
CONSTANTS
    EOL = EOL
    NUL = NUL
    NULL = NULL
    MaxEvents = 3
    MaxTruncations = 1
    MaxCrashes = 1
CHECK_DEADLOCK TRUE
INVARIANTS
    TypeOK
    PositionCovers
    OncePerRun
PROPERTY
    EveryEventArrives
