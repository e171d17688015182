SPECIFICATION Spec
CONSTANTS
    EOL = EOL
    NUL = NUL
    NULL = NULL
    MaxEvents = 2
    MaxTruncations = 1
    MaxCrashes = 0
CHECK_DEADLOCK TRUE
INVARIANT
    OnlyLoggedText
