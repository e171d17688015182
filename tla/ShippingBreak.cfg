SPECIFICATION Spec
CONSTANTS
    EOL = EOL
    NUL = NUL
    NULL = NULL
    MaxEvents = 1
    MaxTruncations = 0
    MaxCrashes = 0
CHECK_DEADLOCK TRUE
INVARIANT
    NewLinesSent
