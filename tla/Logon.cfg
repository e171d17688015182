SPECIFICATION FairSpec
CONSTANTS
    Attempts = {a1, a2}
    BACKGROUND = BACKGROUND
    WRONG = WRONG
    SHORT = SHORT
    EMPTY = EMPTY
    ERROR = ERROR
    NONE = NONE
    MaxStep = 1
    MaxClientCrashes = 1
CHECK_DEADLOCK TRUE
INVARIANTS
    AcceptedIsFresh
    CurrentCodeIsRight
PROPERTY
    EveryAttemptEnds
