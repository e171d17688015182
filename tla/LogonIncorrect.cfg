SPECIFICATION LogonSpec
CONSTANTS
    Attempts = {a1}
    BACKGROUND = BACKGROUND
    WRONG = WRONG
    SHORT = SHORT
    EMPTY = EMPTY
    ERROR = ERROR
    NONE = NONE
    MaxStep = 1
    MaxClientCrashes = 0
SYMMETRY Symmetry
CHECK_DEADLOCK TRUE
INVARIANT
    IncorrectIsIncorrect
