SPECIFICATION SilentServerSpec
CONSTANTS
    Attempts = {a1}
    BACKGROUND = BACKGROUND
    WRONG = WRONG
    SHORT = SHORT
    EMPTY = EMPTY
    ERROR = ERROR
    NONE = NONE
    MaxStep = 0
    MaxClientCrashes = 0
CHECK_DEADLOCK TRUE
PROPERTY
    PipeAnswersInTime
