SPECIFICATION FairSpec
CONSTANTS
    NULL = NULL
    Callers = {hello, log, otp}
    MaxCalls = 3
CHECK_DEADLOCK FALSE
INVARIANTS
    AnswerMatches
    ErrorIsFinal
    SilentWithoutCipher
PROPERTIES
    ImplementsSerialCalls
    EveryCallReturns
