SPECIFICATION FairSpec
CONSTANTS
    NULL = NULL
    Callers = {hello, log}
    MaxCalls = 3
CHECK_DEADLOCK FALSE
PROPERTY
    RequestsReachServer
