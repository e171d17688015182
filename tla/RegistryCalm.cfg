SPECIFICATION CalmSpec
CONSTANTS
    ThreeDigitMax = 2
    NULL = NULL
    Monitor = monitor
    Conns = {c1, c2}
    Devices = {d1, d2}
    MaxRegistrations = 4
    MaxFaults = 1
    MaxRestarts = 1
SYMMETRY Symmetry
CHECK_DEADLOCK FALSE
INVARIANTS
    RegistrationKept
    OtpOfOwnClient
PROPERTY
    ImplementsDirectory
