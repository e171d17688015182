SPECIFICATION Spec
CONSTANTS
    Usernames = {admin, alice}
    Admin = admin
    Passwords = {p1}
    DefaultPassword = p1
    AgentIDs = {a1, a2}
    Sessions = {s1}
    Lifetime = 1
    Period = 2
    MaxWait = 1
    MaxTime = 3
    MaxCreated = 2
    MaxEnrolled = 2
    NULL = NULL
CONSTRAINT OneAccount
ACTION_CONSTRAINT TakenAtOnce
SYMMETRY Symmetry
CHECK_DEADLOCK FALSE
INVARIANTS
    OldClaimsLapse
    ViewWasAssigned
    ViewIsComplete
    CodeIsUsable
