SPECIFICATION UsersSpec
CONSTANTS
    Usernames = {admin, alice}
    Admin = admin
    Passwords = {p1, p2}
    DefaultPassword = p1
    Infos = {i1, i2}
    DefaultInfo = i1
    Requests = {r1}
    NONE = NONE
    MaxCreated = 2
    MaxStarts = 2
SYMMETRY Symmetry
VIEW WithoutCurrent
CHECK_DEADLOCK TRUE
INVARIANTS
    ValuesWereAsked
PROPERTY
    ImplementsAccounts
