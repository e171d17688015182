SPECIFICATION UsersSpec
CONSTANTS
    Usernames = {admin, alice}
    Admin = admin
    Passwords = {p1, p2}
    DefaultPassword = p1
    Infos = {i1, i2}
    DefaultInfo = i1
    Requests = {r1, r2}
    NONE = NONE
    MaxCreated = 2
    MaxStarts = 1
SYMMETRY Symmetry
CHECK_DEADLOCK TRUE
INVARIANT
    PasswordChangeSticks
