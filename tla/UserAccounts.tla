----------------------------- MODULE UserAccounts -----------------------------
(***************************************************************************)
(* The table users and the requests of the HTTP API that change it.  A     *)
(* request that changes a password or the personal data reads the row,     *)
(* changes its copy and writes the whole copy back; between the two        *)
(* statements other requests run.                                          *)
(*                                                                         *)
(* username is UNIQUE, so the table is a function from user names to rows. *)
(* The columns email and full_name, which every update must give, are one  *)
(* column info.  Tokens and the checks of the middleware are left out.     *)
(***************************************************************************)
EXTENDS Integers, FiniteSets

CONSTANTS Usernames,    \* user names in use
          Admin,        \* the name of the default administrator
          Passwords, DefaultPassword,  \* passwords, and the administrator's first
          Infos, DefaultInfo,          \* personal data, and the administrator's first
          Requests,     \* requests the API handles at one time
          NONE,         \* no row, an empty field
          MaxCreated,   \* bound on the rows created
          MaxStarts     \* bound on starts of the server

ASSUME AccountAssumption ==
    /\ Admin \in Usernames /\ DefaultPassword \in Passwords /\ DefaultInfo \in Infos
    /\ MaxCreated \in Nat /\ MaxStarts \in Nat
    /\ NONE \notin Usernames \cup Passwords \cup Infos \cup {"user", "admin"}

VARIABLES
    users,      \* the table
    request,    \* the requests between their read and their write
    created,    \* how many rows were created: the ids given out
    asked,      \* ghost: the values ever asked for, by user name and column
    current,    \* ghost: the password each account was last told it has
    starts      \* how often the server was started

usersVars == <<users, request, created, asked, current, starts>>

Columns == {"password", "info", "role"}
Roles   == {"user", "admin"}
Values  == Passwords \cup Infos \cup Roles
UserRow == [id : Nat, password : Passwords, info : Infos, role : Roles]

ASSUME RowAssumption == NONE \notin UserRow

NoRequest == [username |-> NONE]
Pending   == [username : Usernames, copy : UserRow, acks : Passwords \cup {NONE}]

UsersTypeOK ==
    /\ users \in [Usernames -> UserRow \cup {NONE}]
    /\ request \in [Requests -> Pending \cup {NoRequest}]
    /\ created \in 0..MaxCreated
    /\ asked \in [Usernames -> [Columns -> SUBSET Values]]
    /\ current \in [Usernames -> Passwords \cup {NONE}]
    /\ starts \in 0..MaxStarts

\* The values of fields join what was asked for user name u; a field that is
\* NONE was left empty.
Asks(u, fields) ==
    asked' = [asked EXCEPT ![u] =
        [c \in Columns |-> IF c \in DOMAIN fields THEN @[c] \cup ({fields[c]} \ {NONE})
                           ELSE @[c]]]

-----------------------------------------------------------------------------
(* Statements of the user repository. *)

\* Variant for a mutation run: the WHERE clause is forgotten.
UpdateEveryRow(u, fields) ==
    [v \in Usernames |->
        IF users[v] = NONE THEN NONE
        ELSE [c \in DOMAIN users[v] |->
                IF c \in DOMAIN fields /\ fields[c] # NONE THEN fields[c] ELSE users[v][c]]]

\* UserUpdate: UPDATE users SET <the fields that are not empty> WHERE username.
\* It succeeds also when there is no such row.
UserUpdate(u, fields) ==
    [users EXCEPT ![u] =
        IF @ = NONE THEN NONE
        ELSE [c \in DOMAIN @ |->
                IF c \in DOMAIN fields /\ fields[c] # NONE THEN fields[c] ELSE @[c]]]

NewRow(p, i, role) == [id |-> created + 1, password |-> p, info |-> i, role |-> role]

-----------------------------------------------------------------------------
(* The handlers. *)

\* UserService.UserCreate and UserUpdate refuse a row without personal data, the
\* first (with the handler) also one without a password.
Creatable(p, i) == p # NONE /\ i # NONE
Updatable(i) == i # NONE

\* CreateUserHandler: the INSERT fails when the name is taken.  The row that is
\* read again for the answer is not needed here.
CreateUser(u, p, i) ==
    /\ Creatable(p, i)
    /\ created < MaxCreated
    /\ users[u] = NONE
    /\ users' = [users EXCEPT ![u] = NewRow(p, i, "user")]
    /\ created' = created + 1
    /\ Asks(u, [password |-> p, info |-> i, role |-> "user"])
    /\ current' = [current EXCEPT ![u] = p]
    /\ UNCHANGED <<request, starts>>

\* ChangePasswordHandler reads the row and sets the password of its copy,
ReadForPassword(r, u, p) ==
    /\ request[r] = NoRequest
    /\ users[u] # NONE
    /\ request' = [request EXCEPT ![r] =
            [username |-> u, copy |-> [users[u] EXCEPT !.password = p], acks |-> p]]
    /\ Asks(u, [password |-> p])
    /\ UNCHANGED <<users, created, current, starts>>

\* UpdateUserInfoHandler the email and the full name, and ends here when they
\* are what they were.
ReadForInfo(r, u, i) ==
    /\ request[r] = NoRequest
    /\ users[u] # NONE /\ users[u].info # i
    /\ request' = [request EXCEPT ![r] =
            [username |-> u, copy |-> [users[u] EXCEPT !.info = i], acks |-> NONE]]
    /\ Asks(u, [info |-> i])
    /\ UNCHANGED <<users, created, current, starts>>

\* Variant for a mutation run: the row is inserted when it is missing.
WriteOrInsert(r) ==
    /\ request[r] # NoRequest
    /\ users' = [users EXCEPT ![request[r].username] = request[r].copy]
    /\ request' = [request EXCEPT ![r] = NoRequest]
    /\ UNCHANGED <<created, asked, current, starts>>

\* Then both write every column of the copy but id and username, and answer
\* that the change is made.
WriteBack(r) ==
    LET u      == request[r].username
        fields == [c \in Columns |-> request[r].copy[c]]
    IN  /\ request[r] # NoRequest
        /\ users' = UserUpdate(u, fields)
        /\ request' = [request EXCEPT ![r] = NoRequest]
        /\ current' = IF request[r].acks = NONE THEN current
                      ELSE [current EXCEPT ![u] = request[r].acks]
        /\ UNCHANGED <<created, asked, starts>>

\* UpdateUserHandler writes what the body holds without a read; password and
\* role may be empty.
UpdateUser(u, p, i, role) ==
    /\ Updatable(i)
    /\ users' = UserUpdate(u, [password |-> p, info |-> i, role |-> role])
    /\ Asks(u, [password |-> p, info |-> i, role |-> role])
    /\ current' = IF p = NONE THEN current ELSE [current EXCEPT ![u] = p]
    /\ UNCHANGED <<request, created, starts>>

\* DeleteUserHandler.
DeleteUser(u) ==
    /\ users[u] # NONE
    /\ users' = [users EXCEPT ![u] = NONE]
    /\ UNCHANGED <<request, created, asked, current, starts>>

\* InitAgentDB creates the administrator when the table has none.
EnsureAdmin ==
    IF users[Admin] = NONE
    THEN /\ users' = [users EXCEPT ![Admin] = NewRow(DefaultPassword, DefaultInfo, "admin")]
         /\ created' = created + 1
         /\ Asks(Admin, [password |-> DefaultPassword, info |-> DefaultInfo,
                         role |-> "admin"])
         /\ current' = [current EXCEPT ![Admin] = DefaultPassword]
    ELSE UNCHANGED <<users, created, asked, current>>

Restart ==
    /\ starts < MaxStarts
    /\ users[Admin] = NONE => created < MaxCreated
    /\ starts' = starts + 1
    /\ request' = [r \in Requests |-> NoRequest]
    /\ EnsureAdmin

-----------------------------------------------------------------------------
\* A new database: the table is empty until the first start of the server.
UsersInit ==
    /\ users = [u \in Usernames |-> NONE]
    /\ request = [r \in Requests |-> NoRequest]
    /\ created = 0
    /\ asked = [u \in Usernames |-> [c \in Columns |-> {}]]
    /\ current = [u \in Usernames |-> NONE]
    /\ starts = 0

\* Requests are served once the server has been started.
Running == starts > 0

Handlers ==
    \/ \E u \in Usernames, p \in Passwords \cup {NONE}, i \in Infos \cup {NONE} :
         CreateUser(u, p, i)
    \/ \E r \in Requests, u \in Usernames, p \in Passwords : ReadForPassword(r, u, p)
    \/ \E r \in Requests, u \in Usernames, i \in Infos : ReadForInfo(r, u, i)
    \/ \E r \in Requests : WriteBack(r)
    \/ \E u \in Usernames, p \in Passwords \cup {NONE}, i \in Infos \cup {NONE},
          role \in Roles \cup {NONE} : UpdateUser(u, p, i, role)
    \/ \E u \in Usernames : DeleteUser(u)

UsersNext ==
    \/ Restart
    \/ Running /\ Handlers

UsersSpec == UsersInit /\ [][UsersNext]_usersVars

-----------------------------------------------------------------------------
(* Properties. *)

\* However requests overlap, a row holds only values that were asked for under
\* its own user name: a copy is never written over another user's row.
ValuesWereAsked ==
    \A u \in Usernames : users[u] # NONE =>
        \A c \in Columns : users[u][c] \in asked[u][c]

\* The table as the sessions of the API see it.
AccountOf(row) ==
    IF row = NONE THEN NONE
    ELSE [id |-> row.id, password |-> row.password, role |-> row.role]
Accounts == INSTANCE AccountTable WITH
    accounts <- [u \in Usernames |-> AccountOf(users[u])], NULL <- NONE

\* However reads and writes of the requests overlap, each step creates, changes or
\* removes one account: a write that was overtaken by a deletion does not bring
\* the row back, an account keeps its id for life, no id is given out twice, and
\* a start of the server does not replace an administrator that exists.
ImplementsAccounts == Accounts!Spec

\* The inductive invariant behind ValuesWereAsked: the copies that requests hold
\* consist of values asked for under the name they will be written to.
CopiesWereAsked ==
    \A r \in Requests : request[r] # NoRequest =>
        \A c \in Columns : request[r].copy[c] \in asked[request[r].username][c]

AccountInv == UsersTypeOK /\ ValuesWereAsked /\ CopiesWereAsked

(* A claim the code does not keep. *)

\* README.md:59 "đổi mật khẩu": once a request has answered that the password
\* is changed, it is, until another request changes it.
PasswordChangeSticks ==
    \A u \in Usernames : users[u] # NONE => users[u].password = current[u]
=============================================================================
