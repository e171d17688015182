------------------------------ MODULE ApiSessions ------------------------------
(***************************************************************************)
(* Logins, tokens and the requests a user of the dashboard makes with      *)
(* them.  A token carries what the row in users said when it was read at   *)
(* the login, and is believed until it expires.  The views of a user's     *)
(* devices, logs and one-time codes read the tables in several steps,      *)
(* between which accounts and devices change.                              *)
(*                                                                         *)
(* The two tables are those of AccountTable and DeviceTable: one step is   *)
(* one statement.  A log is an agent id: what loading one returns, and when *)
(* that fails, is in LogArchive.                                           *)
(***************************************************************************)
EXTENDS Integers, FiniteSets

CONSTANTS Usernames, Admin,     \* user names, and the default administrator's
          Passwords, DefaultPassword,
          AgentIDs,
          Sessions,     \* browsers: each keeps one token and makes one request
          Lifetime,     \* jwtExpire
          Period,       \* the 30 s for which a code is valid
          MaxWait,      \* bound on the time a request takes
          MaxTime, MaxCreated, MaxEnrolled,  \* bounds of the instance
          NULL

ASSUME SessionsAssumption ==
    /\ Admin \in Usernames /\ DefaultPassword \in Passwords
    /\ Lifetime \in Nat \ {0} /\ Period \in Nat \ {0} /\ MaxWait \in Nat
    /\ MaxTime \in Nat /\ MaxCreated \in Nat \ {0} /\ MaxEnrolled \in Nat
    /\ NULL \notin Usernames \cup Nat

VARIABLES
    accounts, created,  \* the table users
    devices, enrolled,  \* the table managed_clients
    now,                \* the server's clock
    token,              \* the claims of the token in a browser's localStorage
    call                \* the request of each browser

tables == <<accounts, created, devices, enrolled>>
vars   == <<tables, now, token, call>>

Accounts == INSTANCE AccountTable
Devices  == INSTANCE DeviceTable

ASSUME AccountAssumption == NULL \notin Accounts!Account

Times == 0..MaxTime

\* The claims, with two ghosts: the password they were obtained with, and since
\* when the row has differed from them.
Claims == [user_id : 1..MaxCreated, username : Usernames, role : Accounts!Roles,
           exp : Nat, password : Passwords, lapsed : Times \cup {NULL}]

\* "change" stands for change-password, update and update-info.
Views  == {"clients/my", "logs/my-device", "logs/my-device-paged", "otp"}
Routes == Views \cup {"clients", "change", "admin"}

Code == [client_id : Nat, step : Nat, expire_in : 1..Period]
Idle == [phase |-> "idle"]
Login == [phase : {"login"}, claims : Claims, since : Times]
\* lost, ever and always are ghosts: did a row or a log get lost to a failed
\* statement, scan or load, and the rows that existed at some moment, and at every
\* moment, since the request was admitted.
Request ==
    [phase : {"in", "authorized", "load", "found", "answered", "refused"}, route : Routes,
     claims : Claims, since : Times, agent : AgentIDs \cup {NULL},
     rows : SUBSET Devices!Device, logs : SUBSET AgentIDs,
     lost : BOOLEAN, code : Code \cup {NULL},
     ever : SUBSET Devices!Device, always : SUBSET Devices!Device]

TypeOK ==
    /\ accounts \in [Usernames -> Accounts!Account \cup {NULL}]
    /\ created \in 1..MaxCreated
    /\ devices \subseteq Devices!Device /\ enrolled \in 0..MaxEnrolled
    /\ now \in Times
    /\ token \in [Sessions -> Claims \cup {NULL}]
    /\ \A s \in Sessions : call[s] = Idle \/ call[s] \in Login \/ call[s] \in Request

Init ==
    /\ accounts = [u \in Usernames |->
            IF u = Admin THEN [id |-> 1, password |-> DefaultPassword, role |-> "admin"]
            ELSE NULL]
    /\ created = 1
    /\ devices = {} /\ enrolled = 0
    /\ now = 0
    /\ token = [s \in Sessions |-> NULL]
    /\ call = [s \in Sessions |-> Idle]

-----------------------------------------------------------------------------
(* What the ghosts see. *)

Agree(claims, row) ==
    row = [id |-> claims.user_id, password |-> claims.password, role |-> claims.role]

Dated(claims) ==
    [claims EXCEPT !.lapsed = IF Agree(claims, accounts'[claims.username]) THEN NULL
                              ELSE IF @ = NULL THEN now' ELSE @]

\* The rows a view is about.
Concern(c, rows) ==
    CASE c.route \in {"clients/my", "logs/my-device"} ->
           {d \in rows : d.user_name = c.claims.username}
      [] c.route \in {"logs/my-device-paged", "otp"} -> {d \in rows : d.agent_id = c.agent}
      [] OTHER -> {}

Observed(c) ==
    CASE c.phase \in {"idle", "answered", "refused"} -> c
      [] c.phase = "login" -> [c EXCEPT !.claims = Dated(@)]
      [] OTHER -> [c EXCEPT !.claims = Dated(@),
                            !.ever = @ \cup Concern(c, devices'), !.always = @ \cap devices']

\* The last conjunct of every action: the tokens and requests become t and c,
\* with their ghosts brought up to date.
Settle(t, c) ==
    /\ token' = [s \in Sessions |-> IF t[s] = NULL THEN NULL ELSE Dated(t[s])]
    /\ call' = [s \in Sessions |-> Observed(c[s])]

\* Session s goes on to c, and the tables are left alone.
Step(s, c) ==
    /\ UNCHANGED <<tables, now>>
    /\ Settle(token, [call EXCEPT ![s] = c])

-----------------------------------------------------------------------------
(* Login. *)

\* LoginHandler reads the row and compares the password; otherwise 401.
LoginRead(s, u, p) ==
    /\ call[s] = Idle
    /\ accounts[u] # NULL /\ accounts[u].password = p
    /\ Step(s, [phase |-> "login", since |-> now,
                claims |-> [user_id |-> accounts[u].id, username |-> u,
                            role |-> accounts[u].role, exp |-> 0,
                            password |-> p, lapsed |-> NULL]])

\* Then it signs the claims of that copy; login.js stores the token.
LoginIssue(s) ==
    /\ call[s].phase = "login"
    /\ UNCHANGED <<tables, now>>
    /\ Settle([token EXCEPT ![s] = [call[s].claims EXCEPT !.exp = now + Lifetime]],
              [call EXCEPT ![s] = Idle])

-----------------------------------------------------------------------------
(* The middleware. *)

\* Variant for a mutation run: the claims are read without their expiry.
ValidUnexpired(claims) == claims # NULL

\* jwt.ParseWithClaims.
Valid(claims) == claims # NULL /\ now < claims.exp

\* JWTAuthMiddlewareFunc: the claims of the token become the request's context.
Enter(s, route) ==
    /\ call[s] = Idle
    /\ Valid(token[s])
    /\ \E a \in IF route \in {"logs/my-device-paged", "otp"} THEN AgentIDs ELSE {NULL} :
        LET c == [phase |-> "in", route |-> route, claims |-> token[s], since |-> now,
                  agent |-> a, rows |-> {}, logs |-> {}, lost |-> FALSE, code |-> NULL,
                  ever |-> {}, always |-> {}]
        IN  Step(s, [c EXCEPT !.always = Concern(c, devices)])

\* 401: fetchWithAuth clears localStorage and goes to the login page, as the
\* logout button does.
Refuse(s) ==
    /\ call[s] = Idle
    /\ token[s] # NULL
    /\ UNCHANGED <<tables, now>>
    /\ Settle([token EXCEPT ![s] = NULL], call)

\* JWTAuthMiddleware(handler, true) parses the token again.
Authorize(s) ==
    /\ call[s].phase = "in" /\ call[s].route = "admin"
    /\ IF Valid(call[s].claims) /\ call[s].claims.role = "admin"
       THEN Step(s, [call[s] EXCEPT !.phase = "authorized"])
       ELSE Step(s, Idle)

-----------------------------------------------------------------------------
(* Requests that change a table. *)

Done(s) ==
    /\ UNCHANGED now
    /\ Settle(token, [call EXCEPT ![s] = Idle])

\* The routes for administrators.  A request that fails, or that only reads
\* (users, logs/archive, logs/paged), changes nothing.
AdminOfUsers(s) ==
    /\ call[s].phase = "authorized"
    /\ \/ \E u \in Usernames, p \in Passwords :
            created < MaxCreated /\ Accounts!Create(u, p, "user")
       \/ \E u \in Usernames : Accounts!Remove(u)
       \/ UNCHANGED <<accounts, created>>
    /\ UNCHANGED <<devices, enrolled>>
    /\ Done(s)

\* The device is named by its agent id or its client id.
AdminOfDevices(s) ==
    /\ call[s].phase = "authorized"
    /\ \E d \in devices : Devices!Remove(d) \/ \E u \in Usernames : Devices!Assign(d, u)
    /\ UNCHANGED <<accounts, created>>
    /\ Done(s)

\* change-password, update and update-info name the account in their body.
ChangeRequest(s) ==
    /\ call[s].phase = "in" /\ call[s].route = "change"
    /\ \/ \E u \in Usernames, p \in Passwords, role \in Accounts!Roles :
            Accounts!Change(u, p, role)
       \/ UNCHANGED <<accounts, created>>
    /\ UNCHANGED <<devices, enrolled>>
    /\ Done(s)

-----------------------------------------------------------------------------
(* The views of a user. *)

\* What comes back of the table: a row that cannot be scanned is skipped, and
\* where the rows break off nobody asks why.
ClientGetAll == SUBSET devices

\* Variants for mutation runs: a device that nobody has counts as everybody's; the
\* search stops at the first device.
MineOrFree(claims, clients) == {d \in clients : d.user_name \in {claims.username, NULL}}
FirstOfMine(claims, clients) ==
    LET mine == {d \in clients : d.user_name = claims.username}
    IN  IF mine = {} THEN {} ELSE {CHOOSE d \in mine : TRUE}

\* Filtered by the user name of the claims.
GetClientsByUsername(claims, clients) == {d \in clients : d.user_name = claims.username}

AgentIdsIn(rows) == {d.agent_id : d \in rows}

\* HandleListClients, HandleGetClientByAgentID and HandleGetClientByID answer with
\* what one statement read.
LookUpClients(s) ==
    /\ call[s].phase = "in" /\ call[s].route = "clients"
    /\ Step(s, Idle)

\* HandleListMyClients: 500 when the statement fails, as in the next two.
ListMyClients(s) ==
    /\ call[s].phase = "in" /\ call[s].route = "clients/my"
    /\ \/ \E clients \in ClientGetAll :
            Step(s, [call[s] EXCEPT !.phase = "answered",
                                    !.rows = GetClientsByUsername(call[s].claims, clients),
                                    !.lost = clients # devices])
       \/ Step(s, Idle)

\* GetMyDeviceLogHandler: 404 when the user has no device.
MyDeviceLog(s) ==
    /\ call[s].phase = "in" /\ call[s].route = "logs/my-device"
    /\ \/ \E clients \in ClientGetAll :
            LET mine == {d \in clients : d.user_name = call[s].claims.username}
            IN  Step(s, [call[s] EXCEPT !.phase = IF mine = {} THEN "refused" ELSE "load",
                                        !.rows = mine, !.lost = clients # devices])
       \/ Step(s, Idle)

\* GetMyDeviceLogPagedHandler: 403 when the device is not the user's.
MyDeviceLogPaged(s) ==
    /\ call[s].phase = "in" /\ call[s].route = "logs/my-device-paged"
    /\ \/ \E clients \in ClientGetAll :
            LET mine == {d \in GetClientsByUsername(call[s].claims, clients) :
                            d.agent_id = call[s].agent}
            IN  Step(s, [call[s] EXCEPT !.phase = IF mine = {} THEN "refused" ELSE "load",
                                        !.rows = mine, !.lost = clients # devices])
       \/ Step(s, Idle)

\* One of the loads.  One that fails is skipped by GetMyDeviceLogHandler and
\* ends the other handler with 500.
LoadLog(s) ==
    LET c == call[s] IN
    /\ c.phase = "load"
    /\ \E d \in c.rows :
        \/ Step(s, [c EXCEPT !.rows = @ \ {d}, !.logs = @ \cup {d.agent_id}])
        \/ /\ c.route = "logs/my-device"
           /\ Step(s, [c EXCEPT !.rows = @ \ {d}, !.lost = TRUE])
        \/ c.route = "logs/my-device-paged" /\ Step(s, Idle)
AnswerLog(s) ==
    /\ call[s].phase = "load" /\ call[s].rows = {}
    /\ Step(s, [call[s] EXCEPT !.phase = "answered"])

\* ClientGetClientIDByAgentID.
RowsOfAgent(a) == {d \in devices : d.agent_id = a}

\* GetOTPByAgentIDWithExpire looks the client up; "agent not found" is also what
\* a statement that fails comes to.
FindOtpClient(s) ==
    LET rows == RowsOfAgent(call[s].agent) IN
    /\ call[s].phase = "in" /\ call[s].route = "otp"
    /\ \/ rows # {} /\ Step(s, [call[s] EXCEPT !.phase = "found", !.rows = rows])
       \/ Step(s, [call[s] EXCEPT !.phase = "refused", !.lost = rows # {}])

\* Variant for a mutation run: the clock is rounded up before the step is computed.
RoundedUp(c) ==
    [client_id |-> c, step |-> (now + 1) \div Period, expire_in |-> Period - (now % Period)]

\* GetTOTPWithExpireByClientID reads the clock once for the code and for the
\* seconds it has left.
GetTOTPWithExpire(c) ==
    [client_id |-> c, step |-> now \div Period, expire_in |-> Period - (now % Period)]

\* and computes its code.
AnswerOtp(s) ==
    /\ call[s].phase = "found"
    /\ \E d \in call[s].rows :
        Step(s, [call[s] EXCEPT !.phase = "answered",
                                !.code = GetTOTPWithExpire(d.client_id)])

\* The browser has the answer.
Take(s) ==
    /\ call[s].phase \in {"answered", "refused"}
    /\ Step(s, Idle)

-----------------------------------------------------------------------------
(* The rest of the server, and time. *)

\* The requests of other browsers, the registrations of the TCP server, and the
\* default administrator at a restart: any step of the two tables.
Elsewhere ==
    /\ \/ Accounts!Next /\ created' <= MaxCreated /\ UNCHANGED <<devices, enrolled>>
       \/ Devices!Next /\ enrolled' <= MaxEnrolled /\ UNCHANGED <<accounts, created>>
    /\ UNCHANGED now
    /\ Settle(token, call)

InFlight(s) == call[s].phase \notin {"idle", "answered", "refused"}

\* A request takes MaxWait at most.
Tick ==
    /\ now < MaxTime
    /\ \A s \in Sessions : InFlight(s) => now - call[s].since < MaxWait
    /\ now' = now + 1
    /\ UNCHANGED tables
    /\ Settle(token, call)

Next ==
    \/ \E s \in Sessions :
        \/ \E u \in Usernames, p \in Passwords : LoginRead(s, u, p)
        \/ LoginIssue(s)
        \/ \E route \in Routes : Enter(s, route)
        \/ Refuse(s)
        \/ Authorize(s) \/ AdminOfUsers(s) \/ AdminOfDevices(s) \/ ChangeRequest(s)
        \/ LookUpClients(s) \/ ListMyClients(s) \/ MyDeviceLog(s) \/ MyDeviceLogPaged(s)
        \/ LoadLog(s) \/ AnswerLog(s)
        \/ FindOtpClient(s) \/ AnswerOtp(s)
        \/ Take(s)
    \/ Elsewhere
    \/ Tick

Spec == Init /\ [][Next]_vars

-----------------------------------------------------------------------------
(* Properties. *)

\* jwt.go:73: a token is believed although the row may have changed, but not for
\* long: whoever acts on claims that the row has ceased to confirm (the account
\* was removed, given another role or another password) does so within the
\* token's lifetime and the time the login and the request took.
OldClaimsLapse ==
    \A s \in Sessions : InFlight(s) /\ call[s].phase # "login" =>
        LET lapsed == call[s].claims.lapsed IN
        lapsed = NULL \/ now - lapsed < Lifetime + 2 * MaxWait

Answered(s, routes) == call[s].phase = "answered" /\ call[s].route \in routes

\* log_handler.go:122: the device is checked and its log loaded in two reads,
\* and it may be assigned to somebody else in between; still everything a user
\* is shown belongs to a device that was the user's at some moment of the
\* request.
ViewWasAssigned ==
    \A s \in Sessions : Answered(s, Views \ {"otp"}) =>
        \A a \in call[s].logs \cup AgentIdsIn(call[s].rows) :
            \E d \in call[s].ever : d.agent_id = a /\ d.user_name = call[s].claims.username

\* What a user is not shown was not there: unless a statement, a scan or a load
\* failed on the way, a device that was the user's throughout is listed, its log
\* is in the answer, and no request about it is refused.
ViewIsComplete ==
    \A s \in Sessions : call[s].phase \in {"answered", "refused"} /\ ~call[s].lost =>
        LET c    == call[s]
            mine == {d \in c.always : d.user_name = c.claims.username}
        IN  /\ Answered(s, {"clients/my"}) => mine \subseteq c.rows
            /\ Answered(s, {"logs/my-device"}) => \A d \in mine : d.agent_id \in c.logs
            /\ c.phase = "refused" =>
                 CASE c.route = "logs/my-device" -> mine = {}
                   [] c.route = "otp" -> c.agent \notin AgentIdsIn(c.always)
                   [] OTHER -> c.agent \notin AgentIdsIn(mine)

\* A code that is shown is that of a client which had the agent id during the
\* request, for a moment of the request, and it holds from then on for exactly
\* the seconds that are shown with it.
CodeIsUsable ==
    \A s \in Sessions : Answered(s, {"otp"}) =>
        LET c == call[s] IN
        /\ \E d \in c.ever : d.agent_id = c.agent /\ d.client_id = c.code.client_id
        /\ \E t \in c.since..(c.since + MaxWait) :
             /\ c.code.step = t \div Period
             /\ c.code.step = (t + c.code.expire_in - 1) \div Period
             /\ c.code.step # (t + c.code.expire_in) \div Period

(* A claim the code does not keep. *)

\* jwt.go:49-50 "user_id ... for every query", "username only for display": the
\* devices a user sees are assigned to the account the token was issued for.
ViewIsOfOwnAccount ==
    \A s \in Sessions : Answered(s, {"clients/my"}) /\ call[s].rows # {} =>
        \/ accounts[call[s].claims.username] = NULL
        \/ accounts[call[s].claims.username].id = call[s].claims.user_id
=============================================================================
