--------------------------- MODULE ApiSessionsProofs ---------------------------
(***************************************************************************)
(* Proofs about ApiSessions for every set of user names, agent ids and     *)
(* browsers and every lifetime of a token: SessionsInv is inductive, so    *)
(* outdated claims lapse in time, and a view of a user's devices shows     *)
(* what was the user's during the request and leaves nothing of it out.    *)
(***************************************************************************)
EXTENDS ApiSessions, TLAPS

USE SessionsAssumption

-----------------------------------------------------------------------------
(* The invariant. *)

\* The predicates on claims and calls take the time t and the rows of the table, so
\* that they can be said of the state before a step and of the state after it.

\* Who has claims holds them for Lifetime at most, and, once the row has ceased
\* to confirm them, for Lifetime and the wait of the login at most.
ClaimsLimited(k, t) ==
    /\ k \in Claims
    /\ k.exp <= t + Lifetime
    /\ k.lapsed # NULL => k.exp <= k.lapsed + MaxWait + Lifetime

LoginFresh(c, t) ==
    /\ c \in Login
    /\ c.since <= t /\ t <= c.since + MaxWait
    /\ c.claims.lapsed # NULL => c.since <= c.claims.lapsed

\* The user's devices that were there throughout, and an agent id that was a
\* device of the user's at some moment.
Mine(c) == {d \in c.always : d.user_name = c.claims.username}
WasMine(c, a) == \E d \in c.ever : d.agent_id = a /\ d.user_name = c.claims.username

\* How far a request has come: what it still has to load, and has loaded.
Progress(c) ==
    /\ c.phase = "in" => c.logs = {} /\ ~c.lost
    /\ c.phase = "found" =>
         c.route = "otp" /\ \A d \in c.rows : d.agent_id = c.agent /\ d \in c.ever
    /\ c.phase = "authorized" => c.route = "admin"
    /\ c.phase = "load" =>
         /\ c.route \in {"logs/my-device", "logs/my-device-paged"}
         /\ \A d \in c.rows : WasMine(c, d.agent_id)
         /\ \A a \in c.logs : WasMine(c, a)
         /\ c.route = "logs/my-device" /\ ~c.lost =>
              \A d \in Mine(c) : d \in c.rows \/ d.agent_id \in c.logs

\* A request on its way, its ghosts apart.
RequestFresh(c, t) ==
    /\ c \in Request
    /\ c.phase \notin {"answered", "refused"}
    /\ ClaimsLimited(c.claims, t)
    /\ c.since < c.claims.exp
    /\ c.since <= t /\ t <= c.since + MaxWait
    /\ Progress(c)

\* Its ghosts: ever holds what is there now, and always nothing that is not.
GhostsCurrent(c, rows) == Concern(c, rows) \subseteq c.ever /\ c.always \subseteq rows

\* An answer or a refusal that the browser has yet to take.
Complete(c) ==
    /\ c \in Request
    /\ c.phase = "answered" /\ c.route \in Views \ {"otp"} =>
         \A a \in c.logs \cup AgentIdsIn(c.rows) : WasMine(c, a)
    /\ c.phase = "answered" /\ c.route = "clients/my" /\ ~c.lost => Mine(c) \subseteq c.rows
    /\ c.phase = "answered" /\ c.route = "logs/my-device" /\ ~c.lost =>
         \A d \in Mine(c) : d.agent_id \in c.logs
    /\ c.phase = "answered" /\ c.route = "otp" =>
         /\ \E d \in c.ever : d.agent_id = c.agent /\ d.client_id = c.code.client_id
         /\ \E t \in c.since..(c.since + MaxWait) :
              c.code.step = t \div Period /\ c.code.expire_in = Period - (t % Period)
    /\ c.phase = "refused" /\ ~c.lost =>
         CASE c.route = "logs/my-device" -> Mine(c) = {}
           [] c.route = "otp" -> c.agent \notin AgentIdsIn(c.always)
           [] OTHER -> c.agent \notin AgentIdsIn(Mine(c))

CallSound(c, t, rows) ==
    \/ c = Idle
    \/ LoginFresh(c, t)
    \/ RequestFresh(c, t) /\ GhostsCurrent(c, rows)
    \/ c.phase \in {"answered", "refused"} /\ Complete(c)

TablesSound ==
    /\ accounts \in [Usernames -> Accounts!Account \cup {NULL}]
    /\ created \in 1..MaxCreated
    /\ \A u \in Usernames : accounts[u] # NULL => accounts[u].id \in 1..created
    /\ devices \subseteq Devices!Device /\ enrolled \in 0..MaxEnrolled
    /\ now \in Times

SessionsInv ==
    /\ TablesSound
    /\ token \in [Sessions -> Claims \cup {NULL}]
    /\ DOMAIN call = Sessions
    /\ \A s \in Sessions :
        /\ token[s] # NULL => ClaimsLimited(token[s], now)
        /\ CallSound(call[s], now, devices)

-----------------------------------------------------------------------------
(* What the ghosts see keeps the invariant. *)

LEMMA ClaimsFacts ==
    ASSUME NEW k \in Claims
    PROVE  /\ k.username \in Usernames /\ k.exp \in Nat
           /\ k.lapsed \in 0..MaxTime \cup {NULL}
           /\ k.lapsed # NULL => k.lapsed \in Nat
BY DEF Claims, Times

LEMMA RequestFacts ==
    ASSUME NEW c \in Request
    PROVE  /\ c.route \in Routes /\ c.claims \in Claims /\ c.since \in 0..MaxTime /\ c.since \in Nat
           /\ c.agent \in AgentIDs \cup {NULL} /\ c.rows \subseteq Devices!Device
           /\ c.logs \subseteq AgentIDs /\ c.lost \in BOOLEAN
           /\ c.ever \subseteq Devices!Device /\ c.always \subseteq Devices!Device
           /\ c.phase \in {"in", "authorized", "load", "found", "answered", "refused"}
BY DEF Request, Times

\* Dating claims changes their lapsed only: to NULL, to the present, or not.
LEMMA DatedFacts ==
    ASSUME NEW k \in Claims, now' \in Times
    PROVE  /\ Dated(k) \in Claims
           /\ Dated(k).username = k.username /\ Dated(k).exp = k.exp
           /\ Dated(k).role = k.role /\ Dated(k).user_id = k.user_id
           /\ \/ Dated(k).lapsed = NULL
              \/ Dated(k).lapsed = k.lapsed
              \/ Dated(k).lapsed = now'
BY DEF Dated, Claims

LEMMA DatedLimited ==
    ASSUME now' \in Times, NEW k \in Claims, k.exp <= now' + Lifetime,
           k.lapsed # NULL => k.exp <= k.lapsed + MaxWait + Lifetime
    PROVE  ClaimsLimited(Dated(k), now')
<1> DEFINE e == Dated(k)
<1>1. /\ e \in Claims /\ e.exp = k.exp
      /\ e.lapsed = NULL \/ e.lapsed = k.lapsed \/ e.lapsed = now'
  BY DatedFacts
<1>2. now' \in Nat /\ e.exp \in Nat
  BY <1>1, ClaimsFacts DEF Times
<1> HIDE DEF e
<1>3. e.lapsed # NULL => e.exp <= e.lapsed + MaxWait + Lifetime
  BY <1>1, <1>2
<1>4. ClaimsLimited(e, now')
  BY <1>1, <1>3 DEF ClaimsLimited
<1>. QED  BY <1>4 DEF e

\* A request keeps everything but its claims' date and its ghosts; ever grows, and
\* always shrinks to what is still there.
LEMMA ObservedRequest ==
    ASSUME NEW c \in Request, c.phase \notin {"answered", "refused"},
           now' \in Times, devices' \subseteq Devices!Device
    PROVE  /\ Observed(c) \in Request
           /\ Observed(c).phase = c.phase /\ Observed(c).route = c.route
           /\ Observed(c).since = c.since /\ Observed(c).agent = c.agent
           /\ Observed(c).rows = c.rows /\ Observed(c).logs = c.logs
           /\ Observed(c).lost = c.lost
           /\ Observed(c).claims = Dated(c.claims)
           /\ Observed(c).ever = c.ever \cup Concern(c, devices')
           /\ Observed(c).always = c.always \cap devices'
<1>1. c.claims \in Claims /\ Dated(c.claims) \in Claims
  BY RequestFacts, DatedFacts
<1>2. Concern(c, devices') \subseteq Devices!Device
  BY DEF Concern
<1>3. c.phase \in {"in", "authorized", "load", "found"}
  BY RequestFacts
<1>4. Observed(c) = [c EXCEPT !.claims = Dated(@), !.ever = @ \cup Concern(c, devices'),
                              !.always = @ \cap devices']
  BY <1>3 DEF Observed
<1>. QED  BY <1>1, <1>2, <1>4 DEF Request

\* After the ghosts were brought up to date, a request that was fresh but for them
\* is sound.
LEMMA ObservedFresh ==
    ASSUME NEW c, RequestFresh(c, now'), now' \in Times, devices' \subseteq Devices!Device
    PROVE  RequestFresh(Observed(c), now') /\ GhostsCurrent(Observed(c), devices')
<1> DEFINE o == Observed(c)
<1>0. c \in Request /\ c.phase \notin {"answered", "refused"}
  BY DEF RequestFresh
<1>1. /\ o \in Request /\ o.phase = c.phase /\ o.route = c.route /\ o.since = c.since
      /\ o.agent = c.agent /\ o.rows = c.rows /\ o.logs = c.logs /\ o.lost = c.lost
      /\ o.claims = Dated(c.claims)
      /\ o.ever = c.ever \cup Concern(c, devices') /\ o.always = c.always \cap devices'
  BY <1>0, ObservedRequest
<1>2. ClaimsLimited(o.claims, now') /\ o.claims.exp = c.claims.exp
      /\ o.claims.username = c.claims.username
  BY <1>0, <1>1, RequestFacts, DatedLimited, DatedFacts DEF RequestFresh, ClaimsLimited
<1> HIDE DEF o
<1>3. Progress(o)
  BY <1>1, <1>2 DEF RequestFresh, Progress, Mine, WasMine
<1>4. Concern(o, devices') = Concern(c, devices')
  BY <1>1, <1>2 DEF Concern
<1>5. RequestFresh(o, now') /\ GhostsCurrent(o, devices')
  BY <1>0, <1>1, <1>2, <1>3, <1>4 DEF RequestFresh, GhostsCurrent
<1>. QED  BY <1>5 DEF o

LEMMA ObservedLogin ==
    ASSUME NEW c, LoginFresh(c, now'), now' \in Times
    PROVE  LoginFresh(Observed(c), now')
<1>1. /\ c \in Login /\ c.phase = "login" /\ c.claims \in Claims /\ c.since \in 0..MaxTime
      /\ c.since <= now' /\ now' <= c.since + MaxWait
      /\ c.claims.lapsed # NULL => c.since <= c.claims.lapsed
  BY DEF LoginFresh, Login, Times
<1>2. Observed(c) = [c EXCEPT !.claims = Dated(@)]
  BY <1>1 DEF Observed
<1>3. /\ Dated(c.claims) \in Claims
      /\ \/ Dated(c.claims).lapsed = NULL
         \/ Dated(c.claims).lapsed = c.claims.lapsed
         \/ Dated(c.claims).lapsed = now'
  BY <1>1, DatedFacts
<1>4. /\ Observed(c) \in Login /\ Observed(c).since = c.since
      /\ Observed(c).claims = Dated(c.claims)
  BY <1>1, <1>2, <1>3 DEF Login
<1>. QED  BY <1>1, <1>3, <1>4 DEF LoginFresh

\* What every action ends with: tokens and requests that are in order but for their
\* ghosts leave a state in which the invariant holds.
LEMMA SettleKeeps ==
    ASSUME TablesSound', NEW t, NEW c, Settle(t, c),
           \A s \in Sessions :
               /\ t[s] # NULL =>
                    /\ t[s] \in Claims /\ t[s].exp <= now' + Lifetime
                    /\ t[s].lapsed # NULL => t[s].exp <= t[s].lapsed + MaxWait + Lifetime
               /\ \/ c[s] = Idle
                  \/ LoginFresh(c[s], now')
                  \/ RequestFresh(c[s], now')
                  \/ c[s].phase \in {"answered", "refused"} /\ Complete(c[s])
    PROVE  SessionsInv'
<1>1. /\ token' = [s \in Sessions |-> IF t[s] = NULL THEN NULL ELSE Dated(t[s])]
      /\ call' = [s \in Sessions |-> Observed(c[s])]
  BY DEF Settle
<1>2. now' \in Times /\ devices' \subseteq Devices!Device
  BY DEF TablesSound
<1>3. ASSUME NEW s \in Sessions
      PROVE  /\ token'[s] \in Claims \cup {NULL}
             /\ token'[s] # NULL => ClaimsLimited(token'[s], now')
             /\ CallSound(call'[s], now', devices')
  <2>1. token'[s] = NULL \/ ClaimsLimited(token'[s], now')
    BY <1>1, <1>2, DatedLimited
  <2>2. call'[s] = Observed(c[s])
    BY <1>1
  <2>3. CallSound(Observed(c[s]), now', devices')
    <3>1. CASE c[s] = Idle
      BY <3>1 DEF Observed, Idle, CallSound
    <3>2. CASE LoginFresh(c[s], now')
      BY <1>2, <3>2, ObservedLogin DEF CallSound
    <3>3. CASE RequestFresh(c[s], now')
      BY <1>2, <3>3, ObservedFresh DEF CallSound
    <3>4. CASE c[s].phase \in {"answered", "refused"} /\ Complete(c[s])
      <4>1. Observed(c[s]) = c[s]
        BY <3>4 DEF Observed
      <4>. QED  BY <3>4, <4>1 DEF CallSound
    <3>. QED  BY <3>1, <3>2, <3>3, <3>4
  <2>. QED  BY <2>1, <2>2, <2>3 DEF ClaimsLimited
<1>4. token' \in [Sessions -> Claims \cup {NULL}] /\ DOMAIN call' = Sessions
  BY <1>1, <1>3
<1>. QED  BY <1>3, <1>4 DEF SessionsInv

\* The steps that leave the tables and the clock alone, and bring session s to a
\* sound request.
LEMMA StepKeeps ==
    ASSUME SessionsInv, NEW s \in Sessions, NEW c, Step(s, c),
           \/ c = Idle
           \/ LoginFresh(c, now)
           \/ RequestFresh(c, now)
           \/ c.phase \in {"answered", "refused"} /\ Complete(c)
    PROVE  SessionsInv'
<1> DEFINE calls == [call EXCEPT ![s] = c]
<1>1. /\ UNCHANGED <<accounts, created, devices, enrolled, now>> /\ Settle(token, calls)
  BY DEF Step, tables
<1>2. TablesSound'
  BY <1>1 DEF SessionsInv, TablesSound
<1>3. \A r \in Sessions : calls[r] = IF r = s THEN c ELSE call[r]
  BY DEF SessionsInv
<1> HIDE DEF calls
<1>4. ASSUME NEW r \in Sessions
      PROVE  /\ token[r] # NULL =>
                  /\ token[r] \in Claims /\ token[r].exp <= now' + Lifetime
                  /\ token[r].lapsed # NULL => token[r].exp <= token[r].lapsed + MaxWait + Lifetime
             /\ \/ calls[r] = Idle
                \/ LoginFresh(calls[r], now')
                \/ RequestFresh(calls[r], now')
                \/ calls[r].phase \in {"answered", "refused"} /\ Complete(calls[r])
  BY <1>1, <1>3 DEF SessionsInv, ClaimsLimited, CallSound
<1>. QED  BY <1>1, <1>2, <1>4, SettleKeeps

\* The steps of the tables, after which session s, if there is one, has no request.
LEMMA TablesKeep ==
    ASSUME SessionsInv, NEW calls, TablesSound', UNCHANGED now, Settle(token, calls),
           \A s \in Sessions : calls[s] = Idle \/ calls[s] = call[s]
    PROVE  SessionsInv'
<1>1. ASSUME NEW r \in Sessions
      PROVE  /\ token[r] # NULL =>
                  /\ token[r] \in Claims /\ token[r].exp <= now' + Lifetime
                  /\ token[r].lapsed # NULL => token[r].exp <= token[r].lapsed + MaxWait + Lifetime
             /\ \/ calls[r] = Idle
                \/ LoginFresh(calls[r], now')
                \/ RequestFresh(calls[r], now')
                \/ calls[r].phase \in {"answered", "refused"} /\ Complete(calls[r])
  BY DEF SessionsInv, ClaimsLimited, CallSound
<1>. QED  BY <1>1, SettleKeeps

\* In what form a call of each phase is.
LEMMA PhaseFacts ==
    ASSUME SessionsInv, NEW s \in Sessions
    PROVE  /\ call[s].phase = "login" => LoginFresh(call[s], now)
           /\ call[s].phase \in {"in", "authorized", "load", "found"} =>
                /\ RequestFresh(call[s], now) /\ GhostsCurrent(call[s], devices)
                /\ call[s] \in Request
           /\ call[s].phase \in {"answered", "refused"} => Complete(call[s])
<1>1. CallSound(call[s], now, devices)
  BY DEF SessionsInv
<1>2. Idle.phase = "idle"
  BY DEF Idle
<1>3. LoginFresh(call[s], now) => call[s].phase = "login"
  BY DEF LoginFresh, Login
<1>4. RequestFresh(call[s], now) =>
          call[s] \in Request /\ call[s].phase \in {"in", "authorized", "load", "found"}
  BY DEF RequestFresh, Request
<1>. QED  BY <1>1, <1>2, <1>3, <1>4 DEF CallSound

-----------------------------------------------------------------------------
(* Login and the middleware. *)

LEMMA InitSessions == Init => SessionsInv
<1> SUFFICES ASSUME Init PROVE SessionsInv
  OBVIOUS
<1>1. TablesSound
  <2>1. [id |-> 1, password |-> DefaultPassword, role |-> "admin"] \in Accounts!Account
    BY DEF Accounts!Account, Accounts!Roles
  <2>. QED  BY <2>1 DEF Init, TablesSound, Times
<1>. QED  BY <1>1 DEF Init, SessionsInv, CallSound

LEMMA LoginReadStep ==
    ASSUME SessionsInv, NEW s \in Sessions, NEW u \in Usernames, NEW p \in Passwords,
           LoginRead(s, u, p)
    PROVE  SessionsInv'
<1> DEFINE k == [user_id |-> accounts[u].id, username |-> u, role |-> accounts[u].role,
                 exp |-> 0, password |-> p, lapsed |-> NULL]
           c == [phase |-> "login", since |-> now, claims |-> k]
<1>1. Step(s, c) /\ accounts[u] # NULL
  BY DEF LoginRead
<1>2. k \in Claims
  <2>1. /\ accounts[u] \in Accounts!Account /\ accounts[u].id \in 1..created
        /\ created \in 1..MaxCreated
    BY <1>1 DEF SessionsInv, TablesSound
  <2>2. accounts[u].id \in 1..MaxCreated /\ accounts[u].role \in Accounts!Roles
    BY <2>1 DEF Accounts!Account
  <2>. QED  BY <2>2 DEF Claims
<1>3. now \in 0..MaxTime
  BY DEF SessionsInv, TablesSound, Times
<1>4. c \in Login
  <2> HIDE DEF k
  <2>. QED  BY <1>2, <1>3 DEF Login, Times
<1>5. LoginFresh(c, now)
  BY <1>3, <1>4 DEF LoginFresh
<1> HIDE DEF c
<1>. QED  BY <1>1, <1>5, StepKeeps

LEMMA LoginIssueStep ==
    ASSUME SessionsInv, NEW s \in Sessions, LoginIssue(s)
    PROVE  SessionsInv'
<1> DEFINE k == [call[s].claims EXCEPT !.exp = now + Lifetime]
           t == [token EXCEPT ![s] = k]
           c == [call EXCEPT ![s] = Idle]
<1>1. /\ call[s].phase = "login" /\ UNCHANGED <<accounts, created, devices, enrolled, now>>
      /\ Settle(t, c)
  BY DEF LoginIssue, tables
<1>2. LoginFresh(call[s], now)
  BY <1>1, PhaseFacts
<1>3. /\ call[s].claims \in Claims /\ call[s].since \in Nat /\ now \in Nat
      /\ now <= call[s].since + MaxWait
      /\ call[s].claims.lapsed # NULL => call[s].since <= call[s].claims.lapsed
  BY <1>2 DEF LoginFresh, Login, Times, SessionsInv, TablesSound
<1>4. k \in Claims /\ k.exp = now + Lifetime /\ k.lapsed = call[s].claims.lapsed
  BY <1>3 DEF Claims
<1>5. k.lapsed # NULL => k.exp <= k.lapsed + MaxWait + Lifetime
  BY <1>3, <1>4, ClaimsFacts
<1>6. TablesSound'
  BY <1>1 DEF SessionsInv, TablesSound
<1>7. \A r \in Sessions : /\ t[r] = IF r = s THEN k ELSE token[r]
                          /\ c[r] = IF r = s THEN Idle ELSE call[r]
  BY DEF SessionsInv
<1> HIDE DEF k, t, c
<1>8. ASSUME NEW r \in Sessions
      PROVE  /\ t[r] # NULL =>
                  /\ t[r] \in Claims /\ t[r].exp <= now' + Lifetime
                  /\ t[r].lapsed # NULL => t[r].exp <= t[r].lapsed + MaxWait + Lifetime
             /\ \/ c[r] = Idle
                \/ LoginFresh(c[r], now')
                \/ RequestFresh(c[r], now')
                \/ c[r].phase \in {"answered", "refused"} /\ Complete(c[r])
  BY <1>1, <1>3, <1>4, <1>5, <1>7 DEF SessionsInv, ClaimsLimited, CallSound
<1>. QED  BY <1>1, <1>6, <1>8, SettleKeeps

LEMMA EnterStep ==
    ASSUME SessionsInv, NEW s \in Sessions, NEW route \in Routes, Enter(s, route)
    PROVE  SessionsInv'
<1> DEFINE b(a) == [phase |-> "in", route |-> route, claims |-> token[s], since |-> now,
                    agent |-> a, rows |-> {}, logs |-> {}, lost |-> FALSE, code |-> NULL,
                    ever |-> {}, always |-> {}]
<1>1. PICK a \in AgentIDs \cup {NULL} :
        Step(s, [b(a) EXCEPT !.always = Concern(b(a), devices)])
  BY DEF Enter
<1> DEFINE c == [b(a) EXCEPT !.always = Concern(b(a), devices)]
<1>2. /\ token[s] \in Claims /\ ClaimsLimited(token[s], now) /\ now < token[s].exp
  BY DEF Enter, Valid, SessionsInv, ClaimsLimited
<1>3. now \in 0..MaxTime /\ devices \subseteq Devices!Device
  BY DEF SessionsInv, TablesSound, Times
<1>4. Concern(b(a), devices) \subseteq Devices!Device
  BY <1>3 DEF Concern
<1>5. /\ c.phase = "in" /\ c.route = route /\ c.claims = token[s] /\ c.since = now
      /\ c.logs = {} /\ ~c.lost /\ c \in Request
  <2>1. /\ b(a).phase = "in" /\ b(a).route = route /\ b(a).claims = token[s]
        /\ b(a).since = now /\ b(a).logs = {} /\ ~b(a).lost /\ b(a) \in Request
    BY <1>2, <1>3 DEF Request, Times
  <2> HIDE DEF b
  <2>. QED  BY <1>4, <2>1 DEF Request
<1> HIDE DEF c
<1>6. RequestFresh(c, now)
  BY <1>2, <1>3, <1>5 DEF RequestFresh, Progress
<1>. QED  BY <1>1, <1>6, StepKeeps DEF c

LEMMA RefuseStep ==
    ASSUME SessionsInv, NEW s \in Sessions, Refuse(s)
    PROVE  SessionsInv'
<1> DEFINE t == [token EXCEPT ![s] = NULL]
<1>1. UNCHANGED <<accounts, created, devices, enrolled, now>> /\ Settle(t, call)
  BY DEF Refuse, tables
<1>2. TablesSound'
  BY <1>1 DEF SessionsInv, TablesSound
<1>3. \A r \in Sessions : t[r] = NULL \/ t[r] = token[r]
  BY DEF SessionsInv
<1> HIDE DEF t
<1>4. ASSUME NEW r \in Sessions
      PROVE  /\ t[r] # NULL =>
                  /\ t[r] \in Claims /\ t[r].exp <= now' + Lifetime
                  /\ t[r].lapsed # NULL => t[r].exp <= t[r].lapsed + MaxWait + Lifetime
             /\ \/ call[r] = Idle
                \/ LoginFresh(call[r], now')
                \/ RequestFresh(call[r], now')
                \/ call[r].phase \in {"answered", "refused"} /\ Complete(call[r])
  BY <1>1, <1>3 DEF SessionsInv, ClaimsLimited, CallSound
<1>. QED  BY <1>1, <1>2, <1>4, SettleKeeps

\* A request keeps what it has, and goes on to a phase that asks no more of it.
LEMMA AuthorizeStep ==
    ASSUME SessionsInv, NEW s \in Sessions, Authorize(s)
    PROVE  SessionsInv'
<1> DEFINE c == [call[s] EXCEPT !.phase = "authorized"]
<1>1. /\ call[s].phase = "in" /\ call[s].route = "admin"
      /\ Step(s, c) \/ Step(s, Idle)
  BY DEF Authorize
<1>2. RequestFresh(call[s], now) /\ call[s] \in Request
  BY <1>1, PhaseFacts
<1>3. /\ c \in Request /\ c.phase = "authorized" /\ c.route = "admin"
      /\ c.claims = call[s].claims /\ c.since = call[s].since
  BY <1>1, <1>2 DEF Request
<1> HIDE DEF c
<1>4. RequestFresh(c, now)
  BY <1>2, <1>3 DEF RequestFresh, Progress
<1>. QED  BY <1>1, <1>4, StepKeeps

-----------------------------------------------------------------------------
(* The views. *)

\* The rows of a view that are there now, and the ghosts of its request.
LEMMA ViewFacts ==
    ASSUME SessionsInv, NEW s \in Sessions, call[s].phase \in {"in", "load", "found"}
    PROVE  /\ call[s] \in Request /\ RequestFresh(call[s], now) /\ Progress(call[s])
           /\ call[s].always \subseteq devices /\ devices \subseteq Devices!Device
           /\ call[s].route \in {"clients/my", "logs/my-device"} =>
                \A d \in devices : d.user_name = call[s].claims.username => d \in call[s].ever
           /\ call[s].route \in {"logs/my-device-paged", "otp"} =>
                \A d \in devices : d.agent_id = call[s].agent => d \in call[s].ever
<1>1. /\ call[s] \in Request /\ RequestFresh(call[s], now) /\ GhostsCurrent(call[s], devices)
      /\ devices \subseteq Devices!Device
  BY PhaseFacts DEF SessionsInv, TablesSound
<1>. QED  BY <1>1 DEF RequestFresh, GhostsCurrent, Concern

\* A request that becomes c keeps what decides about its ghosts.
Keeps(c, b) ==
    /\ c \in Request /\ c.route = b.route /\ c.claims = b.claims /\ c.since = b.since
    /\ c.agent = b.agent /\ c.ever = b.ever /\ c.always = b.always

LEMMA KeepsFresh ==
    ASSUME NEW b, NEW c, RequestFresh(b, now), Keeps(c, b),
           c.phase \notin {"answered", "refused"}, Progress(c)
    PROVE  RequestFresh(c, now)
BY DEF RequestFresh, Keeps

LEMMA ListMyClientsStep ==
    ASSUME SessionsInv, NEW s \in Sessions, ListMyClients(s)
    PROVE  SessionsInv'
<1>1. CASE Step(s, Idle)
  BY <1>1, StepKeeps
<1>2. CASE ~Step(s, Idle)
  <2> DEFINE b == call[s]
             rows(read) == GetClientsByUsername(b.claims, read)
             c(read) == [b EXCEPT !.phase = "answered", !.rows = rows(read),
                                  !.lost = read # devices]
  <2>1. PICK read \in SUBSET devices :
            b.phase = "in" /\ b.route = "clients/my" /\ Step(s, c(read))
    BY <1>2 DEF ListMyClients, ClientGetAll
  <2>2. rows(read) = {d \in read : d.user_name = b.claims.username}
    BY DEF GetClientsByUsername
  <2>3. /\ b \in Request /\ b.logs = {} /\ b.always \subseteq devices
        /\ rows(read) \subseteq b.ever /\ rows(read) \subseteq Devices!Device
    BY <2>1, <2>2, ViewFacts DEF Progress
  <2> HIDE DEF b, rows
  <2>4. /\ Keeps(c(read), b) /\ c(read).phase = "answered" /\ c(read).rows = rows(read)
        /\ c(read).logs = {} /\ c(read).lost = (read # devices)
    BY <2>3 DEF Keeps, Request
  <2> HIDE DEF c
  <2>5. Complete(c(read))
    <3>1. \A d \in rows(read) : WasMine(c(read), d.agent_id)
      BY <2>2, <2>3, <2>4 DEF Keeps, WasMine
    <3>2. \A a \in c(read).logs \cup AgentIdsIn(c(read).rows) : WasMine(c(read), a)
      BY <2>4, <3>1 DEF AgentIdsIn
    <3>3. ~c(read).lost => Mine(c(read)) \subseteq c(read).rows
      <4>1. SUFFICES ASSUME read = devices PROVE Mine(c(read)) \subseteq c(read).rows
        BY <2>4
      <4>. QED  BY <2>2, <2>3, <2>4, <4>1 DEF Keeps, Mine
    <3>. QED  BY <2>1, <2>4, <3>2, <3>3 DEF Complete, Keeps
  <2>. QED  BY <2>1, <2>4, <2>5, StepKeeps
<1>. QED  BY <1>1, <1>2

LEMMA MyDeviceLogStep ==
    ASSUME SessionsInv, NEW s \in Sessions, MyDeviceLog(s)
    PROVE  SessionsInv'
<1>1. CASE Step(s, Idle)
  BY <1>1, StepKeeps
<1>2. CASE ~Step(s, Idle)
  <2> DEFINE b == call[s]
             mine(read) == {d \in read : d.user_name = b.claims.username}
             c(read) == [b EXCEPT !.phase = IF mine(read) = {} THEN "refused" ELSE "load",
                                  !.rows = mine(read), !.lost = read # devices]
  <2>1. PICK read \in SUBSET devices :
            b.phase = "in" /\ b.route = "logs/my-device" /\ Step(s, c(read))
    BY <1>2 DEF MyDeviceLog, ClientGetAll
  <2>2. /\ b \in Request /\ RequestFresh(b, now) /\ b.logs = {} /\ b.always \subseteq devices
        /\ mine(read) \subseteq b.ever /\ mine(read) \subseteq Devices!Device
        /\ read = devices => Mine(b) \subseteq mine(read)
        /\ \A d \in mine(read) : d.user_name = b.claims.username
    BY <2>1, ViewFacts DEF Progress, Mine
  <2> HIDE DEF b, mine
  <2>3. /\ Keeps(c(read), b) /\ c(read).logs = {} /\ c(read).lost = (read # devices)
        /\ c(read).phase = (IF mine(read) = {} THEN "refused" ELSE "load")
        /\ c(read).rows = mine(read)
    BY <2>2 DEF Keeps, Request
  <2> HIDE DEF c
  <2>4. Mine(c(read)) = Mine(b) /\ \A a : WasMine(c(read), a) <=> WasMine(b, a)
    BY <2>3 DEF Keeps, Mine, WasMine
  <2>5. CASE mine(read) = {}
    BY <2>1, <2>2, <2>3, <2>4, <2>5, StepKeeps DEF Complete, Keeps
  <2>6. CASE mine(read) # {}
    <3>1. \A d \in mine(read) : WasMine(c(read), d.agent_id)
      BY <2>2, <2>4 DEF WasMine
    <3>2. Progress(c(read))
      BY <2>1, <2>2, <2>3, <2>4, <2>6, <3>1 DEF Progress, Keeps
    <3>. QED  BY <2>1, <2>2, <2>3, <2>6, <3>2, KeepsFresh, StepKeeps
  <2>. QED  BY <2>5, <2>6
<1>. QED  BY <1>1, <1>2

LEMMA MyDeviceLogPagedStep ==
    ASSUME SessionsInv, NEW s \in Sessions, MyDeviceLogPaged(s)
    PROVE  SessionsInv'
<1>1. CASE Step(s, Idle)
  BY <1>1, StepKeeps
<1>2. CASE ~Step(s, Idle)
  <2> DEFINE b == call[s]
             mine(read) == {d \in GetClientsByUsername(b.claims, read) : d.agent_id = b.agent}
             c(read) == [b EXCEPT !.phase = IF mine(read) = {} THEN "refused" ELSE "load",
                                  !.rows = mine(read), !.lost = read # devices]
  <2>1. PICK read \in SUBSET devices :
            b.phase = "in" /\ b.route = "logs/my-device-paged" /\ Step(s, c(read))
    BY <1>2 DEF MyDeviceLogPaged, ClientGetAll
  <2>2. mine(read) =
          {d \in read : d.user_name = b.claims.username /\ d.agent_id = b.agent}
    BY DEF GetClientsByUsername
  <2>3. /\ b \in Request /\ RequestFresh(b, now) /\ b.logs = {} /\ b.always \subseteq devices
        /\ mine(read) \subseteq b.ever /\ mine(read) \subseteq Devices!Device
    BY <2>1, <2>2, ViewFacts DEF Progress
  <2> HIDE DEF b, mine
  <2>4. /\ Keeps(c(read), b) /\ c(read).logs = {} /\ c(read).lost = (read # devices)
        /\ c(read).phase = (IF mine(read) = {} THEN "refused" ELSE "load")
        /\ c(read).rows = mine(read)
    BY <2>3 DEF Keeps, Request
  <2> HIDE DEF c
  <2>5. CASE mine(read) = {}
    <3>1. ~c(read).lost => c(read).agent \notin AgentIdsIn(Mine(c(read)))
      BY <2>2, <2>3, <2>4, <2>5 DEF Keeps, AgentIdsIn, Mine
    <3>. QED  BY <2>1, <2>4, <2>5, <3>1, StepKeeps DEF Complete, Keeps
  <2>6. CASE mine(read) # {}
    <3>1. \A d \in mine(read) : WasMine(c(read), d.agent_id)
      BY <2>2, <2>3, <2>4 DEF WasMine, Keeps
    <3>2. Progress(c(read))
      BY <2>1, <2>4, <2>6, <3>1 DEF Progress, Keeps
    <3>. QED  BY <2>1, <2>3, <2>4, <2>6, <3>2, KeepsFresh, StepKeeps
  <2>. QED  BY <2>5, <2>6
<1>. QED  BY <1>1, <1>2

\* A load moves one device from the rows to load to the logs, or loses its log.
LEMMA LoadLogStep ==
    ASSUME SessionsInv, NEW s \in Sessions, LoadLog(s)
    PROVE  SessionsInv'
<1> DEFINE b == call[s]
           c1(d) == [b EXCEPT !.rows = @ \ {d}, !.logs = @ \cup {d.agent_id}]
           c2(d) == [b EXCEPT !.rows = @ \ {d}, !.lost = TRUE]
<1>1. PICK d \in b.rows :
          b.phase = "load" /\ (Step(s, c1(d)) \/ Step(s, c2(d)) \/ Step(s, Idle))
  BY DEF LoadLog
<1>2. b \in Request /\ RequestFresh(b, now) /\ Progress(b)
  BY <1>1, ViewFacts
<1>3. d.agent_id \in AgentIDs
  BY <1>1, <1>2, RequestFacts DEF Devices!Device
<1> HIDE DEF b
<1>4. /\ Keeps(c1(d), b) /\ c1(d).phase = "load" /\ c1(d).rows = b.rows \ {d}
      /\ c1(d).logs = b.logs \cup {d.agent_id} /\ c1(d).lost = b.lost
  BY <1>1, <1>2, <1>3 DEF Keeps, Request
<1>5. /\ Keeps(c2(d), b) /\ c2(d).phase = "load" /\ c2(d).rows = b.rows \ {d}
      /\ c2(d).logs = b.logs /\ c2(d).lost = TRUE
  BY <1>1, <1>2 DEF Keeps, Request
<1> HIDE DEF c1, c2
<1>6. Progress(c1(d))
  BY <1>1, <1>2, <1>4 DEF Progress, Keeps, WasMine, Mine
<1>7. Progress(c2(d))
  BY <1>1, <1>2, <1>5 DEF Progress, Keeps, WasMine, Mine
<1>8. RequestFresh(c1(d), now) /\ RequestFresh(c2(d), now)
  BY <1>2, <1>4, <1>5, <1>6, <1>7, KeepsFresh
<1>. QED  BY <1>1, <1>8, StepKeeps

LEMMA AnswerLogStep ==
    ASSUME SessionsInv, NEW s \in Sessions, AnswerLog(s)
    PROVE  SessionsInv'
<1> DEFINE b == call[s]
           c == [b EXCEPT !.phase = "answered"]
<1>1. b.phase = "load" /\ b.rows = {} /\ Step(s, c)
  BY DEF AnswerLog
<1>2. b \in Request /\ Progress(b)
  BY <1>1, ViewFacts
<1> HIDE DEF b
<1>3. /\ Keeps(c, b) /\ c.phase = "answered" /\ c.rows = {} /\ c.logs = b.logs
      /\ c.lost = b.lost
  BY <1>1, <1>2 DEF Keeps, Request
<1> HIDE DEF c
<1>4. Complete(c)
  BY <1>1, <1>2, <1>3 DEF Complete, Progress, Keeps, WasMine, Mine, AgentIdsIn
<1>. QED  BY <1>1, <1>3, <1>4, StepKeeps

LEMMA FindOtpClientStep ==
    ASSUME SessionsInv, NEW s \in Sessions, FindOtpClient(s)
    PROVE  SessionsInv'
<1> DEFINE b == call[s]
           rows == RowsOfAgent(b.agent)
           found == [b EXCEPT !.phase = "found", !.rows = rows]
           refused == [b EXCEPT !.phase = "refused", !.lost = rows # {}]
<1>1. /\ b.phase = "in" /\ b.route = "otp"
      /\ (rows # {} /\ Step(s, found)) \/ Step(s, refused)
  BY DEF FindOtpClient
<1>2. rows = {d \in devices : d.agent_id = b.agent}
  BY DEF RowsOfAgent
<1>3. /\ b \in Request /\ RequestFresh(b, now) /\ b.always \subseteq devices
      /\ rows \subseteq Devices!Device /\ rows \subseteq b.ever
  BY <1>1, <1>2, ViewFacts
<1> HIDE DEF b, rows
<1>4. /\ Keeps(found, b) /\ found.rows = rows /\ found.phase = "found"
      /\ Keeps(refused, b) /\ refused.phase = "refused" /\ refused.lost = (rows # {})
  BY <1>3 DEF Keeps, Request
<1> HIDE DEF found, refused
<1>5. ~refused.lost => refused.agent \notin AgentIdsIn(refused.always)
  BY <1>2, <1>3, <1>4 DEF Keeps, AgentIdsIn
<1>6. CASE Step(s, refused)
  BY <1>1, <1>4, <1>5, <1>6, StepKeeps DEF Complete, Keeps
<1>7. CASE rows # {} /\ Step(s, found)
  <2>1. Progress(found)
    BY <1>1, <1>2, <1>3, <1>4 DEF Progress, Keeps
  <2>. QED  BY <1>1, <1>3, <1>4, <1>7, <2>1, KeepsFresh, StepKeeps
<1>. QED  BY <1>1, <1>6, <1>7

LEMMA AnswerOtpStep ==
    ASSUME SessionsInv, NEW s \in Sessions, AnswerOtp(s)
    PROVE  SessionsInv'
<1> DEFINE b == call[s]
           c(d) == [b EXCEPT !.phase = "answered", !.code = GetTOTPWithExpire(d.client_id)]
<1>1. PICK d \in b.rows : b.phase = "found" /\ Step(s, c(d))
  BY DEF AnswerOtp
<1>2. /\ b \in Request /\ b.route = "otp" /\ d \in b.ever /\ d.agent_id = b.agent
      /\ b.since <= now /\ now <= b.since + MaxWait
  BY <1>1, ViewFacts DEF Progress, RequestFresh
<1>3. GetTOTPWithExpire(d.client_id) \in Code
  <2>1. d.client_id \in Nat
    BY <1>1, <1>2, RequestFacts DEF Devices!Device
  <2>2. now \in Nat /\ Period \in Nat \ {0}
    BY DEF SessionsInv, TablesSound, Times
  <2>3. now \div Period \in Nat /\ now % Period \in 0..(Period - 1)
    BY <2>2
  <2>. QED  BY <2>1, <2>2, <2>3 DEF GetTOTPWithExpire, Code
<1> HIDE DEF b
<1>4. /\ Keeps(c(d), b) /\ c(d).phase = "answered"
      /\ c(d).code = GetTOTPWithExpire(d.client_id)
  BY <1>2, <1>3 DEF Keeps, Request
<1> HIDE DEF c
<1>5. /\ c(d).code.client_id = d.client_id /\ c(d).code.step = now \div Period
      /\ c(d).code.expire_in = Period - (now % Period)
  BY <1>4 DEF GetTOTPWithExpire
<1>6. now \in b.since..(b.since + MaxWait)
  BY <1>2, RequestFacts DEF SessionsInv, TablesSound, Times
<1>7. Complete(c(d))
  BY <1>2, <1>4, <1>5, <1>6 DEF Complete, Keeps
<1>. QED  BY <1>1, <1>4, <1>7, StepKeeps

-----------------------------------------------------------------------------
(* The tables, and time. *)

\* A step of one of the tables keeps both well formed.
LEMMA TableStep ==
    ASSUME TablesSound, UNCHANGED now,
           \/ Accounts!Next /\ created' <= MaxCreated /\ UNCHANGED <<devices, enrolled>>
           \/ Devices!Next /\ enrolled' <= MaxEnrolled /\ UNCHANGED <<accounts, created>>
           \/ UNCHANGED tables
    PROVE  TablesSound'
<1>1. ASSUME Accounts!Next, created' <= MaxCreated, UNCHANGED <<devices, enrolled>>
      PROVE  TablesSound'
  <2>1. PICK u \in Usernames :
          \/ \E p \in Passwords, role \in Accounts!Roles :
                Accounts!Create(u, p, role) \/ Accounts!Change(u, p, role)
          \/ Accounts!Remove(u)
    BY <1>1 DEF Accounts!Next
  <2>2. /\ accounts \in [Usernames -> Accounts!Account \cup {NULL}] /\ created \in Nat \ {0}
        /\ \A v \in Usernames : accounts[v] # NULL => accounts[v].id \in 1..created
    BY DEF TablesSound
  <2>3. ASSUME NEW p \in Passwords, NEW role \in Accounts!Roles, Accounts!Create(u, p, role)
        PROVE  TablesSound'
    <3>1. /\ created' = created + 1
          /\ accounts' = [accounts EXCEPT ![u] = [id |-> created + 1, password |-> p,
                                                  role |-> role]]
      BY <2>3 DEF Accounts!Create
    <3>2. [id |-> created + 1, password |-> p, role |-> role] \in Accounts!Account
      BY <2>2 DEF Accounts!Account
    <3>. QED  BY <1>1, <2>2, <3>1, <3>2 DEF TablesSound
  <2>4. ASSUME NEW p \in Passwords, NEW role \in Accounts!Roles, Accounts!Change(u, p, role)
        PROVE  TablesSound'
    <3> DEFINE new == [accounts[u] EXCEPT !.password = p, !.role = role]
    <3>1. /\ accounts[u] \in Accounts!Account /\ created' = created
          /\ accounts' = [accounts EXCEPT ![u] = new]
      BY <2>4 DEF Accounts!Change
    <3>2. new \in Accounts!Account /\ new.id = accounts[u].id
      BY <3>1 DEF Accounts!Account
    <3>3. accounts[u] # NULL
      BY <3>1, AccountAssumption
    <3> HIDE DEF new
    <3>4. accounts' \in [Usernames -> Accounts!Account \cup {NULL}]
      BY <2>2, <3>1, <3>2
    <3>5. \A v \in Usernames : accounts'[v] # NULL => accounts'[v].id \in 1..created
      BY <2>2, <3>1, <3>2, <3>3
    <3>. QED  BY <1>1, <3>1, <3>4, <3>5 DEF TablesSound
  <2>5. CASE Accounts!Remove(u)
    BY <1>1, <2>2, <2>5 DEF Accounts!Remove, TablesSound
  <2>. QED  BY <2>1, <2>3, <2>4, <2>5
<1>2. ASSUME Devices!Next, enrolled' <= MaxEnrolled, UNCHANGED <<accounts, created>>
      PROVE  TablesSound'
  <2>1. ASSUME NEW a \in AgentIDs, Devices!Enrol(a)  PROVE TablesSound'
    <3>1. enrolled \in Nat
      BY DEF TablesSound
    <3>2. [client_id |-> enrolled + 1, agent_id |-> a, user_name |-> NULL] \in Devices!Device
      BY <3>1 DEF Devices!Device
    <3>. QED  BY <1>2, <2>1, <3>1, <3>2 DEF Devices!Enrol, TablesSound
  <2>2. ASSUME NEW d \in devices, NEW u \in Usernames, Devices!Assign(d, u)  PROVE TablesSound'
    <3>1. [d EXCEPT !.user_name = u] \in Devices!Device
      BY DEF TablesSound, Devices!Device
    <3>. QED  BY <1>2, <2>2, <3>1 DEF Devices!Assign, TablesSound
  <2>3. ASSUME NEW d \in devices, Devices!Remove(d)  PROVE TablesSound'
    BY <1>2, <2>3 DEF Devices!Remove, TablesSound
  <2>. QED  BY <1>2, <2>1, <2>2, <2>3 DEF Devices!Next
<1>3. CASE UNCHANGED tables
  BY <1>3 DEF tables, TablesSound
<1>. QED  BY <1>1, <1>2, <1>3

\* The requests that change a table, and what happens elsewhere.
LEMMA WriteStep ==
    ASSUME SessionsInv,
           \/ \E s \in Sessions : AdminOfUsers(s) \/ AdminOfDevices(s) \/ ChangeRequest(s)
           \/ Elsewhere
    PROVE  SessionsInv'
<1>1. TablesSound
  BY DEF SessionsInv
<1>2. ASSUME NEW s \in Sessions, AdminOfUsers(s) \/ AdminOfDevices(s) \/ ChangeRequest(s)
      PROVE  SessionsInv'
  <2> DEFINE c == [call EXCEPT ![s] = Idle]
  <2>1. UNCHANGED now /\ Settle(token, c)
    BY <1>2 DEF AdminOfUsers, AdminOfDevices, ChangeRequest, Done
  <2>2. TablesSound'
    <3>1. created \in Nat /\ enrolled \in 0..MaxEnrolled /\ created \in 1..MaxCreated
      BY <1>1 DEF TablesSound
    <3>2. CASE AdminOfUsers(s)
      <4>1. ASSUME NEW u \in Usernames, NEW p \in Passwords, created < MaxCreated,
                   Accounts!Create(u, p, "user")
            PROVE  Accounts!Next /\ created' <= MaxCreated
        <5>1. "user" \in Accounts!Roles
          BY DEF Accounts!Roles
        <5>2. created' = created + 1
          BY <4>1 DEF Accounts!Create
        <5>3. Accounts!Next
          BY <4>1, <5>1 DEF Accounts!Next
        <5>. QED  BY <3>1, <4>1, <5>2, <5>3
      <4>2. ASSUME NEW u \in Usernames, Accounts!Remove(u)
            PROVE  Accounts!Next /\ created' <= MaxCreated
        <5>1. created' = created
          BY <4>2 DEF Accounts!Remove
        <5>2. Accounts!Next
          BY <4>2 DEF Accounts!Next
        <5>. QED  BY <3>1, <5>1, <5>2
      <4>. QED  BY <1>1, <2>1, <3>2, <4>1, <4>2, TableStep DEF AdminOfUsers, tables
    <3>3. CASE AdminOfDevices(s)
      <4>1. PICK d \in devices :
              Devices!Remove(d) \/ \E u \in Usernames : Devices!Assign(d, u)
        BY <3>3 DEF AdminOfDevices
      <4>2. Devices!Next /\ enrolled' <= MaxEnrolled
        BY <3>1, <4>1 DEF Devices!Next, Devices!Remove, Devices!Assign
      <4>. QED  BY <1>1, <2>1, <3>3, <4>2, TableStep DEF AdminOfDevices
    <3>4. CASE ChangeRequest(s)
      <4>1. ASSUME NEW u \in Usernames, NEW p \in Passwords, NEW role \in Accounts!Roles,
                   Accounts!Change(u, p, role)
            PROVE  Accounts!Next /\ created' <= MaxCreated
        <5>1. created' = created
          BY <4>1 DEF Accounts!Change
        <5>2. Accounts!Next
          BY <4>1 DEF Accounts!Next
        <5>. QED  BY <3>1, <5>1, <5>2
      <4>. QED  BY <1>1, <2>1, <3>4, <4>1, TableStep DEF ChangeRequest, tables
    <3>. QED  BY <1>2, <3>2, <3>3, <3>4
  <2>3. \A r \in Sessions : c[r] = Idle \/ c[r] = call[r]
    BY DEF SessionsInv
  <2> HIDE DEF c
  <2>. QED  BY <2>1, <2>2, <2>3, TablesKeep
<1>3. CASE Elsewhere
  <2>1. TablesSound'
    BY <1>1, <1>3, TableStep DEF Elsewhere
  <2>. QED  BY <1>3, <2>1, TablesKeep DEF Elsewhere
<1>. QED  BY <1>2, <1>3

\* A tick waits for the requests that took MaxWait already.
LEMMA TickStep == SessionsInv /\ Tick => SessionsInv'
<1> SUFFICES ASSUME SessionsInv, Tick PROVE SessionsInv'
  OBVIOUS
<1>1. /\ now' = now + 1 /\ UNCHANGED <<accounts, created, devices, enrolled>>
      /\ Settle(token, call) /\ now \in Nat
      /\ \A s \in Sessions : InFlight(s) => now - call[s].since < MaxWait
  BY DEF Tick, tables, SessionsInv, TablesSound, Times
<1>2. TablesSound'
  BY <1>1 DEF Tick, SessionsInv, TablesSound, Times
<1>3. ASSUME NEW s \in Sessions
      PROVE  /\ token[s] # NULL =>
                  /\ token[s] \in Claims /\ token[s].exp <= now' + Lifetime
                  /\ token[s].lapsed # NULL => token[s].exp <= token[s].lapsed + MaxWait + Lifetime
             /\ \/ call[s] = Idle
                \/ LoginFresh(call[s], now')
                \/ RequestFresh(call[s], now')
                \/ call[s].phase \in {"answered", "refused"} /\ Complete(call[s])
  <2>1. token[s] # NULL =>
           /\ token[s] \in Claims /\ token[s].exp <= now' + Lifetime
           /\ token[s].lapsed # NULL => token[s].exp <= token[s].lapsed + MaxWait + Lifetime
    BY <1>1, ClaimsFacts DEF SessionsInv, ClaimsLimited
  <2>2. LoginFresh(call[s], now) => LoginFresh(call[s], now')
    <3> SUFFICES ASSUME LoginFresh(call[s], now) PROVE LoginFresh(call[s], now')
      OBVIOUS
    <3>1. InFlight(s) /\ call[s].since \in Nat
      BY DEF LoginFresh, Login, InFlight, Times
    <3>. QED  BY <1>1, <3>1 DEF LoginFresh
  <2>3. RequestFresh(call[s], now) => RequestFresh(call[s], now')
    <3> SUFFICES ASSUME RequestFresh(call[s], now) PROVE RequestFresh(call[s], now')
      OBVIOUS
    <3>1. InFlight(s) /\ call[s] \in Request /\ call[s].since \in Nat
      BY RequestFacts DEF RequestFresh, Request, InFlight
    <3>2. now - call[s].since < MaxWait
      BY <1>1, <3>1
    <3>3. call[s].since <= now' /\ now' <= call[s].since + MaxWait
      BY <1>1, <3>1, <3>2 DEF RequestFresh
    <3>4. ClaimsLimited(call[s].claims, now')
      BY <1>1, <3>1, RequestFacts, ClaimsFacts DEF RequestFresh, ClaimsLimited
    <3>. QED  BY <3>3, <3>4 DEF RequestFresh
  <2>. QED  BY <2>1, <2>2, <2>3 DEF SessionsInv, CallSound
<1>. QED  BY <1>1, <1>2, <1>3, SettleKeeps

LEMMA IdleStep ==
    ASSUME SessionsInv, NEW s \in Sessions, LookUpClients(s) \/ Take(s)
    PROVE  SessionsInv'
BY StepKeeps DEF LookUpClients, Take

LEMMA SessionsStep == SessionsInv /\ [Next]_vars => SessionsInv'
<1> SUFFICES ASSUME SessionsInv, [Next]_vars PROVE SessionsInv'
  OBVIOUS
<1>1. ASSUME NEW s \in Sessions,
             \/ \E u \in Usernames, p \in Passwords : LoginRead(s, u, p)
             \/ LoginIssue(s)
             \/ \E route \in Routes : Enter(s, route)
             \/ Refuse(s) \/ Authorize(s)
      PROVE  SessionsInv'
  BY <1>1, LoginReadStep, LoginIssueStep, EnterStep, RefuseStep, AuthorizeStep
<1>2. ASSUME NEW s \in Sessions,
             \/ LookUpClients(s) \/ ListMyClients(s) \/ MyDeviceLog(s) \/ MyDeviceLogPaged(s)
             \/ LoadLog(s) \/ AnswerLog(s) \/ FindOtpClient(s) \/ AnswerOtp(s) \/ Take(s)
      PROVE  SessionsInv'
  BY <1>2, IdleStep, ListMyClientsStep, MyDeviceLogStep, MyDeviceLogPagedStep, LoadLogStep,
     AnswerLogStep, FindOtpClientStep, AnswerOtpStep
<1>3. CASE UNCHANGED vars
  BY <1>3 DEF vars, tables, SessionsInv, TablesSound
<1>. QED  BY <1>1, <1>2, <1>3, WriteStep, TickStep DEF Next

-----------------------------------------------------------------------------
(* The theorems. *)

LEMMA SessionsInvariant == Spec => []SessionsInv
BY InitSessions, SessionsStep, PTL DEF Spec

\* Types: the two tables, the clock, the tokens and the requests.
THEOREM TypeCorrect == Spec => []TypeOK
<1>1. SessionsInv => TypeOK
  BY DEF SessionsInv, TablesSound, CallSound, TypeOK, LoginFresh, RequestFresh, Complete
<1>. QED  BY SessionsInvariant, <1>1, PTL

\* jwt.go: a token outlives what it says by its lifetime and two waits at most,
\* whoever changes the accounts meanwhile.
THEOREM ClaimsLapse == Spec => []OldClaimsLapse
<1>1. ASSUME SessionsInv  PROVE OldClaimsLapse
  <2> SUFFICES ASSUME NEW s \in Sessions, InFlight(s), call[s].phase # "login",
                      call[s].claims.lapsed # NULL
               PROVE  now - call[s].claims.lapsed < Lifetime + 2 * MaxWait
    BY DEF OldClaimsLapse
  <2>1. RequestFresh(call[s], now)
    BY <1>1 DEF SessionsInv, CallSound, InFlight, Idle, LoginFresh, Login
  <2>2. /\ call[s].since \in Nat /\ call[s].claims.exp \in Nat
        /\ call[s].claims.lapsed \in Nat
    BY <2>1, RequestFacts, ClaimsFacts DEF RequestFresh
  <2>3. /\ now <= call[s].since + MaxWait /\ call[s].since < call[s].claims.exp
        /\ call[s].claims.exp <= call[s].claims.lapsed + MaxWait + Lifetime
        /\ now \in Nat
    BY <1>1, <2>1 DEF RequestFresh, ClaimsLimited, SessionsInv, TablesSound, Times
  <2>. QED  BY <2>2, <2>3
<1>. QED  BY SessionsInvariant, <1>1, PTL

\* log_handler.go, client_handler.go: the reads of a view may see different
\* tables, but nothing is shown that was never the user's.
THEOREM ViewsWereAssigned == Spec => []ViewWasAssigned
<1>1. SessionsInv => ViewWasAssigned
  <2> SUFFICES ASSUME SessionsInv, NEW s \in Sessions, Answered(s, Views \ {"otp"})
               PROVE  \A a \in call[s].logs \cup AgentIdsIn(call[s].rows) : WasMine(call[s], a)
    BY DEF ViewWasAssigned, WasMine
  <2>. QED  BY PhaseFacts DEF Answered, Complete
<1>. QED  BY SessionsInvariant, <1>1, PTL

\* And nothing that was the user's throughout is left out or refused, but for a
\* statement, a scan or a load that fails.
THEOREM ViewsAreComplete == Spec => []ViewIsComplete
<1>1. SessionsInv => ViewIsComplete
  <2> SUFFICES ASSUME SessionsInv, NEW s \in Sessions,
                      call[s].phase \in {"answered", "refused"}, ~call[s].lost
               PROVE  LET c == call[s] IN
                      /\ Answered(s, {"clients/my"}) => Mine(c) \subseteq c.rows
                      /\ Answered(s, {"logs/my-device"}) =>
                           \A d \in Mine(c) : d.agent_id \in c.logs
                      /\ c.phase = "refused" =>
                           CASE c.route = "logs/my-device" -> Mine(c) = {}
                             [] c.route = "otp" -> c.agent \notin AgentIdsIn(c.always)
                             [] OTHER -> c.agent \notin AgentIdsIn(Mine(c))
    BY DEF ViewIsComplete, Mine
  <2>. QED  BY PhaseFacts DEF Answered, Complete
<1>. QED  BY SessionsInvariant, <1>1, PTL

\* Division by the period: the numbers p * q to p * q + p - 1 are those of step q.
LEMMA DivFacts ==
    ASSUME NEW p \in Nat \ {0}, NEW n \in Nat
    PROVE  /\ n = p * (n \div p) + (n % p) /\ n % p \in 0..(p - 1) /\ n \div p \in Nat
OBVIOUS

LEMMA StepOf ==
    ASSUME NEW p \in Nat \ {0}, NEW q \in Nat, NEW r \in 0..(p - 1)
    PROVE  (p * q + r) \div p = q
<1> DEFINE n == p * q + r
           k == n \div p
<1>1. n \in Nat
  BY Z3
<1>2. n = p * k + (n % p) /\ n % p \in 0..(p - 1) /\ k \in Nat
  BY <1>1, DivFacts
<1> HIDE DEF k
<1>3. ASSUME k < q  PROVE FALSE
  <2>1. p * (k + 1) <= p * q
    BY <1>2, <1>3
  <2>. QED  BY <1>2, <2>1
<1>4. ASSUME q < k  PROVE FALSE
  <2>1. p * (q + 1) <= p * k
    BY <1>2, <1>4
  <2>. QED  BY <1>2, <2>1
<1>. QED  BY <1>2, <1>3, <1>4 DEF k

\* otp.go, otp_service.go: a code is shown with exactly the seconds it has left,
\* at the boundaries of a step too.
THEOREM CodesAreUsable == Spec => []CodeIsUsable
<1>1. ASSUME SessionsInv, NEW s \in Sessions, Answered(s, {"otp"})
      PROVE  LET c == call[s] IN
             /\ \E d \in c.ever : d.agent_id = c.agent /\ d.client_id = c.code.client_id
             /\ \E t \in c.since..(c.since + MaxWait) :
                  /\ c.code.step = t \div Period
                  /\ c.code.step = (t + c.code.expire_in - 1) \div Period
                  /\ c.code.step # (t + c.code.expire_in) \div Period
  <2> DEFINE c == call[s]
  <2>1. /\ c \in Request
        /\ \E d \in c.ever : d.agent_id = c.agent /\ d.client_id = c.code.client_id
        /\ \E t \in c.since..(c.since + MaxWait) :
             c.code.step = t \div Period /\ c.code.expire_in = Period - (t % Period)
    BY <1>1, PhaseFacts DEF Answered, Complete
  <2>2. PICK t \in c.since..(c.since + MaxWait) :
             c.code.step = t \div Period /\ c.code.expire_in = Period - (t % Period)
    BY <2>1
  <2>3. t \in Nat /\ Period \in Nat \ {0}
    BY <2>1, RequestFacts
  <2> DEFINE q == t \div Period
             r == t % Period
  <2>4. t = Period * q + r /\ r \in 0..(Period - 1) /\ q \in Nat
    BY <2>3, DivFacts
  <2> HIDE DEF c, q, r
  <2>5. /\ t + (Period - r) - 1 = Period * q + (Period - 1)
        /\ t + (Period - r) = Period * (q + 1) + 0
    BY <2>3, <2>4
  <2>6. (Period * q + (Period - 1)) \div Period = q
    BY <2>3, <2>4, StepOf
  <2>7. (Period * (q + 1) + 0) \div Period = q + 1
    BY <2>3, <2>4, StepOf
  <2>8. /\ c.code.step = q /\ c.code.expire_in = Period - r
        /\ q # q + 1
    BY <2>2, <2>4 DEF q, r
  <2>9. /\ c.code.step = t \div Period
        /\ c.code.step = (t + c.code.expire_in - 1) \div Period
        /\ c.code.step # (t + c.code.expire_in) \div Period
    BY <2>2, <2>5, <2>6, <2>7, <2>8
  <2>. QED  BY <2>1, <2>9 DEF c
<1>2. SessionsInv => CodeIsUsable
  BY <1>1 DEF CodeIsUsable
<1>. QED  BY SessionsInvariant, <1>2, PTL
=============================================================================
