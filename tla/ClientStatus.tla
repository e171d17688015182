---------------------------- MODULE ClientStatus ----------------------------
(***************************************************************************)
(* The online flag and last_seen of the rows of managed_clients: the hello *)
(* handler of the TCP server, the status loop UpdateAgentStatusAndLog and  *)
(* the API requests that rewrite, add or delete rows while they run.       *)
(*                                                                         *)
(* Time is kept as ages: the entry of helloLastSeen and every copy of a    *)
(* last_seen count the ticks since the hello they record.  An age above    *)
(* Window (30 s) is Stale, and all stale ages are one.                     *)
(***************************************************************************)
EXTENDS ClientStore

CONSTANTS AgentIDs,          \* the agent ids in use
          Users,             \* user names an administrator assigns
          Admins,            \* concurrent assign requests of the HTTP API
          Window,            \* ticks in the 30 s after which a hello is stale
          MaxRegistrations,  \* bound on the client ids generated
          MaxRestarts        \* bound on restarts of the server

ASSUME StatusAssumption ==
    /\ AgentIDs \subseteq Nat
    /\ Window \in Nat
    /\ MaxRegistrations \in Nat /\ MaxRestarts \in Nat
    /\ NULL \notin Nat \cup Users

VARIABLES
    clients,        \* the table managed_clients
    helloLastSeen,  \* tcpserver.go: age of the last hello of each agent id
    hello,          \* hello handlers between AgentExists and the map write
    monitor,        \* where the status loop is
    snapshot,       \* the status loop's slice clients
    assign,         \* each administrator's assign request
    holders,        \* ghost: the ids every registration gave to a device
    greeted,        \* ghost: the client ids whose device ever sent a hello
    restarts        \* how often the server was restarted

vars == <<clients, helloLastSeen, hello, monitor, snapshot, assign,
          holders, greeted, restarts>>

Stale == Window + 1
Ages  == 0..Stale
Ids   == [client_id : Nat, agent_id : AgentIDs]
Row   == [client_id : Nat, agent_id : AgentIDs, user_name : Users \cup {NULL},
          last_seen : Ages \cup {NULL}, online : BOOLEAN]

\* The columns ClientUpdate may write in an assign request.
Fields == {"user_name", "last_seen", "online"}

Idle == [phase |-> "idle"]
AssignRequest ==
    {Idle} \cup [phase : {"found"}, client : Row]
           \cup [phase : {"update"}, client : Row, fields : SUBSET Fields]

TypeOK ==
    /\ clients \subseteq Row
    /\ helloLastSeen \in [AgentIDs -> Ages \cup {NULL}]
    /\ hello \subseteq holders
    /\ monitor \in {"load", "compute", "write"}
    /\ snapshot \subseteq Row
    /\ assign \in [Admins -> AssignRequest]
    /\ holders \subseteq Ids
    /\ greeted \subseteq Nat
    /\ restarts \in 0..MaxRestarts

Init ==
    /\ clients = {}
    /\ helloLastSeen = [a \in AgentIDs |-> NULL]
    /\ hello = {}
    /\ monitor = "load"
    /\ snapshot = {}
    /\ assign = [m \in Admins |-> Idle]
    /\ holders = {}
    /\ greeted = {}
    /\ restarts = 0

-----------------------------------------------------------------------------
(* Time. *)

Older(age) == IF age \in 0..Window THEN age + 1 ELSE age
OlderRow(r) == [r EXCEPT !.last_seen = Older(@)]

Tick ==
    /\ helloLastSeen' = [a \in AgentIDs |-> Older(helloLastSeen[a])]
    /\ clients' = {OlderRow(r) : r \in clients}
    /\ snapshot' = {OlderRow(r) : r \in snapshot}
    /\ assign' = [m \in Admins |->
                    IF assign[m] = Idle THEN Idle
                    ELSE [assign[m] EXCEPT !.client = OlderRow(@)]]
    /\ UNCHANGED <<hello, monitor, holders, greeted, restarts>>

-----------------------------------------------------------------------------
(* The TCP server. *)

\* A register request saves a row under agent id a, which the allocation may
\* give out again while an older device still uses it (see ClientRegistry).
Register(a) ==
    LET new == [client_id |-> Cardinality(holders) + 1, agent_id |-> a,
                user_name |-> NULL, last_seen |-> NULL, online |-> FALSE]
    IN  /\ Cardinality(holders) < MaxRegistrations
        /\ clients' = InsertOrReplace(clients, new)
        /\ holders' = holders \cup {[client_id |-> new.client_id, agent_id |-> a]}
        /\ UNCHANGED <<helloLastSeen, hello, monitor, snapshot, assign, greeted, restarts>>

\* Request type "hello": AgentExists first; a hello that is refused changes
\* nothing, and the client ignores the answer.
HelloCheck(h) ==
    /\ h \notin hello
    /\ AgentExists(clients, h.agent_id)
    /\ hello' = hello \cup {h}
    /\ greeted' = greeted \cup {h.client_id}
    /\ UNCHANGED <<clients, helloLastSeen, monitor, snapshot, assign, holders, restarts>>

\* Then the entry of the map, under helloLastSeenMu.
HelloRecord(h) ==
    /\ h \in hello
    /\ hello' = hello \ {h}
    /\ helloLastSeen' = [helloLastSeen EXCEPT ![h.agent_id] = 0]
    /\ UNCHANGED <<clients, monitor, snapshot, assign, holders, greeted, restarts>>

\* Variants for mutation runs: the age of the entry is not looked at; an agent
\* without an entry counts as online; the comparison is inverted.
IsOnlineEver(a) == helloLastSeen[a] # NULL
IsOnlineByDefault(a) == helloLastSeen[a] # Stale
IsOnlineInverted(a) == helloLastSeen[a] = Stale

\* isOnline := ok && now.Sub(last) <= 30*time.Second
IsOnline(a) == helloLastSeen[a] \in 0..Window

\* Variant for a mutation run: the time of the pass, not of the hello.
SeenNow(a) == 0

\* last.Format(...)
SeenAt(a) == helloLastSeen[a]

\* UpdateAgentStatusAndLog reads the table,
MonitorLoad ==
    /\ monitor = "load"
    /\ snapshot' = clients
    /\ monitor' = "compute"
    /\ UNCHANGED <<clients, helloLastSeen, hello, assign, holders, greeted, restarts>>

\* computes the status of every row it read while it holds the read lock,
MonitorCompute ==
    /\ monitor = "compute"
    /\ snapshot' = {[r EXCEPT !.online = IsOnline(r.agent_id),
                              !.last_seen = IF IsOnline(r.agent_id)
                                            THEN SeenAt(r.agent_id) ELSE @]
                      : r \in snapshot}
    /\ monitor' = "write"
    /\ UNCHANGED <<clients, helloLastSeen, hello, assign, holders, greeted, restarts>>

\* and writes them one by one; after the last one it sleeps and starts over.
MonitorWrite ==
    /\ monitor = "write"
    /\ IF snapshot = {}
       THEN /\ monitor' = "load"
            /\ UNCHANGED <<clients, snapshot>>
       ELSE \E r \in snapshot :
            /\ clients' = UpdateClientStatus(clients, r.agent_id, r.online, r.last_seen)
            /\ snapshot' = snapshot \ {r}
            /\ UNCHANGED monitor
    /\ UNCHANGED <<helloLastSeen, hello, assign, holders, greeted, restarts>>

Monitor == MonitorLoad \/ MonitorCompute \/ MonitorWrite

-----------------------------------------------------------------------------
(* The HTTP API. *)

\* AssignUserToClientByAgentID or ByClientID finds the client and sets the user
\* name in its copy; when there is none the request ends with an error.
AssignFind(m, u) ==
    /\ assign[m] = Idle
    /\ \E r \in clients :
        assign' = [assign EXCEPT ![m] = [phase |-> "found",
                                         client |-> [r EXCEPT !.user_name = u]]]
    /\ UNCHANGED <<clients, helloLastSeen, hello, monitor, snapshot, holders, greeted, restarts>>

\* The columns of the copy that ClientUpdate finds different from the row.
ChangedFields(client, existing) ==
    {f \in Fields :
        /\ client[f] # existing[f]
        /\ client[f] # NULL}

\* ClientUpdate reads the row again; without a row, or with nothing to write,
\* the request ends.
AssignReread(m) ==
    /\ assign[m].phase = "found"
    /\ \E existing \in FindByClientID(clients, assign[m].client.client_id) :
        LET client == assign[m].client IN
        assign' = [assign EXCEPT ![m] =
            IF existing = NULL \/ ChangedFields(client, existing) = {} THEN Idle
            ELSE [phase |-> "update", client |-> client,
                  fields |-> ChangedFields(client, existing)]]
    /\ UNCHANGED <<clients, helloLastSeen, hello, monitor, snapshot, holders, greeted, restarts>>

\* Variant for a mutation run: the whole copy is written with INSERT OR REPLACE.
AssignReplace(m) ==
    /\ assign[m].phase = "update"
    /\ clients' = InsertOrReplace(clients, assign[m].client)
    /\ assign' = [assign EXCEPT ![m] = Idle]
    /\ UNCHANGED <<helloLastSeen, hello, monitor, snapshot, holders, greeted, restarts>>

\* UPDATE managed_clients SET <changed columns> WHERE client_id.
AssignUpdate(m) ==
    LET req == assign[m] IN
    /\ req.phase = "update"
    /\ clients' = {IF r.client_id = req.client.client_id
                   THEN [f \in DOMAIN r |-> IF f \in req.fields THEN req.client[f] ELSE r[f]]
                   ELSE r : r \in clients}
    /\ assign' = [assign EXCEPT ![m] = Idle]
    /\ UNCHANGED <<helloLastSeen, hello, monitor, snapshot, holders, greeted, restarts>>

DeleteClient(r) ==
    /\ clients' = DeleteByID(clients, r.client_id)
    /\ UNCHANGED <<helloLastSeen, hello, monitor, snapshot, assign, holders, greeted, restarts>>

\* The server is started again: the table survives, memory does not.
RestartServer ==
    /\ restarts < MaxRestarts
    /\ restarts' = restarts + 1
    /\ helloLastSeen' = [a \in AgentIDs |-> NULL]
    /\ hello' = {}
    /\ monitor' = "load"
    /\ snapshot' = {}
    /\ assign' = [m \in Admins |-> Idle]
    /\ UNCHANGED <<clients, holders, greeted>>

-----------------------------------------------------------------------------
Next ==
    \/ Tick
    \/ \E a \in AgentIDs : Register(a)
    \/ \E h \in holders : HelloCheck(h) \/ HelloRecord(h)
    \/ Monitor
    \/ \E m \in Admins :
        \/ \E u \in Users : AssignFind(m, u)
        \/ AssignReread(m)
        \/ AssignUpdate(m)
    \/ \E r \in clients : DeleteClient(r)
    \/ RestartServer

Spec == Init /\ [][Next]_vars

\* The status loop is a goroutine that never blocks for ever: it runs again
\* and again.  Nothing is assumed of the devices, the API or the clock.
FairSpec == Spec /\ WF_vars(Monitor)

-----------------------------------------------------------------------------
(* Properties. *)

\* A status written from an old copy never invents a sighting: a row is online
\* or carries a last_seen only if some device said hello with its agent id.
StatusHasEvidence ==
    \A r \in clients :
        r.online \/ r.last_seen # NULL =>
            \E h \in holders : h.agent_id = r.agent_id /\ h.client_id \in greeted

\* No row claims a sighting later than the last hello the server recorded for
\* its agent id, unless a restart made the server forget that hello.
LastSeenNotAhead ==
    restarts = 0 =>
        \A r \in clients :
            r.last_seen # NULL =>
                /\ helloLastSeen[r.agent_id] # NULL
                /\ helloLastSeen[r.agent_id] <= r.last_seen

\* The table as the sessions of the API see it.
Devices == INSTANCE DeviceTable WITH
    Usernames <- Users,
    devices   <- {[client_id |-> r.client_id, agent_id |-> r.agent_id,
                   user_name |-> r.user_name] : r \in clients},
    enrolled  <- Cardinality(holders)

\* However the handlers, the requests and the passes of the status loop overlap
\* on their copies, each step enrols, assigns or removes one device or none: a
\* row that is gone is not brought back, and nobody's assignment is undone by a
\* status that was computed from an older copy.
ImplementsDevices == Devices!Spec

HeardLately(a) == helloLastSeen[a] \in 0..Window
ShownOnline(a) == \E r \in clients : r.agent_id = a /\ r.online

\* An agent that has been silent for more than 30 s is shown offline after
\* finitely many steps, or it says hello again.
SilentGoesOffline ==
    \A a \in AgentIDs :
        ~HeardLately(a) ~> (~ShownOnline(a) \/ HeardLately(a))

\* An agent heard within 30 s is shown online, or its 30 s pass or its row is
\* removed first.
GreeterGoesOnline ==
    \A a \in AgentIDs :
        (HeardLately(a) /\ AgentExists(clients, a)) ~>
            (ShownOnline(a) \/ ~HeardLately(a) \/ ~AgentExists(clients, a))

(* A claim the code does not keep. *)

\* tcpserver.go:56 "Agent offline (quá 30s không gửi hello)": a client that has
\* never sent a hello is not shown online.
OnlineClientGreeted ==
    \A r \in clients : r.online => r.client_id \in greeted
=============================================================================
