--------------------------- MODULE ClientRegistry ---------------------------
(***************************************************************************)
(* Registration of devices with the TCP server, the allocation of agent    *)
(* ids and the OTP lookup by agent id.                                     *)
(*                                                                         *)
(* Every accepted connection is served by a goroutine of its own           *)
(* (handleConn), one more goroutine runs the status loop                   *)
(* (UpdateAgentStatusAndLog) and the HTTP API deletes rows.  They share    *)
(* the table managed_clients and the variable nextAgentID.  A request is   *)
(* split where the code gives up the processor between two accesses to     *)
(* shared state: each action below makes at most one access to the table   *)
(* and one to nextAgentID.                                                 *)
(***************************************************************************)
EXTENDS ClientStore

CONSTANTS Conns,             \* goroutines of handleConn
          Devices,           \* client machines, named by their hardware_id
          Monitor,           \* the goroutine of UpdateAgentStatusAndLog
          MaxRegistrations,  \* bound on calls of GenClientID and GenAgentID
          MaxFaults,         \* bound on SQL statements that fail
          MaxRestarts        \* bound on restarts of the server process

ASSUME RegistryAssumption ==
    /\ Monitor \notin Conns
    /\ NULL \notin Conns \cup Devices \cup Nat
    /\ MaxRegistrations \in Nat /\ MaxFaults \in Nat /\ MaxRestarts \in Nat

VARIABLES
    clients,        \* the table managed_clients
    nextAgentID,    \* manager_agent.go: the next agent id to give out
    pc,             \* where each goroutine is
    row,            \* handleConn: newClient or found, of a register request
    next,           \* LoadClients: the local variable next
    otp,            \* handleConn: the OTP request and the client id found for it
    session,        \* the connection each device's client process uses
    config,         \* the ids in each device's configuration file
    registrations,  \* ghost: how many client ids were ever generated
    deleted,        \* ghost: the rows the API has deleted
    unsaved,        \* ghost: the rows whose SaveClient failed
    doomed,         \* client ids that DELETE requests have looked up
    faults,         \* how many SQL statements have failed
    restarts        \* how often the server was restarted

serverVars == <<clients, nextAgentID>>
connVars   == <<pc, row, next, otp>>
deviceVars == <<session, config>>
ghostVars  == <<registrations, deleted, unsaved, doomed, faults, restarts>>
vars == <<serverVars, connVars, deviceVars, ghostVars>>

Procs == Conns \cup {Monitor}

Ids == [client_id : Nat, agent_id : Nat]
Row == [client_id : Nat, agent_id : Nat, hardware_id : Devices]
OtpRequest == [asked : Ids, found : Nat \cup {NULL}]

IdsOf(r) == [client_id |-> r.client_id, agent_id |-> r.agent_id]

\* The types of the variables; a goroutine in the middle of a request has the
\* local values its next step reads.
TypeOK ==
    /\ clients \subseteq Row
    /\ nextAgentID \in Nat \ {0}
    /\ pc \in [Procs -> {"boot", "idle", "gen", "save", "reply", "assign"}]
    /\ \A c \in Conns : pc[c] # "boot"
    /\ pc[Monitor] \in {"boot", "idle", "assign"}
    /\ row \in [Conns -> Row \cup {NULL}]
    /\ \A c \in Conns : pc[c] \in {"gen", "save", "reply"} => row[c] \in Row
    /\ next \in [Procs -> Nat \ {0}]
    /\ otp \in [Conns -> OtpRequest \cup {NULL}]
    /\ \A c \in Conns : pc[c] = "assign" => otp[c] \in OtpRequest
    /\ session \in [Devices -> Conns \cup {NULL}]
    /\ config \in [Devices -> Ids \cup {NULL}]
    /\ registrations \in Nat
    /\ deleted \subseteq Row
    /\ unsaved \subseteq Row
    /\ doomed \subseteq Nat
    /\ faults \in Nat
    /\ restarts \in Nat

Init ==
    /\ clients = {}
    /\ nextAgentID = 1
    /\ pc = [p \in Procs |-> IF p = Monitor THEN "boot" ELSE "idle"]
    /\ row = [c \in Conns |-> NULL]
    /\ next = [p \in Procs |-> 1]
    /\ otp = [c \in Conns |-> NULL]
    /\ session = [d \in Devices |-> NULL]
    /\ config = [d \in Devices |-> NULL]
    /\ registrations = 0
    /\ deleted = {}
    /\ unsaved = {}
    /\ doomed = {}
    /\ faults = 0
    /\ restarts = 0

-----------------------------------------------------------------------------
(* The devices. *)

\* The client process of d starts and dials a connection of its own.  Its
\* configuration file is still there or it is missing or unreadable; only in
\* the second case will the client register.  The connection that an earlier
\* process of d used is abandoned, and its handler may still be running.
StartClient(d, c) ==
    /\ pc[c] = "idle"
    /\ \A e \in Devices : session[e] # c
    /\ session' = [session EXCEPT ![d] = c]
    /\ \/ UNCHANGED config
       \/ config' = [config EXCEPT ![d] = NULL]
    /\ UNCHANGED <<serverVars, connVars, ghostVars>>

-----------------------------------------------------------------------------
(* handleConn, request type "register". *)

\* The register request arrives and FindClientByDevice runs.
Register(c, d) ==
    /\ pc[c] = "idle"
    /\ session[d] = c
    /\ config[d] = NULL
    /\ \E found \in FindClientByDevice(clients, d) :
        IF found = NULL
        THEN /\ row' = [row EXCEPT ![c] = [client_id |-> 0, agent_id |-> 0,
                                           hardware_id |-> d]]
             /\ pc' = [pc EXCEPT ![c] = "gen"]
        ELSE /\ row' = [row EXCEPT ![c] = found]
             /\ pc' = [pc EXCEPT ![c] = "reply"]
    /\ UNCHANGED <<serverVars, next, otp, deviceVars, ghostVars>>

\* Variant for a mutation run: nextAgentID++ comes before the formatting.
PreincrementedRow(c) ==
    [client_id |-> registrations + 1, agent_id |-> nextAgentID + 1,
     hardware_id |-> row[c].hardware_id]

\* newClient: a fresh uuid, the counter's value and the device.
NewClient(c) ==
    [client_id |-> registrations + 1, agent_id |-> nextAgentID,
     hardware_id |-> row[c].hardware_id]

\* GenClientID and GenAgentID, which holds mu.
GenIDs(c) ==
    /\ pc[c] = "gen"
    /\ registrations < MaxRegistrations
    /\ registrations' = registrations + 1
    /\ row' = [row EXCEPT ![c] = NewClient(c)]
    /\ nextAgentID' = nextAgentID + 1
    /\ pc' = [pc EXCEPT ![c] = "save"]
    /\ UNCHANGED <<clients, next, otp, deviceVars, deleted, unsaved,
                   doomed, faults, restarts>>

\* SaveClient.  Its error is dropped: the reply is the same when it failed.
SaveClient(c) ==
    /\ pc[c] = "save"
    /\ \/ /\ clients' = InsertOrReplace(clients, row[c])
          /\ UNCHANGED <<unsaved, faults>>
       \/ /\ faults < MaxFaults
          /\ faults' = faults + 1
          /\ unsaved' = unsaved \cup {row[c]}
          /\ UNCHANGED clients
    /\ pc' = [pc EXCEPT ![c] = "reply"]
    /\ UNCHANGED <<nextAgentID, row, next, otp, deviceVars, registrations,
                   deleted, doomed, restarts>>

\* The reply reaches the device's process, which stores the ids; it is lost
\* when that process no longer uses this connection or its connection broke.
ReplyRegister(c) ==
    LET d == row[c].hardware_id IN
    /\ pc[c] = "reply"
    /\ \/ /\ session[d] = c
          /\ config' = [config EXCEPT ![d] = IdsOf(row[c])]
       \/ UNCHANGED config
    /\ pc' = [pc EXCEPT ![c] = "idle"]
    /\ row' = [row EXCEPT ![c] = NULL]
    /\ UNCHANGED <<serverVars, next, otp, session, ghostVars>>

-----------------------------------------------------------------------------
(* LoadClients, called by request_otp and by the status loop. *)

\* handleConn, request type "request_otp": the rows are read, the client id of
\* the agent is picked from them and LoadClients has computed next.  When the
\* query fails the answer is empty and nothing else happens.
RequestOtp(c, d) ==
    /\ pc[c] = "idle"
    /\ session[d] = c
    /\ config[d] # NULL
    /\ \E found \in FindByAgentID(clients, config[d].agent_id) :
        otp' = [otp EXCEPT ![c] =
                  [asked |-> config[d],
                   found |-> IF found = NULL THEN NULL ELSE found.client_id]]
    /\ next' = [next EXCEPT ![c] = NextAfter(clients)]
    /\ pc' = [pc EXCEPT ![c] = "assign"]
    /\ UNCHANGED <<serverVars, row, deviceVars, ghostVars>>

\* UpdateAgentStatusAndLog at the top of its loop; a failed query leaves
\* nextAgentID as it was, the loop sleeps and comes back ("boot" until a query
\* has succeeded).
MonitorLoad ==
    /\ pc[Monitor] \in {"boot", "idle"}
    /\ \/ /\ next' = [next EXCEPT ![Monitor] = NextAfter(clients)]
          /\ pc' = [pc EXCEPT ![Monitor] = "assign"]
          /\ UNCHANGED faults
       \/ /\ faults < MaxFaults
          /\ faults' = faults + 1
          /\ UNCHANGED <<pc, next>>
    /\ UNCHANGED <<serverVars, row, otp, deviceVars, registrations, deleted,
                   unsaved, doomed, restarts>>

\* The last statement of LoadClients, nextAgentID = next, without holding mu.
\* A connection then answers its OTP request, the status loop sleeps.
AssignNext(p) ==
    /\ pc[p] = "assign"
    /\ nextAgentID' = next[p]
    /\ pc' = [pc EXCEPT ![p] = "idle"]
    /\ next' = [next EXCEPT ![p] = 1]
    /\ otp' = IF p \in Conns THEN [otp EXCEPT ![p] = NULL] ELSE otp
    /\ UNCHANGED <<clients, row, deviceVars, ghostVars>>

-----------------------------------------------------------------------------
(* The HTTP API and the server process. *)

\* DeleteClientByAgentID and DeleteClientByClientID look the client up and
\* then delete by client_id: two statements.
DeleteLookup ==
    /\ \E r \in clients : doomed' = doomed \cup {r.client_id}
    /\ UNCHANGED <<serverVars, connVars, deviceVars, registrations, deleted,
                   unsaved, faults, restarts>>

DeleteClient(id) ==
    /\ id \in doomed
    /\ doomed' = doomed \ {id}
    /\ deleted' = deleted \cup {r \in clients : r.client_id = id}
    /\ clients' = DeleteByID(clients, id)
    /\ UNCHANGED <<nextAgentID, connVars, deviceVars, registrations, unsaved,
                   faults, restarts>>

\* The server process ends and is started again: only the database survives.
\* Every connection is closed, and a client dials again only when it restarts.
RestartServer ==
    /\ restarts < MaxRestarts
    /\ restarts' = restarts + 1
    /\ nextAgentID' = 1
    /\ pc' = [p \in Procs |-> IF p = Monitor THEN "boot" ELSE "idle"]
    /\ row' = [c \in Conns |-> NULL]
    /\ next' = [p \in Procs |-> 1]
    /\ otp' = [c \in Conns |-> NULL]
    /\ session' = [d \in Devices |-> NULL]
    /\ doomed' = {}
    /\ UNCHANGED <<clients, config, registrations, deleted, unsaved, faults>>

-----------------------------------------------------------------------------
Next ==
    \/ \E d \in Devices, c \in Conns :
        \/ StartClient(d, c)
        \/ Register(c, d)
        \/ RequestOtp(c, d)
    \/ \E c \in Conns :
        \/ GenIDs(c)
        \/ SaveClient(c)
        \/ ReplyRegister(c)
    \/ MonitorLoad
    \/ \E p \in Procs : AssignNext(p)
    \/ DeleteLookup
    \/ \E id \in doomed : DeleteClient(id)
    \/ RestartServer

Spec == Init /\ [][Next]_vars

(* The calm schedule: LoadClients, from its query to its assignment, never  *)
(* overlaps a registration between GenAgentID and the end of SaveClient,    *)
(* none of these comes before the status loop has loaded the table after a  *)
(* start, and the ids fit in three digits.  Registrations may overlap each  *)
(* other, and so may calls of LoadClients; deletions, failing statements,   *)
(* lost replies and restarts are free.                                      *)
LoadsApart ==
    \A c \in Conns : pc[c] = "save" =>
        /\ pc[Monitor] # "boot"
        /\ \A p \in Procs : pc[p] # "assign"

ApartSpec == Init /\ [][Next /\ LoadsApart']_vars

Calm == LoadsApart /\ nextAgentID <= ThreeDigitMax + 1

CalmSpec == Init /\ [][Next /\ Calm']_vars

-----------------------------------------------------------------------------
(* Properties of every schedule. *)

\* The table never holds two rows with one agent_id or one client_id,
\* whatever ids the racing handlers generated.
KeysUnique == UniqueKeys(clients)

\* Ids are not used up faster than devices register: no agent id exceeds the
\* number of registrations, although LoadClients recomputes the counter.
AgentIdsDense == \A r \in clients : r.agent_id <= registrations

\* A client id never moves to another agent id or device, and a row leaves the
\* table only when its client id is deleted or another row takes its agent id.
RowsAreStable ==
    [][\A r \in clients :
         \/ r \in clients'
         \/ r \in deleted'
         \/ \E s \in clients' \ clients :
                s.agent_id = r.agent_id /\ s.client_id # r.client_id]_vars

(* Properties of the calm schedule. *)

\* tcpserver.go:119-139: whoever registers, fails to be saved or is deleted
\* beside it, and however often the server is started, a device that holds ids
\* still has the row with these ids, unless this row itself was deleted or its
\* own SaveClient failed.
RegistrationKept ==
    \A d \in Devices :
        config[d] # NULL =>
            \E r \in clients \cup deleted \cup unsaved :
                IdsOf(r) = config[d] /\ r.hardware_id = d

\* tcpserver.go:148-158: the OTP answered to a device is computed from its own
\* client id, unless its own row was deleted or never saved.
OtpOfOwnClient ==
    \A c \in Conns :
        pc[c] = "assign" =>
            \/ otp[c].found \in {NULL, otp[c].asked.client_id}
            \/ otp[c].asked.client_id \in ClientIdsOf(deleted \cup unsaved)

\* In a calm schedule the table is a directory: SaveClient enrols a client
\* under a client id nobody had and an agent id nobody has, a deletion
\* withdraws one client, and everything else leaves the clients alone.
Directory ==
    INSTANCE ClientDirectory WITH dir <- clients,
                                  given <- ClientIdsOf(clients \cup deleted)
ImplementsDirectory == Directory!Spec

(* Claims of the documentation that the code does not keep. *)

\* README.md:49 "Đồng bộ, không trùng lặp": a device is registered once.
OneRowPerDevice ==
    \A r, s \in clients : r.hardware_id = s.hardware_id => r = s

\* README.md:49 and README.md:55 "Giao tiếp thread-safe": two devices never
\* hold the same agent id.
AgentIdsNotShared ==
    \A d, e \in Devices :
        config[d] # NULL /\ config[e] # NULL /\ config[d].agent_id = config[e].agent_id
            => d = e

\* README.md:53 "mapping agentID <-> clientID": an OTP request is answered
\* for the client that was registered with the asking agent id.
OtpMatchesMapping ==
    \A c \in Conns :
        pc[c] = "assign" => otp[c].found \in {NULL, otp[c].asked.client_id}

-----------------------------------------------------------------------------
(* Inductive invariants, used by the proofs. *)

\* A client id about to be saved is in no row, was in no deleted row and is in
\* no other handler's hands.
ClientIdsFresh ==
    /\ \A r \in clients \cup deleted : r.client_id <= registrations
    /\ \A c \in Conns : pc[c] = "save" =>
        /\ row[c].client_id <= registrations
        /\ row[c].client_id \notin ClientIdsOf(clients \cup deleted)
        /\ \A e \in Conns \ {c} : pc[e] = "save" => row[e].client_id # row[c].client_id

\* Every source of the next agent id is at most one above the registrations.
CountersDense ==
    /\ AgentIdsDense
    /\ nextAgentID <= registrations + 1
    /\ \A p \in Procs : next[p] <= registrations + 1
    /\ \A c \in Conns : pc[c] = "save" => row[c].agent_id <= registrations

RegistryInv ==
    /\ TypeOK
    /\ KeysUnique
    /\ ClientIdsFresh
    /\ CountersDense

\* In a calm schedule the counter, and every value about to be assigned to it,
\* is above all agent ids of the table once the table has been loaded, and the
\* agent ids about to be saved are new and differ from each other.
NextAgentIDFresh ==
    /\ \A r \in clients : r.agent_id <= ThreeDigitMax
    /\ pc[Monitor] = "idle" => \A r \in clients : r.agent_id < nextAgentID
    /\ \A p \in Procs : pc[p] = "assign" => \A r \in clients : r.agent_id < next[p]
    /\ \A c \in Conns : pc[c] = "save" =>
        /\ row[c].agent_id <= ThreeDigitMax
        /\ row[c].agent_id < nextAgentID
        /\ row[c].agent_id \notin AgentIdsOf(clients)
        /\ \A e \in Conns \ {c} : pc[e] = "save" => row[e].agent_id # row[c].agent_id

\* A reply on its way to a device is a row that is, was or should be in the
\* table.
RepliesKept ==
    \A c \in Conns : pc[c] = "reply" => row[c] \in clients \cup deleted \cup unsaved

CalmInv ==
    /\ RegistryInv
    /\ Calm
    /\ NextAgentIDFresh
    /\ RepliesKept
    /\ RegistrationKept
    /\ OtpOfOwnClient
=============================================================================
