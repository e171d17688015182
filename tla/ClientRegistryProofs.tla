------------------------ MODULE ClientRegistryProofs ------------------------
(* Theorems about ClientRegistry, for every set of connections and devices  *)
(* and every value of the bounds.                                           *)
EXTENDS ClientRegistry, FiniteSetTheorems, WellFoundedInduction, TLAPS

-----------------------------------------------------------------------------
(* Lemmas about the statements of ClientStore, for every table.              *)

\* A nonempty set of positive naturals below a bound has a least element n: the
\* interval 1..n is minimal for inclusion among the intervals of the set.
LEMMA LeastBelow ==
    ASSUME NEW K \in Nat, NEW S, S \subseteq 1..K, S # {}
    PROVE  \E n \in S : \A m \in S : n <= m
<1>. DEFINE Intervals == {1..n : n \in S}
<1>1. Intervals \subseteq FiniteSubsetsOf(1..K) /\ Intervals # {}
  <2>1. \A n \in S : 1..n \subseteq 1..K /\ IsFiniteSet(1..n)
    BY FS_Interval
  <2>. QED  BY <2>1 DEF FiniteSubsetsOf
<1>2. PICK x \in Intervals :
         \A y \in Intervals : <<y, x>> \notin StrictSubsetOrdering(1..K)
  <2>. HIDE DEF Intervals
  <2>. QED  BY <1>1, WFMin, FS_StrictSubsetOrderingWellFounded
<1>3. PICK n \in S : x = 1..n
  OBVIOUS
<1>4. ASSUME NEW m \in S, m < n  PROVE FALSE
  <2>1. 1..m \subseteq 1..n /\ n \in 1..n /\ n \notin 1..m
    BY <1>4
  <2>2. 1..m \in SUBSET (1..K) /\ 1..n \in SUBSET (1..K)
    OBVIOUS
  <2>3. <<1..m, 1..n>> \in StrictSubsetOrdering(1..K)
    BY <2>1, <2>2 DEF StrictSubsetOrdering
  <2>. QED  BY <1>2, <1>3, <2>3
<1>. QED  BY <1>4

\* The counter LoadClients computes is above every three-digit agent id of the
\* table it read, and it is the least such number.
LEMMA NextAfterIsAbove ==
    ASSUME NEW rows, AgentIdsOf(rows) \subseteq Nat
    PROVE  /\ NextAfter(rows) \in 1..(ThreeDigitMax + 1)
           /\ IsAboveThreeDigitIds(rows, NextAfter(rows))
           /\ \A m \in 1..(ThreeDigitMax + 1) :
                 IsAboveThreeDigitIds(rows, m) => NextAfter(rows) <= m
<1>. DEFINE Bounds == {n \in 1..(ThreeDigitMax + 1) : IsAboveThreeDigitIds(rows, n)}
<1>1. ThreeDigitMax + 1 \in Bounds
  BY ThreeDigitMaxAssumption DEF IsAboveThreeDigitIds
<1>2. \E n \in Bounds : \A m \in Bounds : n <= m
  <2>1. Bounds \subseteq 1..(ThreeDigitMax + 1) /\ ThreeDigitMax + 1 \in Nat
    BY ThreeDigitMaxAssumption
  <2>. HIDE DEF Bounds
  <2>. QED  BY <1>1, <2>1, LeastBelow
<1>. QED  BY <1>2 DEF NextAfter

\* INSERT OR REPLACE keeps both keys of the table unique.
LEMMA InsertOrReplaceKeepsKeys ==
    ASSUME NEW rows, UniqueKeys(rows), NEW new
    PROVE  UniqueKeys(InsertOrReplace(rows, new))
BY DEF UniqueKeys, InsertOrReplace

\* Deleting by client_id keeps both keys unique.
LEMMA DeleteKeepsKeys ==
    ASSUME NEW rows, UniqueKeys(rows), NEW id
    PROVE  UniqueKeys(DeleteByID(rows, id))
BY DEF UniqueKeys, DeleteByID

\* INSERT OR REPLACE frees no agent id and adds only the new row's.
LEMMA InsertOrReplaceAgentIds ==
    ASSUME NEW rows, NEW new
    PROVE  AgentIdsOf(InsertOrReplace(rows, new)) \subseteq
               AgentIdsOf(rows) \cup {new.agent_id}
BY DEF AgentIdsOf, InsertOrReplace

-----------------------------------------------------------------------------
(* Lemmas about the registry.                                                *)

USE RegistryAssumption DEF Procs

\* A query answers with NULL or with a row of the table.
LEMMA QueryResults ==
    ASSUME NEW rows, NEW key
    PROVE  /\ \A f \in FindClientByDevice(rows, key) : f = NULL \/ f \in rows
           /\ \A f \in FindByAgentID(rows, key) : f = NULL \/ f \in rows
BY DEF FindClientByDevice, FindByAgentID, OneOf

LEMMA NextAfterType ==
    ASSUME TypeOK
    PROVE  NextAfter(clients) \in Nat \ {0}
<1>1. AgentIdsOf(clients) \subseteq Nat
  BY DEF TypeOK, AgentIdsOf, Row
<1>. QED  BY <1>1, NextAfterIsAbove, ThreeDigitMaxAssumption

-----------------------------------------------------------------------------
(* Type correctness. *)

LEMMA InitType == Init => TypeOK
BY DEF Init, TypeOK

LEMMA NextType == TypeOK /\ [Next]_vars => TypeOK'
<1>. SUFFICES ASSUME TypeOK, [Next]_vars  PROVE TypeOK'
  OBVIOUS
<1>1. CASE UNCHANGED vars
  BY <1>1 DEF TypeOK, vars, serverVars, connVars, deviceVars, ghostVars
<1>2. ASSUME NEW d \in Devices, NEW c \in Conns, StartClient(d, c)
      PROVE  TypeOK'
  BY <1>2 DEF StartClient, TypeOK, serverVars, connVars, ghostVars
<1>3. ASSUME NEW d \in Devices, NEW c \in Conns, Register(c, d)
      PROVE  TypeOK'
  <2>1. PICK f \in FindClientByDevice(clients, d) :
            IF f = NULL
            THEN /\ row' = [row EXCEPT ![c] = [client_id |-> 0, agent_id |-> 0,
                                               hardware_id |-> d]]
                 /\ pc' = [pc EXCEPT ![c] = "gen"]
            ELSE /\ row' = [row EXCEPT ![c] = f]
                 /\ pc' = [pc EXCEPT ![c] = "reply"]
    BY <1>3 DEF Register
  <2>2. f = NULL \/ f \in Row
    BY QueryResults DEF TypeOK
  <2>3. CASE f = NULL
    BY <1>3, <2>1, <2>3 DEF Register, TypeOK, Row, serverVars, deviceVars, ghostVars
  <2>4. CASE f # NULL
    BY <1>3, <2>1, <2>2, <2>4 DEF Register, TypeOK, serverVars, deviceVars, ghostVars
  <2>. QED  BY <2>3, <2>4
<1>4. ASSUME NEW c \in Conns, GenIDs(c)
      PROVE  TypeOK'
  BY <1>4 DEF GenIDs, NewClient, TypeOK, Row, deviceVars
<1>5. ASSUME NEW c \in Conns, SaveClient(c)
      PROVE  TypeOK'
  BY <1>5 DEF SaveClient, TypeOK, InsertOrReplace, deviceVars
<1>6. ASSUME NEW c \in Conns, ReplyRegister(c)
      PROVE  TypeOK'
  <2>1. IdsOf(row[c]) \in Ids /\ row[c].hardware_id \in Devices
    BY <1>6 DEF ReplyRegister, TypeOK, Row, IdsOf, Ids
  <2>. QED  BY <1>6, <2>1 DEF ReplyRegister, TypeOK, serverVars, ghostVars
<1>7. ASSUME NEW d \in Devices, NEW c \in Conns, RequestOtp(c, d)
      PROVE  TypeOK'
  <2>1. PICK f \in FindByAgentID(clients, config[d].agent_id) :
            otp' = [otp EXCEPT ![c] =
                      [asked |-> config[d],
                       found |-> IF f = NULL THEN NULL ELSE f.client_id]]
    BY <1>7 DEF RequestOtp
  <2>2. (IF f = NULL THEN NULL ELSE f.client_id) \in Nat \cup {NULL}
    BY QueryResults DEF TypeOK, Row
  <2>3. [asked |-> config[d], found |-> IF f = NULL THEN NULL ELSE f.client_id]
            \in OtpRequest
    BY <1>7, <2>2 DEF RequestOtp, TypeOK, OtpRequest
  <2>. QED
    BY <1>7, <2>1, <2>3, NextAfterType
    DEF RequestOtp, TypeOK, serverVars, deviceVars, ghostVars
<1>8. CASE MonitorLoad
  BY <1>8, NextAfterType DEF MonitorLoad, TypeOK, serverVars, deviceVars
<1>9. ASSUME NEW p \in Procs, AssignNext(p)
      PROVE  TypeOK'
  BY <1>9 DEF AssignNext, TypeOK, deviceVars, ghostVars
<1>10. CASE DeleteLookup
  BY <1>10 DEF DeleteLookup, TypeOK, Row, serverVars, connVars, deviceVars
<1>11. ASSUME NEW id \in doomed, DeleteClient(id)
       PROVE  TypeOK'
  BY <1>11 DEF DeleteClient, DeleteByID, TypeOK, connVars, deviceVars
<1>12. CASE RestartServer
  BY <1>12 DEF RestartServer, TypeOK
<1>. QED
  BY <1>1, <1>2, <1>3, <1>4, <1>5, <1>6, <1>7, <1>8, <1>9, <1>10, <1>11, <1>12
  DEF Next

\* The variables keep their types: in particular a handler that saves or
\* replies always holds a complete row.
THEOREM TypeCorrect == Spec => []TypeOK
BY InitType, NextType, PTL DEF Spec

-----------------------------------------------------------------------------
(* The invariant of every schedule. *)

\* Both keys of the table stay unique: only INSERT OR REPLACE and DELETE
\* change the set of keys.
LEMMA NextKeysUnique == KeysUnique /\ [Next]_vars => KeysUnique'
<1>. SUFFICES ASSUME KeysUnique, [Next]_vars  PROVE KeysUnique'
  OBVIOUS
<1>1. ASSUME NEW c \in Conns, SaveClient(c)  PROVE KeysUnique'
  BY <1>1, InsertOrReplaceKeepsKeys DEF KeysUnique, SaveClient, UniqueKeys
<1>2. ASSUME NEW id \in doomed, DeleteClient(id)  PROVE KeysUnique'
  BY <1>2, DeleteKeepsKeys DEF KeysUnique, DeleteClient, UniqueKeys
<1>3. CASE UNCHANGED clients
  BY <1>3 DEF KeysUnique, UniqueKeys
<1>. QED
  BY <1>1, <1>2, <1>3
  DEF Next, vars, serverVars, StartClient, Register, GenIDs, ReplyRegister,
      RequestOtp, MonitorLoad, AssignNext, DeleteLookup, RestartServer

\* A handler's client id stays fresh until its row is saved.
LEMMA NextClientIdsFresh ==
    TypeOK /\ ClientIdsFresh /\ [Next]_vars => ClientIdsFresh'
<1>. SUFFICES ASSUME TypeOK, ClientIdsFresh, [Next]_vars  PROVE ClientIdsFresh'
  OBVIOUS
<1>. USE DEF ClientIdsFresh
<1>1. CASE UNCHANGED vars
  BY <1>1 DEF vars, serverVars, connVars, ghostVars
<1>2. ASSUME NEW d \in Devices, NEW c \in Conns, StartClient(d, c)
      PROVE  ClientIdsFresh'
  BY <1>2 DEF StartClient, serverVars, connVars, ghostVars
<1>3. ASSUME NEW d \in Devices, NEW c \in Conns, Register(c, d)
      PROVE  ClientIdsFresh'
  <2>1. UNCHANGED <<clients, registrations, deleted>>
    BY <1>3 DEF Register, serverVars, ghostVars
  <2>2. \A e \in Conns : pc'[e] = "save" => pc[e] = "save" /\ row'[e] = row[e]
    BY <1>3 DEF Register, TypeOK
  <2>. QED  BY <2>1, <2>2
<1>4. ASSUME NEW c \in Conns, GenIDs(c)
      PROVE  ClientIdsFresh'
  <2>1. /\ row'[c].client_id = registrations + 1
        /\ \A e \in Conns \ {c} : row'[e] = row[e] /\ pc'[e] = pc[e]
        /\ registrations' = registrations + 1 /\ registrations \in Nat
        /\ UNCHANGED <<clients, deleted>>
    BY <1>4 DEF GenIDs, NewClient, TypeOK
  <2>2. \A r \in clients \cup deleted : r.client_id \in Nat
    BY DEF TypeOK, Row
  <2>3. \A e \in Conns : pc[e] = "save" => row[e].client_id \in Nat
    BY DEF TypeOK, Row
  <2>. QED  BY <2>1, <2>2, <2>3 DEF ClientIdsOf
<1>5. ASSUME NEW c \in Conns, SaveClient(c)
      PROVE  ClientIdsFresh'
  <2>1. /\ clients' \subseteq clients \cup {row[c]}
        /\ pc'[c] = "reply"
        /\ \A e \in Conns \ {c} : pc'[e] = pc[e]
        /\ UNCHANGED <<row, registrations, deleted>>
    BY <1>5 DEF SaveClient, InsertOrReplace, TypeOK
  <2>. QED  BY <1>5, <2>1 DEF SaveClient, ClientIdsOf
<1>6. ASSUME NEW c \in Conns, ReplyRegister(c)
      PROVE  ClientIdsFresh'
  BY <1>6 DEF ReplyRegister, TypeOK, serverVars, ghostVars
<1>7. ASSUME NEW d \in Devices, NEW c \in Conns, RequestOtp(c, d)
      PROVE  ClientIdsFresh'
  BY <1>7 DEF RequestOtp, TypeOK, serverVars, deviceVars, ghostVars
<1>8. CASE MonitorLoad
  BY <1>8 DEF MonitorLoad, TypeOK, serverVars, deviceVars
<1>9. ASSUME NEW p \in Procs, AssignNext(p)
      PROVE  ClientIdsFresh'
  BY <1>9 DEF AssignNext, TypeOK, deviceVars, ghostVars
<1>10. CASE DeleteLookup
  BY <1>10 DEF DeleteLookup, serverVars, connVars, deviceVars
<1>11. ASSUME NEW id \in doomed, DeleteClient(id)
       PROVE  ClientIdsFresh'
  BY <1>11 DEF DeleteClient, DeleteByID, ClientIdsOf, connVars, deviceVars
<1>12. CASE RestartServer
  BY <1>12 DEF RestartServer
<1>. QED
  BY <1>1, <1>2, <1>3, <1>4, <1>5, <1>6, <1>7, <1>8, <1>9, <1>10, <1>11, <1>12
  DEF Next

\* LoadClients never computes more than one above the registrations when no
\* row of the table exceeds them: the least bound is at most that number.
LEMMA NextAfterDense ==
    ASSUME TypeOK, AgentIdsDense
    PROVE  NextAfter(clients) <= registrations + 1
<1>1. AgentIdsOf(clients) \subseteq Nat
  BY DEF TypeOK, AgentIdsOf, Row
<1>2. NextAfter(clients) \in 1..(ThreeDigitMax + 1)
  BY <1>1, NextAfterIsAbove
<1>3. CASE registrations + 1 \in 1..(ThreeDigitMax + 1)
  <2>1. IsAboveThreeDigitIds(clients, registrations + 1)
    BY <1>1 DEF AgentIdsDense, IsAboveThreeDigitIds, AgentIdsOf, TypeOK
  <2>. QED  BY <1>1, <1>3, <2>1, NextAfterIsAbove
<1>4. CASE registrations + 1 > ThreeDigitMax + 1
  BY <1>2, <1>4, ThreeDigitMaxAssumption DEF TypeOK
<1>. QED  BY <1>3, <1>4, ThreeDigitMaxAssumption DEF TypeOK

LEMMA NextCountersDense ==
    TypeOK /\ CountersDense /\ [Next]_vars => CountersDense'
<1>. SUFFICES ASSUME TypeOK, CountersDense, [Next]_vars  PROVE CountersDense'
  OBVIOUS
<1>. USE DEF CountersDense, AgentIdsDense
<1>1. CASE UNCHANGED vars
  BY <1>1 DEF vars, serverVars, connVars, ghostVars
<1>2. ASSUME NEW d \in Devices, NEW c \in Conns, StartClient(d, c)
      PROVE  CountersDense'
  BY <1>2 DEF StartClient, serverVars, connVars, ghostVars
<1>3. ASSUME NEW d \in Devices, NEW c \in Conns, Register(c, d)
      PROVE  CountersDense'
  BY <1>3 DEF Register, TypeOK, serverVars, ghostVars
<1>4. ASSUME NEW c \in Conns, GenIDs(c)
      PROVE  CountersDense'
  <2>1. /\ row'[c].agent_id = nextAgentID
        /\ \A e \in Conns \ {c} : row'[e] = row[e] /\ pc'[e] = pc[e]
        /\ registrations' = registrations + 1 /\ registrations \in Nat
        /\ nextAgentID' = nextAgentID + 1 /\ nextAgentID \in Nat
        /\ UNCHANGED <<clients, next>>
    BY <1>4 DEF GenIDs, NewClient, TypeOK
  <2>2. \A r \in clients : r.agent_id \in Nat
    BY DEF TypeOK, Row
  <2>3. \A e \in Conns : pc[e] = "save" => row[e].agent_id \in Nat
    BY DEF TypeOK, Row
  <2>4. \A p \in Procs : next[p] \in Nat
    BY DEF TypeOK
  <2>. QED  BY <2>1, <2>2, <2>3, <2>4
<1>5. ASSUME NEW c \in Conns, SaveClient(c)
      PROVE  CountersDense'
  <2>1. /\ clients' \subseteq clients \cup {row[c]}
        /\ pc'[c] = "reply"
        /\ \A e \in Conns \ {c} : pc'[e] = pc[e]
        /\ UNCHANGED <<nextAgentID, row, next, registrations>>
    BY <1>5 DEF SaveClient, InsertOrReplace, TypeOK
  <2>. QED  BY <1>5, <2>1 DEF SaveClient
<1>6. ASSUME NEW c \in Conns, ReplyRegister(c)
      PROVE  CountersDense'
  BY <1>6 DEF ReplyRegister, TypeOK, serverVars, ghostVars
<1>7. ASSUME NEW d \in Devices, NEW c \in Conns, RequestOtp(c, d)
      PROVE  CountersDense'
  BY <1>7, NextAfterDense DEF RequestOtp, TypeOK, serverVars, deviceVars, ghostVars
<1>8. CASE MonitorLoad
  BY <1>8, NextAfterDense DEF MonitorLoad, TypeOK, serverVars, deviceVars
<1>9. ASSUME NEW p \in Procs, AssignNext(p)
      PROVE  CountersDense'
  BY <1>9 DEF AssignNext, TypeOK, deviceVars, ghostVars
<1>10. CASE DeleteLookup
  BY <1>10 DEF DeleteLookup, serverVars, connVars, deviceVars
<1>11. ASSUME NEW id \in doomed, DeleteClient(id)
       PROVE  CountersDense'
  BY <1>11 DEF DeleteClient, DeleteByID, connVars, deviceVars
<1>12. CASE RestartServer
  BY <1>12 DEF RestartServer, TypeOK
<1>. QED
  BY <1>1, <1>2, <1>3, <1>4, <1>5, <1>6, <1>7, <1>8, <1>9, <1>10, <1>11, <1>12
  DEF Next

LEMMA InitRegistryInv == Init => RegistryInv
BY InitType
DEF Init, RegistryInv, KeysUnique, UniqueKeys, ClientIdsFresh, CountersDense,
    AgentIdsDense, ClientIdsOf

LEMMA NextRegistryInv == RegistryInv /\ [Next]_vars => RegistryInv'
BY NextType, NextKeysUnique, NextClientIdsFresh, NextCountersDense
DEF RegistryInv

LEMMA RegistryInvariant == Spec => []RegistryInv
BY InitRegistryInv, NextRegistryInv, PTL DEF Spec

\* However handlers, the status loop, deletions and restarts interleave, no two
\* rows of managed_clients ever share an agent id or a client id.
THEOREM KeysStayUnique == Spec => []KeysUnique
BY InitRegistryInv, NextRegistryInv, PTL DEF Spec, RegistryInv

\* No agent id ever exceeds the number of registrations.
THEOREM AgentIdsStayDense == Spec => []AgentIdsDense
<1>1. RegistryInv => AgentIdsDense
  BY DEF RegistryInv, CountersDense
<1>. QED  BY <1>1, RegistryInvariant, PTL

\* A row never changes, and it leaves the table only by a deletion of its
\* client id or for a new row with its agent id.
THEOREM RowsStayStable == Spec => RowsAreStable
<1>. DEFINE Step == \A r \in clients :
                      \/ r \in clients'
                      \/ r \in deleted'
                      \/ \E s \in clients' \ clients :
                             s.agent_id = r.agent_id /\ s.client_id # r.client_id
<1>1. RegistryInv /\ [Next]_vars => [Step]_vars
  <2>. SUFFICES ASSUME RegistryInv, [Next]_vars, NEW r \in clients, r \notin clients',
                       r \notin deleted'
                PROVE  \E s \in clients' \ clients :
                          s.agent_id = r.agent_id /\ s.client_id # r.client_id
    OBVIOUS
  <2>1. \A id \in doomed : ~DeleteClient(id)
    BY DEF DeleteClient, DeleteByID
  <2>2. PICK c \in Conns : SaveClient(c)
    BY <2>1
    DEF Next, vars, serverVars, StartClient, Register, GenIDs, ReplyRegister,
        RequestOtp, MonitorLoad, AssignNext, DeleteLookup, RestartServer
  <2>3. clients' = InsertOrReplace(clients, row[c])
    BY <2>2 DEF SaveClient
  <2>4. row[c].client_id \notin ClientIdsOf(clients)
    BY <2>2 DEF SaveClient, RegistryInv, ClientIdsFresh, ClientIdsOf
  <2>. QED  BY <2>3, <2>4 DEF InsertOrReplace, ClientIdsOf
<1>. QED  BY <1>1, RegistryInvariant, PTL DEF Spec, RowsAreStable

-----------------------------------------------------------------------------
(* The calm schedule. *)

\* When every agent id fits in three digits, the counter LoadClients computes
\* is above all agent ids of the table.
LEMMA NextAfterFresh ==
    ASSUME TypeOK, \A r \in clients : r.agent_id <= ThreeDigitMax
    PROVE  \A r \in clients : r.agent_id < NextAfter(clients)
<1>1. AgentIdsOf(clients) \subseteq Nat
  BY DEF TypeOK, AgentIdsOf, Row
<1>. QED  BY <1>1, NextAfterIsAbove DEF IsAboveThreeDigitIds, AgentIdsOf

\* In a calm schedule a save replaces no row, and its client id is new.
LEMMA CalmSaveAdds ==
    ASSUME NEW c \in Conns, CalmInv, pc[c] = "save"
    PROVE  /\ InsertOrReplace(clients, row[c]) = clients \cup {row[c]}
           /\ row[c] \notin clients
           /\ row[c].client_id \notin ClientIdsOf(clients \cup deleted)
           /\ row[c].agent_id \notin AgentIdsOf(clients)
<1>1. /\ row[c].client_id \notin ClientIdsOf(clients \cup deleted)
      /\ row[c].agent_id \notin AgentIdsOf(clients)
  BY DEF CalmInv, RegistryInv, ClientIdsFresh, NextAgentIDFresh
<1>. QED  BY <1>1 DEF InsertOrReplace, ClientIdsOf, AgentIdsOf

\* While a row is about to be saved nobody is in the middle of LoadClients, and
\* the status loop has loaded the table.
LEMMA CalmSaving ==
    ASSUME Calm, TypeOK, NEW c \in Conns, pc[c] = "save"
    PROVE  pc[Monitor] = "idle" /\ \A p \in Procs : pc[p] # "assign"
BY DEF Calm, LoadsApart, TypeOK

LEMMA NextFreshCalm ==
    CalmInv /\ Next /\ Calm' => NextAgentIDFresh'
<1>. SUFFICES ASSUME CalmInv, Next, Calm'  PROVE NextAgentIDFresh'
  OBVIOUS
<1>. USE DEF NextAgentIDFresh
<1>0. TypeOK /\ NextAgentIDFresh /\ Calm
  BY DEF CalmInv, RegistryInv
<1>1. TypeOK'
  BY <1>0, NextType
<1>2. ASSUME NEW d \in Devices, NEW c \in Conns, StartClient(d, c)
      PROVE  NextAgentIDFresh'
  BY <1>0, <1>2 DEF StartClient, serverVars, connVars
<1>3. ASSUME NEW d \in Devices, NEW c \in Conns, Register(c, d)
      PROVE  NextAgentIDFresh'
  BY <1>0, <1>3 DEF Register, TypeOK, serverVars
<1>4. ASSUME NEW c \in Conns, GenIDs(c)
      PROVE  NextAgentIDFresh'
  <2>1. /\ row' = [row EXCEPT ![c] = NewClient(c)] /\ row'[c].agent_id = nextAgentID
        /\ nextAgentID' = nextAgentID + 1 /\ nextAgentID \in Nat
        /\ pc' = [pc EXCEPT ![c] = "save"]
        /\ UNCHANGED <<clients, next>>
    BY <1>0, <1>4 DEF GenIDs, NewClient, TypeOK
  <2>2. pc[Monitor] = "idle" /\ \A p \in Procs : pc[p] # "assign"
    <3>1. pc'[c] = "save"
      BY <1>0, <2>1 DEF TypeOK
    <3>2. pc'[Monitor] # "boot" /\ \A p \in Procs : pc'[p] # "assign"
      BY <3>1 DEF Calm, LoadsApart
    <3>. QED  BY <1>0, <1>4, <2>1, <3>2 DEF GenIDs, TypeOK
  <2>3. nextAgentID <= ThreeDigitMax
    BY <2>1, ThreeDigitMaxAssumption DEF Calm
  <2>4. \A r \in clients : r.agent_id \in Nat /\ r.agent_id < nextAgentID
    BY <1>0, <2>2 DEF TypeOK, Row
  <2>5. nextAgentID \notin AgentIdsOf(clients)
    BY <2>1, <2>4 DEF AgentIdsOf
  <2>6. \A e \in Conns \ {c} : pc[e] = "save" =>
           row[e].agent_id \in Nat /\ row[e].agent_id < nextAgentID
    BY <1>0 DEF TypeOK, Row
  <2>7. /\ \A e \in Conns \ {c} : row'[e] = row[e] /\ pc'[e] = pc[e]
        /\ \A p \in Procs : pc'[p] # "assign"
    BY <1>0, <2>1, <2>2 DEF TypeOK
  <2>. QED  BY <1>0, <2>1, <2>3, <2>4, <2>5, <2>6, <2>7
<1>5. ASSUME NEW c \in Conns, SaveClient(c)
      PROVE  NextAgentIDFresh'
  <2>1. pc[c] = "save" /\ pc[Monitor] = "idle" /\ \A p \in Procs : pc[p] # "assign"
    BY <1>0, <1>5, CalmSaving DEF SaveClient
  <2>2. clients' = clients \cup {row[c]} \/ clients' = clients
    BY <1>5, <2>1, CalmSaveAdds DEF SaveClient
  <2>3. /\ pc' = [pc EXCEPT ![c] = "reply"]
        /\ UNCHANGED <<nextAgentID, next, row>>
    BY <1>5 DEF SaveClient
  <2>4. \A p \in Procs : pc'[p] # "assign"
    BY <1>0, <2>1, <2>3 DEF TypeOK
  <2>5. \A e \in Conns : pc'[e] = "save" => e # c /\ pc[e] = "save"
    BY <1>0, <2>3 DEF TypeOK
  <2>6. \A e \in Conns : pc'[e] = "save" => row[e].agent_id \notin AgentIdsOf(clients')
    BY <1>0, <2>1, <2>2, <2>5 DEF AgentIdsOf
  <2>. QED  BY <1>0, <2>1, <2>2, <2>3, <2>4, <2>5, <2>6
<1>6. ASSUME NEW c \in Conns, ReplyRegister(c)
      PROVE  NextAgentIDFresh'
  BY <1>0, <1>6 DEF ReplyRegister, TypeOK, serverVars
<1>7. ASSUME NEW d \in Devices, NEW c \in Conns, RequestOtp(c, d)
      PROVE  NextAgentIDFresh'
  BY <1>0, <1>7, NextAfterFresh DEF RequestOtp, TypeOK, serverVars
<1>8. CASE MonitorLoad
  BY <1>0, <1>8, NextAfterFresh DEF MonitorLoad, TypeOK, serverVars
<1>9. ASSUME NEW p \in Procs, AssignNext(p)
      PROVE  NextAgentIDFresh'
  <2>1. \A r \in clients : r.agent_id < nextAgentID'
    BY <1>0, <1>9 DEF AssignNext
  <2>2. pc[p] = "assign" /\ \A q \in Conns : pc[q] # "save"
    BY <1>0, <1>9 DEF AssignNext, Calm, LoadsApart
  <2>3. \A q \in Procs : q # p => pc'[q] = pc[q] /\ next'[q] = next[q]
    BY <1>0, <1>9 DEF AssignNext, TypeOK
  <2>4. pc'[p] = "idle" /\ \A q \in Conns : pc'[q] # "save"
    BY <1>0, <1>9, <2>2 DEF AssignNext, TypeOK
  <2>. QED  BY <1>0, <1>9, <2>1, <2>3, <2>4 DEF AssignNext
<1>10. CASE DeleteLookup
  BY <1>0, <1>10 DEF DeleteLookup, serverVars, connVars
<1>11. ASSUME NEW id \in doomed, DeleteClient(id)
       PROVE  NextAgentIDFresh'
  BY <1>0, <1>11 DEF DeleteClient, DeleteByID, AgentIdsOf, connVars
<1>12. CASE RestartServer
  BY <1>0, <1>12 DEF RestartServer
<1>. QED
  BY <1>2, <1>3, <1>4, <1>5, <1>6, <1>7, <1>8, <1>9, <1>10, <1>11, <1>12
  DEF Next

\* Rows leave the table in a calm schedule only into the deleted rows.
LEMMA CalmRowsKept ==
    ASSUME CalmInv, Next
    PROVE  clients \cup deleted \cup unsaved \subseteq clients' \cup deleted' \cup unsaved'
<1>. DEFINE Kept == clients \cup deleted \cup unsaved \subseteq clients' \cup deleted' \cup unsaved'
<1>1. ASSUME NEW c \in Conns, SaveClient(c)  PROVE Kept
  BY <1>1, CalmSaveAdds DEF SaveClient
<1>2. ASSUME NEW id \in doomed, DeleteClient(id)  PROVE Kept
  BY <1>2 DEF DeleteClient, DeleteByID
<1>3. CASE UNCHANGED <<clients, deleted, unsaved>>
  BY <1>3
<1>. QED
  BY <1>1, <1>2, <1>3
  DEF Next, serverVars, ghostVars, StartClient, Register, GenIDs, ReplyRegister,
      RequestOtp, MonitorLoad, AssignNext, DeleteLookup, RestartServer

LEMMA NextRepliesKept ==
    CalmInv /\ Next /\ Calm' => RepliesKept'
<1>. SUFFICES ASSUME CalmInv, Next, Calm', NEW c \in Conns, pc'[c] = "reply"
              PROVE  row'[c] \in clients' \cup deleted' \cup unsaved'
  BY DEF RepliesKept
<1>1. TypeOK /\ RepliesKept
  BY DEF CalmInv, RegistryInv
<1>2. CASE pc[c] = "reply" /\ row'[c] = row[c]
  BY <1>1, <1>2, CalmRowsKept DEF RepliesKept
<1>3. ASSUME NEW d \in Devices, Register(c, d)
      PROVE  row'[c] \in clients' \cup deleted' \cup unsaved'
  BY <1>1, <1>3, QueryResults DEF Register, TypeOK, serverVars
<1>4. CASE SaveClient(c)
  BY <1>4, CalmSaveAdds DEF SaveClient
<1>5. ASSUME NEW e \in Conns, NEW d \in Devices,
             StartClient(d, e) \/ RequestOtp(e, d) \/ (e # c /\ Register(e, d))
      PROVE  pc[c] = "reply" /\ row'[c] = row[c]
  BY <1>1, <1>5 DEF TypeOK, StartClient, RequestOtp, Register, connVars
<1>6. ASSUME NEW e \in Conns,
             GenIDs(e) \/ ReplyRegister(e) \/ (e # c /\ SaveClient(e))
      PROVE  pc[c] = "reply" /\ row'[c] = row[c]
  BY <1>1, <1>6 DEF TypeOK, GenIDs, ReplyRegister, SaveClient
<1>7. ASSUME MonitorLoad \/ DeleteLookup \/ (\E id \in doomed : DeleteClient(id))
                \/ (\E p \in Procs : AssignNext(p))
      PROVE  pc[c] = "reply" /\ row'[c] = row[c]
  BY <1>1, <1>7 DEF TypeOK, MonitorLoad, DeleteLookup, DeleteClient, AssignNext, connVars
<1>8. ~RestartServer
  BY <1>1 DEF RestartServer, TypeOK
<1>. QED
  BY <1>2, <1>3, <1>4, <1>5, <1>6, <1>7, <1>8 DEF Next

LEMMA NextRegistrationKept ==
    CalmInv /\ Next /\ Calm' => RegistrationKept'
<1>. SUFFICES ASSUME CalmInv, Next, Calm', NEW d \in Devices, config'[d] # NULL
              PROVE  \E r \in clients' \cup deleted' \cup unsaved' :
                        IdsOf(r) = config'[d] /\ r.hardware_id = d
  BY DEF RegistrationKept, IdsOf
<1>1. TypeOK /\ RepliesKept /\ RegistrationKept
  BY DEF CalmInv, RegistryInv
<1>2. CASE config'[d] = config[d]
  BY <1>1, <1>2, CalmRowsKept DEF RegistrationKept
<1>3. ASSUME NEW c \in Conns, ReplyRegister(c), config'[d] # config[d]
      PROVE  \E r \in clients' \cup deleted' \cup unsaved' :
                IdsOf(r) = config'[d] /\ r.hardware_id = d
  <2>1. row[c].hardware_id = d /\ config'[d] = IdsOf(row[c])
    BY <1>1, <1>3 DEF ReplyRegister, TypeOK
  <2>2. row[c] \in clients' \cup deleted' \cup unsaved'
    BY <1>1, <1>3, CalmRowsKept DEF ReplyRegister, RepliesKept
  <2>. QED  BY <2>1, <2>2
<1>. QED
  BY <1>1, <1>2, <1>3
  DEF Next, TypeOK, deviceVars, StartClient, Register, GenIDs,
      SaveClient, RequestOtp, MonitorLoad, AssignNext, DeleteLookup,
      DeleteClient, RestartServer

LEMMA NextOtpOfOwnClient ==
    CalmInv /\ Next /\ Calm' => OtpOfOwnClient'
<1>. SUFFICES ASSUME CalmInv, Next, Calm', NEW c \in Conns, pc'[c] = "assign"
              PROVE  \/ otp'[c].found \in {NULL, otp'[c].asked.client_id}
                     \/ otp'[c].asked.client_id \in ClientIdsOf(deleted' \cup unsaved')
  BY DEF OtpOfOwnClient, ClientIdsOf
<1>1. TypeOK /\ KeysUnique /\ RegistrationKept /\ OtpOfOwnClient
  BY DEF CalmInv, RegistryInv
<1>2. deleted \subseteq deleted' /\ unsaved \subseteq unsaved'
  BY DEF Next, ghostVars, StartClient, Register, GenIDs, SaveClient, ReplyRegister,
         RequestOtp, MonitorLoad, AssignNext, DeleteLookup, DeleteClient, RestartServer
<1>3. CASE pc[c] = "assign" /\ otp'[c] = otp[c]
  BY <1>1, <1>2, <1>3 DEF OtpOfOwnClient, ClientIdsOf
<1>4. ASSUME NEW d \in Devices, RequestOtp(c, d)
      PROVE  \/ otp'[c].found \in {NULL, otp'[c].asked.client_id}
             \/ otp'[c].asked.client_id \in ClientIdsOf(deleted' \cup unsaved')
  <2>1. PICK f \in FindByAgentID(clients, config[d].agent_id) :
            otp'[c] = [asked |-> config[d],
                       found |-> IF f = NULL THEN NULL ELSE f.client_id]
    BY <1>1, <1>4 DEF RequestOtp, TypeOK
  <2>2. PICK r \in clients \cup deleted \cup unsaved : IdsOf(r) = config[d]
    BY <1>1, <1>4 DEF RequestOtp, RegistrationKept
  <2>3. config[d].client_id = r.client_id /\ config[d].agent_id = r.agent_id
    BY <2>2 DEF IdsOf
  <2>4. CASE r \in deleted \cup unsaved
    BY <1>2, <2>1, <2>3, <2>4 DEF ClientIdsOf
  <2>5. CASE r \in clients
    <3>1. f = NULL \/ f = r
      BY <1>1, <2>3, <2>5 DEF FindByAgentID, OneOf, KeysUnique, UniqueKeys
    <3>. QED  BY <2>1, <2>3, <3>1
  <2>. QED  BY <2>4, <2>5
<1>5. ASSUME NEW e \in Conns, NEW d \in Devices,
             StartClient(d, e) \/ Register(e, d) \/ (e # c /\ RequestOtp(e, d))
      PROVE  pc[c] = "assign" /\ otp'[c] = otp[c]
  BY <1>1, <1>5 DEF TypeOK, StartClient, RequestOtp, Register, connVars
<1>6. ASSUME NEW e \in Conns, GenIDs(e) \/ ReplyRegister(e) \/ SaveClient(e)
      PROVE  pc[c] = "assign" /\ otp'[c] = otp[c]
  BY <1>1, <1>6 DEF TypeOK, GenIDs, ReplyRegister, SaveClient
<1>7. ASSUME MonitorLoad \/ DeleteLookup \/ \E id \in doomed : DeleteClient(id)
      PROVE  pc[c] = "assign" /\ otp'[c] = otp[c]
  BY <1>1, <1>7 DEF TypeOK, MonitorLoad, DeleteLookup, DeleteClient, connVars
<1>8. ASSUME NEW p \in Procs, AssignNext(p)
      PROVE  pc[c] = "assign" /\ otp'[c] = otp[c]
  BY <1>1, <1>8 DEF TypeOK, AssignNext
<1>9. ~RestartServer
  BY DEF RestartServer
<1>. QED
  BY <1>3, <1>4, <1>5, <1>6, <1>7, <1>8, <1>9 DEF Next

LEMMA InitCalmInv == Init => CalmInv
<1>. SUFFICES ASSUME Init  PROVE CalmInv
  OBVIOUS
<1>1. RegistryInv
  BY InitRegistryInv
<1>2. Calm
  BY ThreeDigitMaxAssumption DEF Init, Calm, LoadsApart
<1>. QED
  BY <1>1, <1>2
  DEF Init, CalmInv, NextAgentIDFresh, RepliesKept, RegistrationKept, OtpOfOwnClient

LEMMA NextCalmInv == CalmInv /\ [Next /\ Calm']_vars => CalmInv'
<1>. SUFFICES ASSUME CalmInv, [Next /\ Calm']_vars  PROVE CalmInv'
  OBVIOUS
<1>1. CASE Next /\ Calm'
  <2>1. RegistryInv'
    BY <1>1, NextRegistryInv DEF CalmInv
  <2>. QED
    BY <1>1, <2>1, NextFreshCalm, NextRepliesKept, NextRegistrationKept,
       NextOtpOfOwnClient
    DEF CalmInv
<1>2. CASE UNCHANGED vars
  <2>1. RegistryInv'
    BY <1>2, NextRegistryInv DEF CalmInv
  <2>. QED
    BY <1>2, <2>1
    DEF CalmInv, Calm, LoadsApart, NextAgentIDFresh, RepliesKept, RegistrationKept,
        OtpOfOwnClient, vars, serverVars, connVars, deviceVars, ghostVars
<1>. QED  BY <1>1, <1>2

LEMMA CalmInvariant == CalmSpec => []CalmInv
BY InitCalmInv, NextCalmInv, PTL DEF CalmSpec

\* When LoadClients overlaps no registration, no device ever loses its row
\* except by its own deletion or its own failed save, in spite of restarts,
\* failing statements, lost replies and the recomputation of nextAgentID.
THEOREM CalmKeepsRegistrations == CalmSpec => []RegistrationKept
<1>1. CalmInv => RegistrationKept
  BY DEF CalmInv
<1>. QED  BY <1>1, CalmInvariant, PTL

\* In a calm schedule a device whose row was saved and not deleted gets its own
\* OTP or none.
THEOREM CalmOtpOfOwnClient == CalmSpec => []OtpOfOwnClient
<1>1. CalmInv => OtpOfOwnClient
  BY DEF CalmInv
<1>. QED  BY <1>1, CalmInvariant, PTL

\* Every calm schedule implements the directory: a save enrols a client under a
\* client id nobody had before and an agent id nobody has now, a deletion
\* withdraws one client, all else leaves the directory alone.
THEOREM CalmImplementsDirectory == CalmSpec => ImplementsDirectory
<1>. DEFINE given == ClientIdsOf(clients \cup deleted)
<1>1. Init => Directory!Init
  BY DEF Init, Directory!Init, ClientIdsOf
<1>2. CalmInv /\ [Next /\ Calm']_vars => [Directory!Next]_Directory!bindings
  <2>. SUFFICES ASSUME CalmInv, [Next /\ Calm']_vars
                PROVE  Directory!Next \/ UNCHANGED <<clients, given>>
    BY DEF Directory!bindings
  <2>1. ASSUME NEW c \in Conns, SaveClient(c)
        PROVE  Directory!Enrol \/ UNCHANGED <<clients, given>>
    <3>1. UNCHANGED deleted /\ pc[c] = "save"
      BY <2>1 DEF SaveClient
    <3>2. CASE UNCHANGED clients
      BY <3>1, <3>2
    <3>3. CASE clients' = InsertOrReplace(clients, row[c])
      <4>1. /\ clients' = clients \cup {row[c]} /\ row[c] \notin clients
            /\ row[c].client_id \notin given
            /\ \A s \in clients : s.agent_id # row[c].agent_id
        BY <3>1, <3>3, CalmSaveAdds DEF AgentIdsOf
      <4>2. given' = given \cup {row[c].client_id}
        BY <3>1, <4>1 DEF ClientIdsOf
      <4>. QED  BY <4>1, <4>2 DEF Directory!Enrol
    <3>. QED  BY <2>1, <3>2, <3>3 DEF SaveClient
  <2>2. ASSUME NEW id \in doomed, DeleteClient(id)
        PROVE  Directory!Withdraw \/ UNCHANGED <<clients, given>>
    <3>1. /\ clients' = {r \in clients : r.client_id # id}
          /\ deleted' = deleted \cup {r \in clients : r.client_id = id}
      BY <2>2 DEF DeleteClient, DeleteByID
    <3>2. clients' \cup deleted' = clients \cup deleted
      BY <3>1
    <3>3. given' = given
      BY <3>2 DEF ClientIdsOf
    <3>4. CASE \A r \in clients : r.client_id # id
      BY <3>1, <3>3, <3>4
    <3>5. ASSUME NEW r \in clients, r.client_id = id  PROVE Directory!Withdraw
      <4>1. clients' = clients \ {r}
        BY <3>1, <3>5 DEF CalmInv, RegistryInv, KeysUnique, UniqueKeys
      <4>. QED  BY <3>3, <4>1 DEF Directory!Withdraw
    <3>. QED  BY <3>4, <3>5
  <2>3. CASE UNCHANGED <<clients, deleted>>
    BY <2>3
  <2>. QED
    BY <2>1, <2>2, <2>3
    DEF Directory!Next, Next, vars, serverVars, ghostVars, StartClient, Register, GenIDs,
        ReplyRegister, RequestOtp, MonitorLoad, AssignNext, DeleteLookup, RestartServer
<1>. QED
  BY <1>1, <1>2, CalmInvariant, PTL DEF CalmSpec, ImplementsDirectory, Directory!Spec
=============================================================================
