-------------------------- MODULE ServerTablesProofs --------------------------
(***************************************************************************)
(* Proofs about the two tables of the server, on which ApiSessions is      *)
(* built.                                                                  *)
(*                                                                         *)
(* ClientStatus, for every set of agent ids, users and assign requests:    *)
(* StatusInv is inductive, so no writer that works on a copy invents a     *)
(* sighting, and the writers together implement DeviceTable.               *)
(*                                                                         *)
(* UserAccounts, for every set of user names, values and requests:         *)
(* AccountInv is inductive, so a row holds only values asked for under its *)
(* own name, and the requests implement AccountTable.                      *)
(***************************************************************************)
EXTENDS ClientStatus, UserAccounts, FiniteSetTheorems, TLAPS

USE StatusAssumption DEF Ages, Stale

\* Every copy of a row, wherever it is held.
Assigning == {m \in Admins : assign[m] # Idle}
Copies    == clients \cup snapshot \cup {assign[m].client : m \in Assigning}

IdsOf(r) == [client_id |-> r.client_id, agent_id |-> r.agent_id]

\* Client ids are given once.
HoldersNumbered ==
    /\ IsFiniteSet(holders)
    /\ \A h \in holders : h.client_id \in 1..Cardinality(holders)
    /\ \A g, h \in holders : g.client_id = h.client_id => g = h

\* A hello is evidence for every row that has its agent id.
Evidence(a) == \E h \in holders : h.agent_id = a /\ h.client_id \in greeted

HelloIsEvidence ==
    /\ \A h \in hello : h.client_id \in greeted
    /\ \A a \in AgentIDs : helloLastSeen[a] # NULL => Evidence(a)

\* What holds of a copy, however old it is: a registration gave its ids, its
\* status has evidence, and its sighting is no younger than the last hello.
Held(r)     == IdsOf(r) \in holders
Seen(r)     == r.online \/ r.last_seen # NULL => Evidence(r.agent_id)
NotAhead(r) ==
    restarts = 0 /\ r.last_seen # NULL =>
        /\ helloLastSeen[r.agent_id] # NULL
        /\ helloLastSeen[r.agent_id] <= r.last_seen
Sound(r) == Held(r) /\ Seen(r) /\ NotAhead(r)

StatusInv ==
    /\ TypeOK
    /\ HoldersNumbered
    /\ HelloIsEvidence
    /\ UniqueKeys(clients)
    /\ \A r \in Copies : Sound(r)
    /\ \A m \in Assigning : assign[m].client.user_name \in Users

-----------------------------------------------------------------------------
(* Lemmas. *)

\* The shape of a row.
LEMMA RowFacts ==
    ASSUME NEW r \in Row
    PROVE  /\ DOMAIN r = {"client_id", "agent_id", "user_name", "last_seen", "online"}
           /\ r.client_id \in Nat /\ r.agent_id \in AgentIDs
           /\ r.user_name \in Users \cup {NULL} /\ r.last_seen \in 0..(Window + 1) \cup {NULL}
           /\ r.online \in BOOLEAN
BY DEF Row

\* A request that is not idle holds a row.
LEMMA RequestFacts ==
    ASSUME TypeOK, NEW m \in Admins
    PROVE  /\ assign[m] = Idle \/ assign[m].phase \in {"found", "update"}
           /\ assign[m] # Idle => m \in Assigning /\ assign[m].client \in Row
                                  /\ assign[m].phase # "idle"
           /\ assign[m].phase \in {"found", "update"} => assign[m] # Idle
           /\ assign[m].phase = "update" =>
                /\ assign[m].fields \subseteq Fields
                /\ assign[m] \in [phase : {"update"}, client : Row, fields : SUBSET Fields]
           /\ assign[m].phase = "found" =>
                assign[m] \in [phase : {"found"}, client : Row]
BY DEF TypeOK, AssignRequest, Idle, Assigning

LEMMA CopiesTyped == ASSUME TypeOK PROVE Copies \subseteq Row
BY RequestFacts DEF Copies, Assigning, TypeOK

\* Ageing keeps a row's columns but its last_seen.
LEMMA OlderFacts ==
    /\ \A age \in 0..(Window + 1) \cup {NULL} :
         /\ Older(age) \in 0..(Window + 1) \cup {NULL}
         /\ Older(age) = NULL <=> age = NULL
    /\ \A a, b \in 0..(Window + 1) : a <= b => Older(a) <= Older(b)
    /\ \A r \in Row :
         /\ OlderRow(r) \in Row
         /\ OlderRow(r).client_id = r.client_id /\ OlderRow(r).agent_id = r.agent_id
         /\ OlderRow(r).user_name = r.user_name /\ OlderRow(r).online = r.online
         /\ OlderRow(r).last_seen = Older(r.last_seen)
<1>1. \A age \in 0..(Window + 1) \cup {NULL} :
         /\ Older(age) \in 0..(Window + 1) \cup {NULL}
         /\ Older(age) = NULL <=> age = NULL
  BY DEF Older
<1>2. \A a, b \in 0..(Window + 1) : a <= b => Older(a) <= Older(b)
  BY DEF Older
<1>3. ASSUME NEW r \in Row
      PROVE  /\ OlderRow(r) \in Row
             /\ OlderRow(r).client_id = r.client_id /\ OlderRow(r).agent_id = r.agent_id
             /\ OlderRow(r).user_name = r.user_name /\ OlderRow(r).online = r.online
             /\ OlderRow(r).last_seen = Older(r.last_seen)
  BY <1>1 DEF OlderRow, Row
<1>. QED  BY <1>1, <1>2, <1>3

\* Two copies with one client id have one agent id.
LEMMA SameClient ==
    ASSUME StatusInv, NEW r \in Copies, NEW s \in Copies, r.client_id = s.client_id
    PROVE  r.agent_id = s.agent_id
BY DEF StatusInv, Sound, Held, IdsOf, HoldersNumbered

\* A step that forgets no evidence and lets no hello become older keeps a copy
\* sound.
LEMMA SoundStays ==
    ASSUME TypeOK, NEW r \in Row, Sound(r),
           holders \subseteq holders', greeted \subseteq greeted',
           restarts' = 0 => restarts = 0,
           restarts' = 0 => \A a \in AgentIDs : helloLastSeen[a] # NULL =>
               helloLastSeen'[a] # NULL /\ helloLastSeen'[a] <= helloLastSeen[a]
               /\ helloLastSeen'[a] \in Nat
    PROVE  Sound(r)'
<1>1. Held(r)' /\ Seen(r)'
  BY DEF Sound, Held, IdsOf, Seen, Evidence
<1>2. ASSUME restarts' = 0, r.last_seen # NULL
      PROVE  helloLastSeen'[r.agent_id] # NULL /\ helloLastSeen'[r.agent_id] <= r.last_seen
  <2>1. r.agent_id \in AgentIDs /\ r.last_seen \in Nat
    BY <1>2, RowFacts
  <2>2. /\ helloLastSeen[r.agent_id] # NULL /\ helloLastSeen[r.agent_id] <= r.last_seen
    BY <1>2, <2>1 DEF Sound, NotAhead
  <2>a. helloLastSeen[r.agent_id] \in Nat
    <3>1. helloLastSeen[r.agent_id] \in 0..(Window + 1) \cup {NULL}
      BY <2>1 DEF TypeOK
    <3>. QED  BY <2>2, <3>1
  <2>3. /\ helloLastSeen'[r.agent_id] # NULL /\ helloLastSeen'[r.agent_id] \in Nat
        /\ helloLastSeen'[r.agent_id] <= helloLastSeen[r.agent_id]
    BY <1>2, <2>1, <2>2
  <2>. QED  BY <2>1, <2>2, <2>3, <2>a
<1>. QED  BY <1>1, <1>2 DEF Sound, NotAhead

\* A step that leaves holders, hellos and restarts alone keeps StatusInv when
\* every row that is held after it has ids, evidence and age of earlier copies.
LEMMA CopyStep ==
    ASSUME StatusInv, TypeOK', UNCHANGED <<helloLastSeen, hello, holders, greeted, restarts>>,
           UniqueKeys(clients)',
           \A r \in Copies' : r \in Copies \/ Sound(r),
           \A m \in Assigning' : assign'[m].client.user_name \in Users
    PROVE  StatusInv'
<1>1. HoldersNumbered' /\ HelloIsEvidence'
  BY DEF StatusInv, HoldersNumbered, HelloIsEvidence, Evidence
<1>2. ASSUME NEW r, Sound(r)  PROVE Sound(r)'
  BY <1>2 DEF Sound, Held, Seen, NotAhead, Evidence, IdsOf
<1>3. \A r \in Copies' : Sound(r)'
  BY <1>2 DEF StatusInv
<1>. QED  BY <1>1, <1>3 DEF StatusInv

-----------------------------------------------------------------------------
(* Each action keeps the invariant. *)

LEMMA InitStatus == Init => StatusInv
<1> SUFFICES ASSUME Init PROVE StatusInv
  OBVIOUS
<1>1. TypeOK
  BY DEF Init, TypeOK, AssignRequest
<1>2. Copies = {} /\ Assigning = {}
  BY DEF Init, Copies, Assigning
<1>3. HoldersNumbered /\ HelloIsEvidence /\ UniqueKeys(clients)
  BY FS_EmptySet DEF Init, HoldersNumbered, HelloIsEvidence, UniqueKeys
<1>. QED  BY <1>1, <1>2, <1>3 DEF StatusInv

LEMMA TickStep == StatusInv /\ Tick => StatusInv'
<1> SUFFICES ASSUME StatusInv, Tick PROVE StatusInv'
  OBVIOUS
<1>0. TypeOK
  BY DEF StatusInv
<1>1. /\ helloLastSeen' = [a \in AgentIDs |-> Older(helloLastSeen[a])]
      /\ clients' = {OlderRow(r) : r \in clients}
      /\ snapshot' = {OlderRow(r) : r \in snapshot}
      /\ assign' = [m \in Admins |-> IF assign[m] = Idle THEN Idle
                                     ELSE [assign[m] EXCEPT !.client = OlderRow(@)]]
      /\ UNCHANGED <<hello, monitor, holders, greeted, restarts>>
  BY DEF Tick
<1>2. \A m \in Admins : assign[m] # Idle =>
          /\ assign'[m] # Idle /\ assign'[m].client = OlderRow(assign[m].client)
          /\ assign'[m] \in AssignRequest
  <2> SUFFICES ASSUME NEW m \in Admins, assign[m] # Idle
               PROVE  /\ assign'[m] # Idle /\ assign'[m].client = OlderRow(assign[m].client)
                      /\ assign'[m] \in AssignRequest
    OBVIOUS
  <2>1. assign'[m] = [assign[m] EXCEPT !.client = OlderRow(@)]
    BY <1>1
  <2>2. assign[m].client \in Row /\ OlderRow(assign[m].client) \in Row
    BY <1>0, RequestFacts, OlderFacts
  <2>3. CASE assign[m].phase = "found"
    BY <1>0, <2>1, <2>2, <2>3, RequestFacts DEF AssignRequest, Idle
  <2>4. CASE assign[m].phase = "update"
    BY <1>0, <2>1, <2>2, <2>4, RequestFacts DEF AssignRequest, Idle
  <2>. QED  BY <1>0, <2>3, <2>4, RequestFacts
<1>3. Assigning' = Assigning
  BY <1>1, <1>2 DEF Assigning
<1>4. TypeOK'
  <2>1. clients' \subseteq Row /\ snapshot' \subseteq Row
    BY <1>0, <1>1, OlderFacts DEF TypeOK
  <2>2. helloLastSeen' \in [AgentIDs -> Ages \cup {NULL}]
    BY <1>0, <1>1, OlderFacts DEF TypeOK
  <2>3. assign' \in [Admins -> AssignRequest]
    BY <1>1, <1>2 DEF AssignRequest
  <2>. QED  BY <1>0, <1>1, <2>1, <2>2, <2>3 DEF TypeOK
<1>5. \A s \in Copies' : \E r \in Copies : s = OlderRow(r)
  BY <1>1, <1>2, <1>3 DEF Copies, Assigning
<1>6. ASSUME NEW r \in Copies  PROVE Sound(OlderRow(r))'
  <2>1. r \in Row /\ Sound(r)
    BY <1>0, CopiesTyped DEF StatusInv
  <2>2. Held(OlderRow(r))' /\ Seen(OlderRow(r))'
    BY <1>1, <2>1, OlderFacts, RowFacts DEF Sound, Held, Seen, IdsOf, Evidence
  <2>3. ASSUME restarts = 0, r.last_seen # NULL
        PROVE  /\ helloLastSeen'[r.agent_id] # NULL
               /\ helloLastSeen'[r.agent_id] <= Older(r.last_seen)
    <3>1. r.agent_id \in AgentIDs /\ r.last_seen \in 0..(Window + 1)
      BY <2>1, <2>3, RowFacts
    <3>2. /\ helloLastSeen[r.agent_id] # NULL
          /\ helloLastSeen[r.agent_id] \in 0..(Window + 1) \cup {NULL}
          /\ helloLastSeen[r.agent_id] <= r.last_seen
      BY <1>0, <2>1, <2>3, <3>1 DEF Sound, NotAhead, TypeOK
    <3>3. helloLastSeen'[r.agent_id] = Older(helloLastSeen[r.agent_id])
      BY <1>1, <3>1
    <3>4. helloLastSeen[r.agent_id] \in 0..(Window + 1)
      BY <3>2
    <3>. QED  BY <3>1, <3>2, <3>3, <3>4, OlderFacts
  <2>4. r.last_seen \in 0..(Window + 1) \cup {NULL}
    BY <2>1, RowFacts
  <2>. QED  BY <1>1, <2>1, <2>2, <2>3, <2>4, OlderFacts DEF Sound, NotAhead
<1>7. UniqueKeys(clients)'
  <2>1. \A r \in clients : OlderRow(r).client_id = r.client_id /\ OlderRow(r).agent_id = r.agent_id
    BY <1>0, OlderFacts DEF TypeOK
  <2>. QED  BY <1>1, <2>1 DEF StatusInv, UniqueKeys
<1>8. HelloIsEvidence' /\ HoldersNumbered'
  <2>1. \A a \in AgentIDs : helloLastSeen'[a] # NULL => helloLastSeen[a] # NULL
    <3>1. \A a \in AgentIDs : helloLastSeen[a] \in 0..(Window + 1) \cup {NULL}
      BY <1>0 DEF TypeOK
    <3>. QED  BY <1>1, <3>1, OlderFacts
  <2>. QED  BY <1>1, <2>1 DEF StatusInv, HelloIsEvidence, HoldersNumbered, Evidence
<1>9. \A m \in Assigning' : assign'[m].client.user_name \in Users
  <2>1. \A m \in Assigning : m \in Admins /\ assign[m] # Idle /\ assign[m].client \in Row
    BY <1>0, RequestFacts DEF Assigning
  <2>. QED  BY <1>2, <1>3, <2>1, OlderFacts DEF StatusInv
<1>. QED  BY <1>4, <1>5, <1>6, <1>7, <1>8, <1>9 DEF StatusInv

LEMMA RegisterStep == ASSUME StatusInv, NEW a \in AgentIDs, Register(a) PROVE StatusInv'
<1> DEFINE new == [client_id |-> Cardinality(holders) + 1, agent_id |-> a,
                   user_name |-> NULL, last_seen |-> NULL, online |-> FALSE]
           id  == [client_id |-> Cardinality(holders) + 1, agent_id |-> a]
<1>0. TypeOK /\ HoldersNumbered
  BY DEF StatusInv
<1>1. /\ clients' = InsertOrReplace(clients, new) /\ holders' = holders \cup {id}
      /\ UNCHANGED <<helloLastSeen, hello, monitor, snapshot, assign, greeted, restarts>>
  BY DEF Register
<1>2. Cardinality(holders) \in Nat /\ id \notin holders
      /\ IsFiniteSet(holders') /\ Cardinality(holders') = Cardinality(holders) + 1
  <2>1. Cardinality(holders) \in Nat
    BY <1>0, FS_CardinalityType DEF HoldersNumbered
  <2>2. id \notin holders
    BY <1>0, <2>1 DEF HoldersNumbered
  <2>. QED  BY <1>0, <1>1, <2>1, <2>2, FS_AddElement DEF HoldersNumbered
<1>3. new \in Row /\ id \in Ids /\ IdsOf(new) = id
  BY <1>2 DEF Row, Ids, IdsOf
<1>4. Copies' \subseteq Copies \cup {new}
  BY <1>1 DEF Copies, Assigning, InsertOrReplace
<1>5. TypeOK'
  BY <1>0, <1>1, <1>3 DEF TypeOK, InsertOrReplace
<1>6. HoldersNumbered'
  <2>1. \A h \in holders : h.client_id \in 1..Cardinality(holders)
    BY <1>0 DEF HoldersNumbered
  <2>2. /\ \A h \in holders' : h.client_id \in 1..Cardinality(holders')
        /\ \A h \in holders : h.client_id # id.client_id
    BY <1>1, <1>2, <2>1
  <2>3. \A g, h \in holders' : g.client_id = h.client_id => g = h
    <3> HIDE DEF id
    <3>. QED  BY <1>0, <1>1, <2>2 DEF HoldersNumbered
  <2>. QED  BY <1>2, <2>2, <2>3 DEF HoldersNumbered
<1>7. HelloIsEvidence'
  BY <1>1 DEF StatusInv, HelloIsEvidence, Evidence
<1>8. UniqueKeys(clients)'
  BY <1>1 DEF StatusInv, UniqueKeys, InsertOrReplace
<1>9. ASSUME NEW r \in Copies, Sound(r)  PROVE Sound(r)'
  BY <1>1, <1>9 DEF Sound, Held, Seen, NotAhead, Evidence, IdsOf
<1>10. ASSUME NEW r, r = new  PROVE Sound(r)'
  <2>1. r.online = FALSE /\ r.last_seen = NULL /\ IdsOf(r) \in holders'
    BY <1>1, <1>3, <1>10
  <2>. QED  BY <2>1 DEF Sound, Held, Seen, NotAhead, IdsOf
<1>11. \A m \in Assigning' : assign'[m].client.user_name \in Users
  BY <1>1 DEF StatusInv, Assigning
<1>. QED
  <2> HIDE DEF new, id
  <2>. QED  BY <1>4, <1>5, <1>6, <1>7, <1>8, <1>9, <1>10, <1>11 DEF StatusInv

LEMMA HelloCheckStep == ASSUME StatusInv, NEW h \in holders, HelloCheck(h) PROVE StatusInv'
<1>0. TypeOK
  BY DEF StatusInv
<1>1. /\ hello' = hello \cup {h} /\ greeted' = greeted \cup {h.client_id}
      /\ UNCHANGED <<clients, helloLastSeen, monitor, snapshot, assign, holders, restarts>>
  BY DEF HelloCheck
<1>2. TypeOK'
  BY <1>0, <1>1 DEF TypeOK, Ids
<1>3. HoldersNumbered' /\ HelloIsEvidence' /\ UniqueKeys(clients)'
  BY <1>1 DEF StatusInv, HoldersNumbered, HelloIsEvidence, Evidence
<1>4. ASSUME NEW r \in Copies, Sound(r)  PROVE Sound(r)'
  BY <1>1, <1>4 DEF Sound, Held, Seen, NotAhead, Evidence, IdsOf
<1>5. Copies' = Copies /\ Assigning' = Assigning
  BY <1>1 DEF Copies, Assigning
<1>. QED  BY <1>1, <1>2, <1>3, <1>4, <1>5 DEF StatusInv

LEMMA HelloRecordStep == ASSUME StatusInv, NEW h \in holders, HelloRecord(h) PROVE StatusInv'
<1>0. TypeOK
  BY DEF StatusInv
<1>1. /\ h \in hello /\ hello' = hello \ {h}
      /\ helloLastSeen' = [helloLastSeen EXCEPT ![h.agent_id] = 0]
      /\ UNCHANGED <<clients, monitor, snapshot, assign, holders, greeted, restarts>>
  BY DEF HelloRecord
<1>2. h.agent_id \in AgentIDs
  BY <1>0 DEF TypeOK, Ids
<1>3. TypeOK'
  <2>1. 0 \in Ages
    OBVIOUS
  <2>2. helloLastSeen' \in [AgentIDs -> Ages \cup {NULL}]
    BY <1>0, <1>1, <2>1 DEF TypeOK
  <2>. QED  BY <1>0, <1>1, <2>2 DEF TypeOK
<1>4. HelloIsEvidence'
  <2>1. Evidence(h.agent_id)
    BY <1>1 DEF StatusInv, HelloIsEvidence, Evidence
  <2>2. \A a \in AgentIDs : a # h.agent_id => helloLastSeen'[a] = helloLastSeen[a]
    BY <1>0, <1>1 DEF TypeOK
  <2>. QED  BY <1>1, <2>1, <2>2 DEF StatusInv, HelloIsEvidence, Evidence
<1>5. \A a \in AgentIDs : helloLastSeen[a] # NULL =>
          helloLastSeen'[a] # NULL /\ helloLastSeen'[a] <= helloLastSeen[a]
          /\ helloLastSeen'[a] \in Nat
  <2> SUFFICES ASSUME NEW a \in AgentIDs, helloLastSeen[a] # NULL
               PROVE  helloLastSeen'[a] # NULL /\ helloLastSeen'[a] <= helloLastSeen[a]
                      /\ helloLastSeen'[a] \in Nat
    OBVIOUS
  <2>1. helloLastSeen[a] \in 0..(Window + 1) \cup {NULL}
    BY <1>0 DEF TypeOK
  <2>2. helloLastSeen[a] \in Nat
    BY <2>1
  <2>3. helloLastSeen'[a] = IF a = h.agent_id THEN 0 ELSE helloLastSeen[a]
    BY <1>0, <1>1 DEF TypeOK
  <2>. QED  BY <2>2, <2>3
<1>6. Copies' = Copies /\ Assigning' = Assigning
  BY <1>1 DEF Copies, Assigning
<1>7. \A r \in Copies : r \in Row /\ Sound(r)
  BY <1>0, CopiesTyped DEF StatusInv
<1>8. ASSUME NEW r \in Copies  PROVE Sound(r)'
  BY <1>0, <1>1, <1>5, <1>7, SoundStays
<1>. QED  BY <1>1, <1>3, <1>4, <1>6, <1>8 DEF StatusInv, HoldersNumbered

\* The three steps of the status loop.
LEMMA MonitorStep == StatusInv /\ Monitor => StatusInv'
<1> SUFFICES ASSUME StatusInv, Monitor PROVE StatusInv'
  OBVIOUS
<1>0. TypeOK /\ \A r \in Copies : r \in Row /\ Sound(r)
  BY CopiesTyped DEF StatusInv
<1>1. CASE MonitorLoad
  <2>1. TypeOK'
    BY <1>0, <1>1 DEF MonitorLoad, TypeOK
  <2>2. Copies' \subseteq Copies /\ Assigning' = Assigning
    BY <1>1 DEF MonitorLoad, Copies, Assigning
  <2>. QED  BY <1>1, <2>1, <2>2, CopyStep DEF MonitorLoad, StatusInv
<1>2. CASE MonitorCompute
  <2> DEFINE new(r) == [r EXCEPT !.online = IsOnline(r.agent_id),
                                 !.last_seen = IF IsOnline(r.agent_id)
                                               THEN SeenAt(r.agent_id) ELSE @]
  <2>1. /\ snapshot' = {new(r) : r \in snapshot} /\ monitor' = "write"
        /\ UNCHANGED <<clients, helloLastSeen, hello, assign, holders, greeted, restarts>>
    BY <1>2 DEF MonitorCompute
  <2>2. ASSUME NEW r \in snapshot  PROVE new(r) \in Row /\ Sound(new(r))
    <3>1. r \in Row /\ Sound(r)
      BY <1>0 DEF Copies
    <3>2. /\ r.agent_id \in AgentIDs
          /\ helloLastSeen[r.agent_id] \in 0..(Window + 1) \cup {NULL}
      BY <1>0, <3>1, RowFacts DEF TypeOK
    <3>a. IsOnline(r.agent_id) \in BOOLEAN
      BY DEF IsOnline
    <3>3. IsOnline(r.agent_id) => /\ helloLastSeen[r.agent_id] \in 0..Window
                                  /\ helloLastSeen[r.agent_id] \in Nat
                                  /\ helloLastSeen[r.agent_id] # NULL
                                  /\ Evidence(r.agent_id)
      <4>1. IsOnline(r.agent_id) => /\ helloLastSeen[r.agent_id] \in 0..Window
                                    /\ helloLastSeen[r.agent_id] \in Nat
        BY <3>2 DEF IsOnline
      <4>. QED  BY <3>2, <4>1 DEF StatusInv, HelloIsEvidence
    <3>4. /\ new(r) \in Row /\ IdsOf(new(r)) = IdsOf(r) /\ new(r).agent_id = r.agent_id
          /\ new(r).online = IsOnline(r.agent_id)
          /\ new(r).last_seen = IF IsOnline(r.agent_id)
                                THEN helloLastSeen[r.agent_id] ELSE r.last_seen
      BY <3>1, <3>2, <3>3, <3>a, RowFacts DEF Row, SeenAt, IdsOf
    <3>5. CASE IsOnline(r.agent_id)
      BY <3>1, <3>3, <3>4, <3>5 DEF Sound, Held, Seen, NotAhead
    <3>6. CASE ~IsOnline(r.agent_id)
      BY <3>1, <3>4, <3>6 DEF Sound, Held, Seen, NotAhead
    <3>. QED  BY <3>4, <3>5, <3>6
  <2> HIDE DEF new
  <2>3. TypeOK'
    BY <1>0, <2>1, <2>2 DEF TypeOK
  <2>4. Assigning' = Assigning /\ \A r \in Copies' : r \in Copies \/ Sound(r)
    BY <2>1, <2>2 DEF Copies, Assigning
  <2>. QED  BY <2>1, <2>3, <2>4, CopyStep DEF StatusInv
<1>3. CASE MonitorWrite
  <2>1. CASE snapshot = {}
    <3>1. UNCHANGED <<clients, snapshot, helloLastSeen, hello, assign, holders, greeted, restarts>>
          /\ monitor' = "load"
      BY <1>3, <2>1 DEF MonitorWrite
    <3>2. TypeOK' /\ Copies' = Copies /\ Assigning' = Assigning
      BY <1>0, <3>1 DEF TypeOK, Copies, Assigning
    <3>. QED  BY <3>1, <3>2, CopyStep DEF StatusInv
  <2>2. ASSUME NEW r \in snapshot,
               clients' = UpdateClientStatus(clients, r.agent_id, r.online, r.last_seen),
               snapshot' = snapshot \ {r},
               UNCHANGED <<monitor, helloLastSeen, hello, assign, holders, greeted, restarts>>
        PROVE  StatusInv'
    <3> DEFINE new(s) == IF s.agent_id = r.agent_id
                         THEN [s EXCEPT !.online = r.online, !.last_seen = r.last_seen]
                         ELSE s
    <3>1. clients' = {new(s) : s \in clients}
      BY <2>2 DEF UpdateClientStatus
    <3>2. ASSUME NEW s \in clients
          PROVE  new(s) \in Row /\ Sound(new(s)) /\ new(s).client_id = s.client_id
                 /\ new(s).agent_id = s.agent_id
      <4>1. s \in Row /\ Sound(s) /\ r \in Row /\ Sound(r)
        BY <1>0, <2>2 DEF Copies
      <4>2. CASE s.agent_id = r.agent_id
        <5>1. /\ new(s) \in Row /\ IdsOf(new(s)) = IdsOf(s)
              /\ new(s).client_id = s.client_id /\ new(s).agent_id = r.agent_id
              /\ new(s).online = r.online /\ new(s).last_seen = r.last_seen
          BY <4>1, <4>2, RowFacts DEF Row, IdsOf
        <5>. QED  BY <4>1, <4>2, <5>1 DEF Sound, Held, Seen, NotAhead
      <4>. QED  BY <4>1, <4>2
    <3> HIDE DEF new
    <3>3. TypeOK'
      BY <1>0, <2>2, <3>1, <3>2 DEF TypeOK
    <3>4. Assigning' = Assigning /\ \A s \in Copies' : s \in Copies \/ Sound(s)
      BY <2>2, <3>1, <3>2 DEF Copies, Assigning
    <3>5. UniqueKeys(clients)'
      BY <3>1, <3>2 DEF StatusInv, UniqueKeys
    <3>. QED  BY <2>2, <3>3, <3>4, <3>5, CopyStep DEF StatusInv
  <2>. QED  BY <1>3, <2>1, <2>2 DEF MonitorWrite
<1>. QED  BY <1>1, <1>2, <1>3 DEF Monitor

LEMMA AssignFindStep ==
    ASSUME StatusInv, NEW m \in Admins, NEW u \in Users, AssignFind(m, u)
    PROVE  StatusInv'
<1>0. TypeOK /\ \A r \in Copies : r \in Row /\ Sound(r)
  BY CopiesTyped DEF StatusInv
<1>1. PICK r \in clients :
        assign' = [assign EXCEPT ![m] = [phase |-> "found",
                                         client |-> [r EXCEPT !.user_name = u]]]
  BY DEF AssignFind
<1> DEFINE new == [r EXCEPT !.user_name = u]
<1>2. UNCHANGED <<clients, helloLastSeen, hello, monitor, snapshot, holders, greeted, restarts>>
  BY DEF AssignFind
<1>3. /\ r \in Row /\ Sound(r)
      /\ new \in Row /\ IdsOf(new) = IdsOf(r) /\ new.agent_id = r.agent_id
      /\ new.online = r.online /\ new.last_seen = r.last_seen /\ new.user_name = u
  BY <1>0 DEF Copies, Row, IdsOf
<1>4. Sound(new)
  BY <1>3 DEF Sound, Held, Seen, NotAhead
<1> HIDE DEF new
<1>5. /\ \A l \in Admins : l # m => assign'[l] = assign[l]
      /\ assign'[m] = [phase |-> "found", client |-> new]
  BY <1>0, <1>1 DEF TypeOK, new
<1>6. TypeOK'
  BY <1>0, <1>1, <1>2, <1>3 DEF TypeOK, AssignRequest, new
<1>7. \A s \in Copies' : s \in Copies \/ s = new
  BY <1>2, <1>5 DEF Copies, Assigning
<1>8. \A l \in Assigning' : assign'[l].client.user_name \in Users
  BY <1>3, <1>5 DEF StatusInv, Assigning
<1>. QED  BY <1>2, <1>4, <1>6, <1>7, <1>8, CopyStep DEF StatusInv

LEMMA AssignRereadStep ==
    ASSUME StatusInv, NEW m \in Admins, AssignReread(m)
    PROVE  StatusInv'
<1>0. TypeOK
  BY DEF StatusInv
<1>1. /\ assign[m] # Idle /\ assign[m].client \in Row
      /\ UNCHANGED <<clients, helloLastSeen, hello, monitor, snapshot, holders, greeted, restarts>>
  BY <1>0, RequestFacts DEF AssignReread
<1>2. PICK existing :
        assign' = [assign EXCEPT ![m] =
            IF existing = NULL \/ ChangedFields(assign[m].client, existing) = {} THEN Idle
            ELSE [phase |-> "update", client |-> assign[m].client,
                  fields |-> ChangedFields(assign[m].client, existing)]]
  BY DEF AssignReread
<1> DEFINE fields == ChangedFields(assign[m].client, existing)
<1>3. fields \subseteq Fields
  BY DEF ChangedFields
<1> HIDE DEF fields
<1>4. /\ \A l \in Admins : l # m => assign'[l] = assign[l]
      /\ \/ assign'[m] = Idle
         \/ assign'[m] = [phase |-> "update", client |-> assign[m].client, fields |-> fields]
  BY <1>0, <1>2 DEF TypeOK, fields
<1>5. assign' \in [Admins -> AssignRequest]
  <2>1. assign'[m] \in AssignRequest
    BY <1>1, <1>3, <1>4 DEF AssignRequest
  <2>. QED  BY <1>0, <1>2, <2>1 DEF TypeOK
<1>6. TypeOK'
  BY <1>0, <1>1, <1>5 DEF TypeOK
<1>7. /\ Assigning' \subseteq Assigning
      /\ \A l \in Assigning' : assign'[l].client = assign[l].client
  BY <1>1, <1>4 DEF Assigning
<1>8. Copies' \subseteq Copies
  BY <1>1, <1>7 DEF Copies
<1>. QED  BY <1>1, <1>6, <1>7, <1>8, CopyStep DEF StatusInv

\* What the UPDATE of an assign request writes into a row: the row keeps its ids.
LEMMA UpdatedRow ==
    ASSUME StatusInv, NEW m \in Admins, assign[m].phase = "update",
           NEW r \in clients, r.client_id = assign[m].client.client_id,
           NEW new, new = [f \in DOMAIN r |-> IF f \in assign[m].fields
                                              THEN assign[m].client[f] ELSE r[f]]
    PROVE  /\ new \in Row /\ Sound(new)
           /\ new.client_id = r.client_id /\ new.agent_id = r.agent_id
           /\ new.user_name = IF "user_name" \in assign[m].fields
                              THEN assign[m].client.user_name ELSE r.user_name
<1> DEFINE c == assign[m].client
           F == assign[m].fields
<1>0. TypeOK
  BY DEF StatusInv
<1>1. m \in Assigning /\ c \in Row /\ c \in Copies /\ r \in Row /\ r \in Copies /\ F \subseteq Fields
  BY <1>0, RequestFacts DEF Copies, TypeOK
<1>2. c.agent_id = r.agent_id /\ c.client_id = r.client_id /\ Sound(c) /\ Sound(r)
  BY <1>1, SameClient DEF StatusInv
<1> HIDE DEF c, F
<1>3. /\ new.client_id = r.client_id /\ new.agent_id = r.agent_id
      /\ new.user_name = IF "user_name" \in F THEN c.user_name ELSE r.user_name
      /\ new.last_seen = IF "last_seen" \in F THEN c.last_seen ELSE r.last_seen
      /\ new.online = IF "online" \in F THEN c.online ELSE r.online
      /\ new = [client_id |-> new.client_id, agent_id |-> new.agent_id,
                user_name |-> new.user_name, last_seen |-> new.last_seen,
                online |-> new.online]
  <2>1. DOMAIN r = {"client_id", "agent_id", "user_name", "last_seen", "online"}
    BY <1>1, RowFacts
  <2>2. new = [f \in {"client_id", "agent_id", "user_name", "last_seen", "online"} |->
                 IF f \in F THEN c[f] ELSE r[f]]
    BY <2>1 DEF c, F
  <2>. QED  BY <1>1, <2>2 DEF Fields
<1>4. new \in Row
  <2>1. /\ new.client_id \in Nat /\ new.agent_id \in AgentIDs
        /\ new.user_name \in Users \cup {NULL} /\ new.last_seen \in Ages \cup {NULL}
        /\ new.online \in BOOLEAN
    BY <1>1, <1>3, RowFacts
  <2>. QED  BY <1>3, <2>1 DEF Row
<1>5. Held(new)
  BY <1>2, <1>3 DEF Sound, Held, IdsOf
<1>6. Seen(new) /\ NotAhead(new)
  BY <1>2, <1>3 DEF Sound, Seen, NotAhead
<1>. QED  BY <1>3, <1>4, <1>5, <1>6 DEF Sound, c, F

LEMMA AssignUpdateStep ==
    ASSUME StatusInv, NEW m \in Admins, AssignUpdate(m)
    PROVE  StatusInv'
<1> DEFINE written(r) == [f \in DOMAIN r |-> IF f \in assign[m].fields
                                             THEN assign[m].client[f] ELSE r[f]]
           new(r) == IF r.client_id = assign[m].client.client_id THEN written(r) ELSE r
<1>0. TypeOK
  BY DEF StatusInv
<1>1. /\ assign[m].phase = "update"
      /\ clients' = {new(r) : r \in clients} /\ assign' = [assign EXCEPT ![m] = Idle]
      /\ UNCHANGED <<helloLastSeen, hello, monitor, snapshot, holders, greeted, restarts>>
  BY DEF AssignUpdate
<1>2. ASSUME NEW r \in clients
      PROVE  new(r) \in Row /\ Sound(new(r)) /\ new(r).client_id = r.client_id
             /\ new(r).agent_id = r.agent_id
  <2>1. r \in Row /\ Sound(r)
    BY <1>0, CopiesTyped DEF StatusInv, Copies
  <2>2. CASE r.client_id = assign[m].client.client_id
    <3>1. new(r) = written(r)
      BY <2>2
    <3>. QED  BY <1>1, <2>2, <3>1, UpdatedRow
  <2>. QED  BY <2>1, <2>2
<1> HIDE DEF new, written
<1>3. /\ Assigning' \subseteq Assigning
      /\ \A l \in Assigning' : assign'[l] = assign[l]
  BY <1>0, <1>1 DEF Assigning, TypeOK
<1>4. TypeOK'
  BY <1>0, <1>1, <1>2 DEF TypeOK, AssignRequest
<1>5. \A s \in Copies' : s \in Copies \/ Sound(s)
  BY <1>1, <1>2, <1>3 DEF Copies
<1>6. UniqueKeys(clients)'
  BY <1>1, <1>2 DEF StatusInv, UniqueKeys
<1>. QED  BY <1>1, <1>3, <1>4, <1>5, <1>6, CopyStep DEF StatusInv

LEMMA DeleteStep ==
    ASSUME StatusInv, NEW r \in clients, DeleteClient(r)
    PROVE  StatusInv'
<1>1. /\ clients' \subseteq clients
      /\ UNCHANGED <<helloLastSeen, hello, monitor, snapshot, assign, holders, greeted, restarts>>
  BY DEF DeleteClient, DeleteByID
<1>2. TypeOK' /\ UniqueKeys(clients)'
  BY <1>1 DEF StatusInv, TypeOK, UniqueKeys
<1>3. Copies' \subseteq Copies /\ Assigning' = Assigning
  BY <1>1 DEF Copies, Assigning
<1>. QED  BY <1>1, <1>2, <1>3, CopyStep DEF StatusInv

\* After a restart nothing but the table is left, and its rows are older than any
\* hello that is remembered.
LEMMA RestartStep == StatusInv /\ RestartServer => StatusInv'
<1> SUFFICES ASSUME StatusInv, RestartServer PROVE StatusInv'
  OBVIOUS
<1>0. TypeOK
  BY DEF StatusInv
<1>1. /\ restarts < MaxRestarts /\ restarts' = restarts + 1
      /\ helloLastSeen' = [a \in AgentIDs |-> NULL]
      /\ hello' = {} /\ monitor' = "load" /\ snapshot' = {}
      /\ assign' = [m \in Admins |-> Idle]
      /\ UNCHANGED <<clients, holders, greeted>>
  BY DEF RestartServer
<1>2. TypeOK'
  BY <1>0, <1>1 DEF TypeOK, AssignRequest
<1>3. Copies' \subseteq Copies /\ Assigning' = {}
  BY <1>1 DEF Copies, Assigning
<1>4. restarts' # 0
  BY <1>0, <1>1 DEF TypeOK
<1>5. ASSUME NEW r \in Copies, Sound(r)  PROVE Sound(r)'
  BY <1>1, <1>4, <1>5 DEF Sound, Held, Seen, NotAhead, Evidence, IdsOf
<1>6. HelloIsEvidence' /\ HoldersNumbered' /\ UniqueKeys(clients)'
  BY <1>1 DEF StatusInv, HelloIsEvidence, HoldersNumbered
<1>. QED  BY <1>2, <1>3, <1>5, <1>6 DEF StatusInv

LEMMA StatusStep == StatusInv /\ [Next]_vars => StatusInv'
<1> SUFFICES ASSUME StatusInv, [Next]_vars PROVE StatusInv'
  OBVIOUS
<1>1. CASE UNCHANGED vars
  <2>1. Copies' = Copies /\ Assigning' = Assigning
    BY <1>1 DEF vars, Copies, Assigning
  <2>2. TypeOK' /\ UniqueKeys(clients)'
    BY <1>1 DEF vars, StatusInv, TypeOK
  <2>. QED  BY <1>1, <2>1, <2>2, CopyStep DEF vars, StatusInv
<1>2. CASE Next
  <2>1. ASSUME NEW m \in Admins,
               (\E u \in Users : AssignFind(m, u)) \/ AssignReread(m) \/ AssignUpdate(m)
        PROVE  StatusInv'
    BY <2>1, AssignFindStep, AssignRereadStep, AssignUpdateStep
  <2>2. ASSUME NEW h \in holders, HelloCheck(h) \/ HelloRecord(h)  PROVE StatusInv'
    BY <2>2, HelloCheckStep, HelloRecordStep
  <2>. QED  BY <1>2, <2>1, <2>2, TickStep, RegisterStep, MonitorStep, DeleteStep, RestartStep
            DEF Next
<1>. QED  BY <1>1, <1>2

-----------------------------------------------------------------------------
(* The theorems. *)

LEMMA StatusInvariant == Spec => []StatusInv
BY InitStatus, StatusStep, PTL DEF Spec

\* Types: the table, the map of hellos, the snapshot and the requests' copies.
THEOREM TypeCorrect == Spec => []TypeOK
<1>1. StatusInv => TypeOK
  BY DEF StatusInv
<1>. QED  BY StatusInvariant, <1>1, PTL

\* No writer of online and last_seen, however old its copy, shows an agent that
\* never said hello as seen.
THEOREM StatusesHaveEvidence == Spec => []StatusHasEvidence
<1>1. StatusInv => StatusHasEvidence
  BY DEF StatusInv, StatusHasEvidence, Copies, Sound, Seen, Evidence
<1>. QED  BY StatusInvariant, <1>1, PTL

\* Nor does one date a sighting after the last hello.
THEOREM SightingsNotAhead == Spec => []LastSeenNotAhead
<1>1. StatusInv => LastSeenNotAhead
  BY DEF StatusInv, LastSeenNotAhead, Copies, Sound, NotAhead
<1>. QED  BY StatusInvariant, <1>1, PTL

-----------------------------------------------------------------------------
(* The writers implement DeviceTable. *)

\* A row as the sessions see it, and the table of these.
DeviceOf(r) == [client_id |-> r.client_id, agent_id |-> r.agent_id, user_name |-> r.user_name]
Mapped == {DeviceOf(r) : r \in clients}

\* A registration removes no row but those that have its agent id.
LEMMA RegisterEnrols ==
    ASSUME StatusInv, NEW a \in AgentIDs, Register(a)
    PROVE  Devices!Enrol(a)
<1> DEFINE new == [client_id |-> Cardinality(holders) + 1, agent_id |-> a,
                   user_name |-> NULL, last_seen |-> NULL, online |-> FALSE]
           id  == [client_id |-> Cardinality(holders) + 1, agent_id |-> a]
<1>1. clients' = InsertOrReplace(clients, new) /\ holders' = holders \cup {id}
  BY DEF Register
<1>2. /\ \A r \in clients : IdsOf(r) \in holders
      /\ HoldersNumbered
  BY DEF StatusInv, Copies, Sound, Held
<1>3. Cardinality(holders) \in Nat
  BY <1>2, FS_CardinalityType DEF HoldersNumbered
<1>4. \A r \in clients : r.client_id # new.client_id
  <2>1. \A h \in holders : h.client_id # Cardinality(holders) + 1
    BY <1>2, <1>3 DEF HoldersNumbered
  <2>2. \A r \in clients : IdsOf(r).client_id = r.client_id
    BY DEF IdsOf
  <2>. QED  BY <1>2, <2>1, <2>2
<1>5. Cardinality(holders') = Cardinality(holders) + 1
  <2>1. id \notin holders
    BY <1>2, <1>3 DEF HoldersNumbered
  <2>. QED  BY <1>1, <1>2, <2>1, FS_AddElement DEF HoldersNumbered
<1>6. clients' = {r \in clients : r.agent_id # a} \cup {new}
  BY <1>1, <1>4 DEF InsertOrReplace
<1>7. DeviceOf(new) = [client_id |-> Cardinality(holders) + 1, agent_id |-> a,
                       user_name |-> NULL]
  BY DEF DeviceOf
<1>8. Mapped' = {d \in Mapped : d.agent_id # a} \cup {DeviceOf(new)}
  <2> HIDE DEF new
  <2>1. \A r : DeviceOf(r).agent_id = r.agent_id
    BY DEF DeviceOf
  <2>. QED  BY <1>6, <2>1 DEF Mapped
<1>. QED  BY <1>5, <1>7, <1>8 DEF Devices!Enrol, Mapped, DeviceOf

\* The UPDATE of an assign request gives one device a user, or changes none.
LEMMA UpdateAssigns ==
    ASSUME StatusInv, NEW m \in Admins, AssignUpdate(m)
    PROVE  \/ Mapped' = Mapped
           \/ \E d \in Mapped, u \in Users : Mapped' = (Mapped \ {d}) \cup {[d EXCEPT !.user_name = u]}
<1> DEFINE c == assign[m].client
           written(r) == [f \in DOMAIN r |-> IF f \in assign[m].fields THEN c[f] ELSE r[f]]
           new(r) == IF r.client_id = c.client_id THEN written(r) ELSE r
<1>1. assign[m].phase = "update" /\ clients' = {new(r) : r \in clients}
  BY DEF AssignUpdate
<1>2. c.user_name \in Users
  <2>1. m \in Assigning
    BY <1>1, RequestFacts DEF StatusInv
  <2>. QED  BY <2>1 DEF StatusInv
<1>3. ASSUME NEW r \in clients, r.client_id = c.client_id
      PROVE  DeviceOf(new(r)) = [DeviceOf(r) EXCEPT !.user_name =
                                   IF "user_name" \in assign[m].fields THEN c.user_name ELSE @]
  <2>1. new(r) = written(r)
    BY <1>3
  <2>2. /\ written(r).client_id = r.client_id /\ written(r).agent_id = r.agent_id
        /\ written(r).user_name = IF "user_name" \in assign[m].fields
                                  THEN c.user_name ELSE r.user_name
    BY <1>1, <1>3, UpdatedRow
  <2> HIDE DEF written, new, c
  <2>. QED  BY <2>1, <2>2 DEF DeviceOf
<1>4. \A r \in clients : r.client_id # c.client_id => new(r) = r
  OBVIOUS
<1>5. CASE \E r \in clients : r.client_id = c.client_id /\ "user_name" \in assign[m].fields
  <2>1. PICK r \in clients : r.client_id = c.client_id /\ "user_name" \in assign[m].fields
    BY <1>5
  <2>2. \A s \in clients : s # r => s.client_id # c.client_id /\ DeviceOf(s) # DeviceOf(r)
    BY <2>1 DEF StatusInv, UniqueKeys, DeviceOf
  <2>3. DeviceOf(new(r)) = [DeviceOf(r) EXCEPT !.user_name = c.user_name]
    BY <1>3, <2>1
  <2> HIDE DEF new
  <2>4. Mapped' = (Mapped \ {DeviceOf(r)}) \cup {DeviceOf(new(r))}
    BY <1>1, <1>4, <2>2 DEF Mapped
  <2>. QED  BY <1>2, <2>3, <2>4 DEF Mapped
<1>6. CASE ~ \E r \in clients : r.client_id = c.client_id /\ "user_name" \in assign[m].fields
  <2>1. \A r \in clients : DeviceOf(new(r)) = DeviceOf(r)
    <3> SUFFICES ASSUME NEW r \in clients PROVE DeviceOf(new(r)) = DeviceOf(r)
      OBVIOUS
    <3>1. CASE r.client_id = c.client_id
      BY <1>3, <1>6, <3>1 DEF DeviceOf
    <3>2. CASE r.client_id # c.client_id
      BY <1>4, <3>2
    <3>. QED  BY <3>1, <3>2
  <2> HIDE DEF new
  <2>. QED  BY <1>1, <2>1 DEF Mapped
<1>. QED  BY <1>5, <1>6

\* tcpserver.go, client_service.go, client_repository.go: registrations, requests
\* and the status loop, each working on its own copies, are single steps of one
\* table in which a device is enrolled, assigned or removed.
THEOREM DevicesImplemented == Spec => ImplementsDevices
<1>1. Init => Devices!Init
  BY FS_EmptySet DEF Init, Devices!Init
<1>2. ASSUME StatusInv, Next
      PROVE  Devices!Next \/ (Mapped' = Mapped /\ UNCHANGED holders)
  <2>0. TypeOK
    BY <1>2 DEF StatusInv
  <2>1. CASE Tick
    <3>1. \A r \in clients : DeviceOf(OlderRow(r)) = DeviceOf(r)
      BY <2>0, OlderFacts DEF TypeOK, DeviceOf
    <3>. QED  BY <2>1, <3>1 DEF Tick, Mapped
  <2>2. ASSUME NEW a \in AgentIDs, Register(a)  PROVE Devices!Next
    BY <1>2, <2>2, RegisterEnrols DEF Devices!Next
  <2>3. ASSUME NEW h \in holders, HelloCheck(h) \/ HelloRecord(h)
        PROVE  Mapped' = Mapped /\ UNCHANGED holders
    BY <2>3 DEF HelloCheck, HelloRecord, Mapped
  <2>4. CASE Monitor
    <3>1. CASE MonitorLoad \/ MonitorCompute \/ (MonitorWrite /\ snapshot = {})
      BY <3>1 DEF MonitorLoad, MonitorCompute, MonitorWrite, Mapped
    <3>2. CASE MonitorWrite /\ snapshot # {}
      <4>1. PICK r \in snapshot :
              clients' = UpdateClientStatus(clients, r.agent_id, r.online, r.last_seen)
        BY <3>2 DEF MonitorWrite
      <4> DEFINE new(s) == IF s.agent_id = r.agent_id
                           THEN [s EXCEPT !.online = r.online, !.last_seen = r.last_seen]
                           ELSE s
      <4>2. clients' = {new(s) : s \in clients}
        BY <4>1 DEF UpdateClientStatus
      <4>3. \A s \in clients : DeviceOf(new(s)) = DeviceOf(s)
        BY <2>0 DEF TypeOK, Row, DeviceOf
      <4> HIDE DEF new
      <4>. QED  BY <3>2, <4>2, <4>3 DEF Mapped, MonitorWrite
    <3>. QED  BY <2>4, <3>1, <3>2 DEF Monitor
  <2>5. ASSUME NEW m \in Admins,
               (\E u \in Users : AssignFind(m, u)) \/ AssignReread(m)
        PROVE  Mapped' = Mapped /\ UNCHANGED holders
    BY <2>5 DEF AssignFind, AssignReread, Mapped
  <2>6. ASSUME NEW m \in Admins, AssignUpdate(m)
        PROVE  Devices!Next \/ (Mapped' = Mapped /\ UNCHANGED holders)
    <3>1. UNCHANGED holders
      BY <2>6 DEF AssignUpdate
    <3>2. ASSUME NEW d \in Mapped, NEW u \in Users,
                 Mapped' = (Mapped \ {d}) \cup {[d EXCEPT !.user_name = u]}
          PROVE  Devices!Next
      <4>1. Devices!Assign(d, u)
        BY <3>1, <3>2 DEF Devices!Assign, Mapped, DeviceOf
      <4>2. d \in {[client_id |-> r.client_id, agent_id |-> r.agent_id,
                    user_name |-> r.user_name] : r \in clients}
        BY DEF Mapped, DeviceOf
      <4>. QED  BY <4>1, <4>2 DEF Devices!Next
    <3>. QED  BY <1>2, <2>6, <3>1, <3>2, UpdateAssigns
  <2>7. ASSUME NEW r \in clients, DeleteClient(r)  PROVE Devices!Next
    <3>1. clients' = clients \ {r} /\ UNCHANGED holders
      BY <1>2, <2>7 DEF DeleteClient, DeleteByID, StatusInv, UniqueKeys
    <3>2. \A s \in clients : DeviceOf(s) = DeviceOf(r) => s = r
      BY <1>2 DEF StatusInv, UniqueKeys, DeviceOf
    <3>3. Mapped' = Mapped \ {DeviceOf(r)}
      BY <3>1, <3>2 DEF Mapped
    <3>4. Devices!Remove(DeviceOf(r))
      BY <3>1, <3>3 DEF Devices!Remove, Mapped, DeviceOf
    <3>5. DeviceOf(r) \in {[client_id |-> s.client_id, agent_id |-> s.agent_id,
                            user_name |-> s.user_name] : s \in clients}
      BY DEF DeviceOf
    <3>. QED  BY <3>4, <3>5 DEF Devices!Next
  <2>8. CASE RestartServer
    BY <2>8 DEF RestartServer, Mapped
  <2>. QED  BY <1>2, <2>1, <2>2, <2>3, <2>4, <2>5, <2>6, <2>7, <2>8 DEF Next
<1>3. StatusInv /\ [Next]_vars => [Devices!Next]_(Devices!table)
  <2>1. Mapped' = Mapped /\ UNCHANGED holders => UNCHANGED Devices!table
    BY DEF Devices!table, Mapped, DeviceOf
  <2>2. UNCHANGED vars => Mapped' = Mapped /\ UNCHANGED holders
    BY DEF vars, Mapped
  <2>. QED  BY <1>2, <2>1, <2>2
<1>. QED  BY <1>1, <1>3, StatusInvariant, PTL DEF Spec, ImplementsDevices, Devices!Spec

-----------------------------------------------------------------------------
(* The table users. *)

HIDE StatusAssumption
USE AccountAssumption DEF Columns, Roles

\* The shape of a row.
LEMMA UserRowFacts ==
    ASSUME NEW row \in UserRow
    PROVE  /\ DOMAIN row = {"id", "password", "info", "role"}
           /\ row = [id |-> row.id, password |-> row.password, info |-> row.info,
                     role |-> row.role]
           /\ row.id \in Nat /\ row.password \in Passwords /\ row.info \in Infos
           /\ row.role \in {"user", "admin"}
BY DEF UserRow

\* What UserUpdate may be given: columns, each with a value of its type or empty.
IsFields(fields) ==
    /\ DOMAIN fields \subseteq Columns
    /\ \A c \in DOMAIN fields :
        \/ fields[c] = NONE
        \/ /\ c = "password" => fields[c] \in Passwords
           /\ c = "info" => fields[c] \in Infos
           /\ c = "role" => fields[c] \in Roles

\* An update changes one row at most, keeps its id, and gives each column its
\* old value or the field's.
LEMMA UpdateFacts ==
    ASSUME UsersTypeOK, NEW u \in Usernames, NEW fields, IsFields(fields)
    PROVE  /\ UserUpdate(u, fields) \in [Usernames -> UserRow \cup {NONE}]
           /\ \A v \in Usernames : v # u \/ users[v] = NONE => UserUpdate(u, fields)[v] = users[v]
           /\ users[u] # NONE =>
                /\ UserUpdate(u, fields)[u] \in UserRow
                /\ UserUpdate(u, fields)[u].id = users[u].id
                /\ \A c \in Columns :
                    UserUpdate(u, fields)[u][c] =
                        IF c \in DOMAIN fields /\ fields[c] # NONE THEN fields[c] ELSE users[u][c]
<1> DEFINE row == users[u]
           new == [c \in DOMAIN row |->
                     IF c \in DOMAIN fields /\ fields[c] # NONE THEN fields[c] ELSE row[c]]
<1>1. users \in [Usernames -> UserRow \cup {NONE}]
  BY DEF UsersTypeOK
<1>2. UserUpdate(u, fields) = [users EXCEPT ![u] = IF row = NONE THEN NONE ELSE new]
  BY <1>1 DEF UserUpdate
<1>3. CASE row = NONE
  BY <1>1, <1>2, <1>3
<1>4. CASE row # NONE
  <2>1. row \in UserRow
    BY <1>1, <1>4
  <2>2. /\ DOMAIN row = {"id", "password", "info", "role"}
        /\ row.id \in Nat /\ row.password \in Passwords /\ row.info \in Infos
        /\ row.role \in Roles
    BY <2>1, UserRowFacts
  <2>3. /\ new.id = row.id
        /\ \A c \in Columns :
              new[c] = IF c \in DOMAIN fields /\ fields[c] # NONE THEN fields[c] ELSE row[c]
    BY <2>2 DEF IsFields
  <2>4. new = [id |-> new.id, password |-> new.password, info |-> new.info, role |-> new.role]
    BY <2>2
  <2>5. new.password \in Passwords /\ new.info \in Infos /\ new.role \in Roles
    BY <2>2, <2>3 DEF IsFields
  <2>6. new \in UserRow
    BY <2>2, <2>3, <2>4, <2>5 DEF UserRow
  <2>. QED  BY <1>1, <1>2, <1>4, <2>3, <2>6
<1>. QED  BY <1>3, <1>4

\* A new row has the next id and the values it was given.
LEMMA NewRowFacts ==
    ASSUME UsersTypeOK, NEW p \in Passwords, NEW i \in Infos, NEW role \in Roles
    PROVE  /\ NewRow(p, i, role) \in UserRow
           /\ NewRow(p, i, role).id = created + 1
           /\ NewRow(p, i, role).password = p /\ NewRow(p, i, role).info = i
           /\ NewRow(p, i, role).role = role
BY DEF NewRow, UserRow, UsersTypeOK

\* The ghost asked only grows, and holds what was just asked.
LEMMA AsksFacts ==
    ASSUME UsersTypeOK, NEW u \in Usernames, NEW fields, IsFields(fields), Asks(u, fields)
    PROVE  /\ asked' \in [Usernames -> [Columns -> SUBSET Values]]
           /\ \A v \in Usernames, c \in Columns : asked[v][c] \subseteq asked'[v][c]
           /\ \A c \in DOMAIN fields : fields[c] # NONE => fields[c] \in asked'[u][c]
<1>1. asked \in [Usernames -> [Columns -> SUBSET Values]]
  BY DEF UsersTypeOK
<1>2. /\ \A v \in Usernames : v # u => asked'[v] = asked[v]
      /\ asked'[u] = [c \in Columns |->
            IF c \in DOMAIN fields THEN asked[u][c] \cup ({fields[c]} \ {NONE}) ELSE asked[u][c]]
      /\ DOMAIN asked' = Usernames
      /\ asked' = [asked EXCEPT ![u] = asked'[u]]
  BY <1>1 DEF Asks
<1>3. \A c \in DOMAIN fields : c \in Columns /\ {fields[c]} \ {NONE} \subseteq Values
  BY DEF IsFields, Values
<1>4. asked'[u] \in [Columns -> SUBSET Values]
  BY <1>1, <1>2, <1>3
<1>. QED  BY <1>1, <1>2, <1>3, <1>4

-----------------------------------------------------------------------------
(* The invariant. *)

\* A step that adds to asked, and changes the table only as far as values that
\* are asked for go, keeps the two facts about values.
LEMMA ValuesStep ==
    ASSUME AccountInv, request' = request, UsersTypeOK',
           \A v \in Usernames, c \in Columns : asked[v][c] \subseteq asked'[v][c],
           \A v \in Usernames : users'[v] # NONE => \A c \in Columns :
               \/ users[v] # NONE /\ users'[v][c] = users[v][c]
               \/ users'[v][c] \in asked'[v][c]
    PROVE  ValuesWereAsked' /\ CopiesWereAsked'
<1>1. \A r \in Requests : request[r] # NoRequest => request[r].username \in Usernames
  BY DEF AccountInv, UsersTypeOK, Pending
<1>. QED  BY <1>1 DEF AccountInv, ValuesWereAsked, CopiesWereAsked

LEMMA InitAccounts == UsersInit => AccountInv
BY DEF UsersInit, AccountInv, UsersTypeOK, ValuesWereAsked, CopiesWereAsked, NoRequest

LEMMA AccountsStep == AccountInv /\ [UsersNext]_usersVars => AccountInv'
<1> SUFFICES ASSUME AccountInv, [UsersNext]_usersVars PROVE AccountInv'
  OBVIOUS
<1>0. UsersTypeOK /\ ValuesWereAsked /\ CopiesWereAsked
  BY DEF AccountInv
<1>1. ASSUME NEW u \in Usernames, NEW p \in Passwords \cup {NONE},
             NEW i \in Infos \cup {NONE}, CreateUser(u, p, i)
      PROVE  AccountInv'
  <2> DEFINE fields == [password |-> p, info |-> i, role |-> "user"]
  <2>0. p \in Passwords /\ i \in Infos
    BY <1>1 DEF CreateUser, Creatable
  <2>1. IsFields(fields)
    BY <2>0 DEF IsFields
  <2>2. /\ Asks(u, fields) /\ users' = [users EXCEPT ![u] = NewRow(p, i, "user")]
        /\ created < MaxCreated /\ created' = created + 1
        /\ current' = [current EXCEPT ![u] = p] /\ UNCHANGED <<request, starts>>
    BY <1>1 DEF CreateUser
  <2> HIDE DEF fields
  <2>3. UsersTypeOK'
    BY <1>0, <2>0, <2>1, <2>2, NewRowFacts, AsksFacts DEF UsersTypeOK
  <2>4. /\ \A v \in Usernames : v # u => users'[v] = users[v]
        /\ users'[u] = NewRow(p, i, "user")
    BY <1>0, <2>2 DEF UsersTypeOK
  <2>5. \A c \in Columns : users'[u][c] \in asked'[u][c]
    <3>1. \A c \in Columns : c \in DOMAIN fields /\ users'[u][c] = fields[c] /\ fields[c] # NONE
      BY <1>0, <2>0, <2>4, NewRowFacts DEF fields
    <3>. QED  BY <1>0, <2>1, <2>2, <3>1, AsksFacts
  <2>. QED  BY <1>0, <2>1, <2>2, <2>3, <2>4, <2>5, AsksFacts, ValuesStep DEF AccountInv
<1>2. ASSUME NEW r \in Requests, NEW u \in Usernames, NEW p \in Passwords,
             ReadForPassword(r, u, p)
      PROVE  AccountInv'
  <2> DEFINE fields == [password |-> p]
             copy   == [users[u] EXCEPT !.password = p]
  <2>1. IsFields(fields)
    BY DEF IsFields
  <2>2. /\ users[u] # NONE /\ users[u] \in UserRow /\ Asks(u, fields)
        /\ request' = [request EXCEPT ![r] = [username |-> u, copy |-> copy, acks |-> p]]
        /\ UNCHANGED <<users, created, current, starts>>
    BY <1>0, <1>2 DEF ReadForPassword, UsersTypeOK
  <2>3. /\ copy \in UserRow /\ copy.password = p
        /\ \A c \in Columns : c # "password" => copy[c] = users[u][c]
    BY <2>2, UserRowFacts DEF UserRow
  <2>4. p \in asked'[u]["password"]
    BY <1>0, <2>1, <2>2, AsksFacts
  <2> HIDE DEF fields, copy
  <2>5. UsersTypeOK'
    BY <1>0, <2>1, <2>2, <2>3, AsksFacts DEF UsersTypeOK, Pending
  <2>6. \A c \in Columns : copy[c] \in asked'[u][c]
    BY <1>0, <2>1, <2>2, <2>3, <2>4, AsksFacts DEF ValuesWereAsked
  <2>7. CopiesWereAsked'
    <3>1. \A s \in Requests : s # r => request'[s] = request[s]
      BY <1>0, <2>2 DEF UsersTypeOK
    <3>2. request'[r] = [username |-> u, copy |-> copy, acks |-> p]
      BY <1>0, <2>2 DEF UsersTypeOK
    <3>3. \A s \in Requests : request[s] # NoRequest => request[s].username \in Usernames
      BY <1>0 DEF UsersTypeOK, Pending
    <3>. QED  BY <1>0, <2>1, <2>2, <2>6, <3>1, <3>2, <3>3, AsksFacts DEF CopiesWereAsked
  <2>. QED  BY <1>0, <2>1, <2>2, <2>5, <2>7, AsksFacts DEF AccountInv, ValuesWereAsked
<1>3. ASSUME NEW r \in Requests, NEW u \in Usernames, NEW i \in Infos, ReadForInfo(r, u, i)
      PROVE  AccountInv'
  <2> DEFINE fields == [info |-> i]
             copy   == [users[u] EXCEPT !.info = i]
  <2>1. IsFields(fields)
    BY DEF IsFields
  <2>2. /\ users[u] # NONE /\ users[u] \in UserRow /\ Asks(u, fields)
        /\ request' = [request EXCEPT ![r] = [username |-> u, copy |-> copy, acks |-> NONE]]
        /\ UNCHANGED <<users, created, current, starts>>
    BY <1>0, <1>3 DEF ReadForInfo, UsersTypeOK
  <2>3. /\ copy \in UserRow /\ copy.info = i
        /\ \A c \in Columns : c # "info" => copy[c] = users[u][c]
    BY <2>2, UserRowFacts DEF UserRow
  <2>4. i \in asked'[u]["info"]
    BY <1>0, <2>1, <2>2, AsksFacts
  <2> HIDE DEF fields, copy
  <2>5. UsersTypeOK'
    BY <1>0, <2>1, <2>2, <2>3, AsksFacts DEF UsersTypeOK, Pending
  <2>6. \A c \in Columns : copy[c] \in asked'[u][c]
    BY <1>0, <2>1, <2>2, <2>3, <2>4, AsksFacts DEF ValuesWereAsked
  <2>7. CopiesWereAsked'
    <3>1. \A s \in Requests : s # r => request'[s] = request[s]
      BY <1>0, <2>2 DEF UsersTypeOK
    <3>2. request'[r] = [username |-> u, copy |-> copy, acks |-> NONE]
      BY <1>0, <2>2 DEF UsersTypeOK
    <3>3. \A s \in Requests : request[s] # NoRequest => request[s].username \in Usernames
      BY <1>0 DEF UsersTypeOK, Pending
    <3>. QED  BY <1>0, <2>1, <2>2, <2>6, <3>1, <3>2, <3>3, AsksFacts DEF CopiesWereAsked
  <2>. QED  BY <1>0, <2>1, <2>2, <2>5, <2>7, AsksFacts DEF AccountInv, ValuesWereAsked
<1>4. ASSUME NEW r \in Requests, WriteBack(r)  PROVE AccountInv'
  <2> DEFINE u      == request[r].username
             fields == [c \in Columns |-> request[r].copy[c]]
  <2>1. /\ request[r] # NoRequest /\ request[r] \in Pending
        /\ users' = UserUpdate(u, fields) /\ request' = [request EXCEPT ![r] = NoRequest]
        /\ current' = IF request[r].acks = NONE THEN current
                      ELSE [current EXCEPT ![u] = request[r].acks]
        /\ UNCHANGED <<created, asked, starts>>
    BY <1>0, <1>4 DEF WriteBack, UsersTypeOK
  <2>2. u \in Usernames /\ request[r].copy \in UserRow /\ request[r].acks \in Passwords \cup {NONE}
    BY <2>1 DEF Pending
  <2>3. IsFields(fields)
    BY <2>2, UserRowFacts DEF IsFields
  <2>4. \A c \in Columns : fields[c] \in asked[u][c]
    BY <1>0, <2>1 DEF CopiesWereAsked
  <2> HIDE DEF u, fields
  <2>5. UsersTypeOK'
    BY <1>0, <2>1, <2>2, <2>3, UpdateFacts DEF UsersTypeOK
  <2>6. ValuesWereAsked'
    BY <1>0, <2>1, <2>2, <2>3, <2>4, UpdateFacts DEF ValuesWereAsked, IsFields
  <2>7. CopiesWereAsked'
    BY <1>0, <2>1 DEF CopiesWereAsked, UsersTypeOK
  <2>. QED  BY <2>5, <2>6, <2>7 DEF AccountInv
<1>5. ASSUME NEW u \in Usernames, NEW p \in Passwords \cup {NONE}, NEW i \in Infos \cup {NONE},
             NEW role \in Roles \cup {NONE}, UpdateUser(u, p, i, role)
      PROVE  AccountInv'
  <2> DEFINE fields == [password |-> p, info |-> i, role |-> role]
  <2>1. IsFields(fields)
    BY <1>5 DEF IsFields, UpdateUser, Updatable
  <2>2. /\ users' = UserUpdate(u, fields) /\ Asks(u, fields)
        /\ current' = IF p = NONE THEN current ELSE [current EXCEPT ![u] = p]
        /\ UNCHANGED <<request, created, starts>>
    BY <1>5 DEF UpdateUser
  <2> HIDE DEF fields
  <2>3. UsersTypeOK'
    BY <1>0, <2>1, <2>2, UpdateFacts, AsksFacts DEF UsersTypeOK
  <2>4. \A v \in Usernames : users'[v] # NONE => \A c \in Columns :
            \/ users[v] # NONE /\ users'[v][c] = users[v][c]
            \/ users'[v][c] \in asked'[v][c]
    BY <1>0, <2>1, <2>2, UpdateFacts, AsksFacts
  <2>. QED  BY <1>0, <2>1, <2>2, <2>3, <2>4, AsksFacts, ValuesStep DEF AccountInv
<1>6. ASSUME NEW u \in Usernames, DeleteUser(u)  PROVE AccountInv'
  <2>1. /\ users' = [users EXCEPT ![u] = NONE]
        /\ UNCHANGED <<request, created, asked, current, starts>>
    BY <1>6 DEF DeleteUser
  <2>. QED  BY <1>0, <2>1 DEF AccountInv, UsersTypeOK, ValuesWereAsked, CopiesWereAsked
<1>7. CASE Restart
  <2>1. /\ request' = [r \in Requests |-> NoRequest]
        /\ starts' \in 0..MaxStarts
        /\ users[Admin] = NONE => created < MaxCreated
        /\ EnsureAdmin
    BY <1>0, <1>7 DEF Restart, UsersTypeOK
  <2>2. CASE users[Admin] # NONE
    BY <1>0, <2>1, <2>2 DEF EnsureAdmin, AccountInv, UsersTypeOK, ValuesWereAsked, CopiesWereAsked
  <2>3. CASE users[Admin] = NONE
    <3> DEFINE fields == [password |-> DefaultPassword, info |-> DefaultInfo, role |-> "admin"]
               new    == NewRow(DefaultPassword, DefaultInfo, "admin")
    <3>1. IsFields(fields)
      BY DEF IsFields
    <3>2. /\ Asks(Admin, fields) /\ users' = [users EXCEPT ![Admin] = new]
          /\ created' = created + 1 /\ current' = [current EXCEPT ![Admin] = DefaultPassword]
      BY <2>1, <2>3 DEF EnsureAdmin
    <3>3. new \in UserRow /\ \A c \in Columns : c \in DOMAIN fields /\ new[c] = fields[c] /\ fields[c] # NONE
      BY <1>0, NewRowFacts
    <3> HIDE DEF fields, new
    <3>4. UsersTypeOK'
      BY <1>0, <2>1, <2>3, <3>1, <3>2, <3>3, AsksFacts DEF UsersTypeOK
    <3>5. ValuesWereAsked'
      BY <1>0, <3>1, <3>2, <3>3, AsksFacts DEF ValuesWereAsked, UsersTypeOK
    <3>. QED  BY <2>1, <3>4, <3>5 DEF AccountInv, CopiesWereAsked
  <2>. QED  BY <2>2, <2>3
<1>8. CASE UNCHANGED usersVars
  BY <1>0, <1>8 DEF usersVars, AccountInv, UsersTypeOK, ValuesWereAsked, CopiesWereAsked
<1>. QED  BY <1>1, <1>2, <1>3, <1>4, <1>5, <1>6, <1>7, <1>8 DEF UsersNext, Handlers

LEMMA AccountsKeepInv == UsersSpec => []AccountInv
BY InitAccounts, AccountsStep, PTL DEF UsersSpec

-----------------------------------------------------------------------------
(* The theorems. *)

\* The table, the copies and the ghosts keep their types.
THEOREM UsersTypeCorrect == UsersSpec => []UsersTypeOK
BY AccountsKeepInv, PTL DEF AccountInv

\* user_handler.go:153-280: however the read-modify-write requests overlap, a
\* row holds only values that were asked for under its own user name.
THEOREM OnlyAskedValues == UsersSpec => []ValuesWereAsked
BY AccountsKeepInv, PTL DEF AccountInv

-----------------------------------------------------------------------------
(* The refinement. *)

\* A step that leaves all rows but that of u alone, and creates, changes or removes
\* that one, is a step of the abstract table.
LEMMA OneRowStep ==
    ASSUME UsersTypeOK, UsersTypeOK', NEW u \in Usernames,
           \A v \in Usernames : v # u => users'[v] = users[v],
           \/ /\ users[u] = NONE /\ users'[u] # NONE
              /\ users'[u].id = created + 1 /\ created' = created + 1
           \/ /\ users[u] # NONE /\ users'[u] # NONE
              /\ users'[u].id = users[u].id /\ created' = created
           \/ users[u] # NONE /\ users'[u] = NONE /\ created' = created
    PROVE  Accounts!Next
<1> DEFINE accounts == [v \in Usernames |-> AccountOf(users[v])]
           after    == [v \in Usernames |-> AccountOf(users'[v])]
           p        == users'[u].password
           role     == users'[u].role
<1>1. users \in [Usernames -> UserRow \cup {NONE}] /\ users' \in [Usernames -> UserRow \cup {NONE}]
  BY DEF UsersTypeOK
<1>2. after = [accounts EXCEPT ![u] = AccountOf(users'[u])]
  BY DEF AccountOf
<1>3. users[u] # NONE => accounts[u] \in Accounts!Account
  BY <1>1, UserRowFacts DEF AccountOf, Accounts!Account, Accounts!Roles
<1>4. users'[u] # NONE => p \in Passwords /\ role \in Accounts!Roles
  BY <1>1, UserRowFacts DEF Accounts!Roles
<1>5. CASE users[u] = NONE /\ users'[u] # NONE /\ users'[u].id = created + 1
           /\ created' = created + 1
  <2>1. accounts[u] = NONE /\ AccountOf(users'[u]) = [id |-> created + 1, password |-> p, role |-> role]
    BY <1>5 DEF AccountOf
  <2>2. Accounts!Create(u, p, role)
    BY <1>2, <1>5, <2>1 DEF Accounts!Create
  <2>. QED  BY <1>4, <1>5, <2>2 DEF Accounts!Next
<1>6. CASE users[u] # NONE /\ users'[u] # NONE /\ users'[u].id = users[u].id /\ created' = created
  <2>1. accounts[u] = [id |-> users[u].id, password |-> users[u].password, role |-> users[u].role]
    BY <1>6 DEF AccountOf
  <2>2. AccountOf(users'[u]) = [id |-> users[u].id, password |-> p, role |-> role]
    BY <1>6 DEF AccountOf
  <2> HIDE DEF p, role, accounts
  <2>3. after = [accounts EXCEPT ![u].password = p, ![u].role = role]
    <3> DEFINE first == [id |-> users[u].id, password |-> p, role |-> users[u].role]
               last  == [id |-> users[u].id, password |-> p, role |-> role]
    <3>1. [accounts[u] EXCEPT !.password = p] = first /\ [first EXCEPT !.role = role] = last
      BY <2>1
    <3>2. u \in DOMAIN accounts /\ accounts = [v \in DOMAIN accounts |-> accounts[v]]
      BY DEF accounts
    <3> HIDE DEF first, last
    <3> DEFINE g == [accounts EXCEPT ![u] = first]
    <3>3. [accounts EXCEPT ![u].password = p] = g
      BY <3>1, <3>2
    <3>4. g[u] = first /\ u \in DOMAIN g
      BY <3>2
    <3>5. [g EXCEPT ![u] = last] = [accounts EXCEPT ![u] = last]
      BY <3>2
    <3> HIDE DEF g
    <3>6. [g EXCEPT ![u].role = role] = [g EXCEPT ![u] = last]
      BY <3>1, <3>4
    <3>7. [accounts EXCEPT ![u].password = p, ![u].role = role]
            = [[accounts EXCEPT ![u].password = p] EXCEPT ![u].role = role]
      OBVIOUS
    <3> HIDE DEF after
    <3>. QED  BY <1>2, <2>2, <3>3, <3>5, <3>6, <3>7 DEF last
  <2>4. Accounts!Change(u, p, role)
    BY <1>3, <1>6, <2>3 DEF Accounts!Change, accounts
  <2>. QED  BY <1>4, <1>6, <2>4 DEF Accounts!Next
<1>7. CASE users[u] # NONE /\ users'[u] = NONE /\ created' = created
  <2>1. Accounts!Remove(u)
    BY <1>2, <1>3, <1>7 DEF AccountOf, Accounts!Remove
  <2>. QED  BY <2>1 DEF Accounts!Next
<1>. QED  BY <1>5, <1>6, <1>7

\* So is one that gives the row of u other values, or leaves it as it is.
LEMMA UpdateStep ==
    ASSUME UsersTypeOK, UsersTypeOK', NEW u \in Usernames, NEW fields, IsFields(fields),
           users' = UserUpdate(u, fields), created' = created
    PROVE  Accounts!Next \/ UNCHANGED users
<1>1. CASE users[u] = NONE
  BY <1>1, UpdateFacts DEF UsersTypeOK
<1>2. CASE users[u] # NONE
  <2>1. /\ \A v \in Usernames : v # u => users'[v] = users[v]
        /\ users'[u].id = users[u].id
    BY <1>2, UpdateFacts
  <2>2. users'[u] # NONE
    BY <1>2, UpdateFacts, RowAssumption
  <2>. QED  BY <1>2, <2>1, <2>2, OneRowStep
<1>. QED  BY <1>1, <1>2

\* user_handler.go, user_repository.go: every interleaving of the statements of the
\* requests is one of single creations, changes and removals of accounts that
\* keep their ids.
THEOREM AccountsImplemented == UsersSpec => ImplementsAccounts
<1>1. UsersInit => Accounts!Init
  BY DEF UsersInit, Accounts!Init, AccountOf
<1>2. ASSUME AccountInv, AccountInv', UsersNext  PROVE Accounts!Next \/ UNCHANGED <<users, created>>
  <2>0. UsersTypeOK /\ UsersTypeOK'
    BY <1>2 DEF AccountInv
  <2>1. ASSUME NEW v \in Usernames, NEW p \in Passwords \cup {NONE},
               NEW i \in Infos \cup {NONE}, CreateUser(v, p, i)
        PROVE  Accounts!Next
    <3>1. /\ p \in Passwords /\ i \in Infos /\ users[v] = NONE /\ created' = created + 1
          /\ users' = [users EXCEPT ![v] = NewRow(p, i, "user")]
      BY <2>1 DEF CreateUser, Creatable
    <3>2. /\ users'[v] = NewRow(p, i, "user") /\ users'[v].id = created + 1
          /\ \A w \in Usernames : w # v => users'[w] = users[w]
      BY <2>0, <3>1, NewRowFacts DEF UsersTypeOK
    <3>3. users'[v] # NONE
      BY <2>0, <3>1, <3>2, NewRowFacts, RowAssumption DEF Roles
    <3>. QED  BY <2>0, <3>1, <3>2, <3>3, OneRowStep
  <2>2. ASSUME NEW r \in Requests, NEW v \in Usernames, NEW p \in Passwords,
               ReadForPassword(r, v, p)
        PROVE  UNCHANGED <<users, created>>
    BY <2>2 DEF ReadForPassword
  <2>3. ASSUME NEW r \in Requests, NEW v \in Usernames, NEW i \in Infos, ReadForInfo(r, v, i)
        PROVE  UNCHANGED <<users, created>>
    BY <2>3 DEF ReadForInfo
  <2>4. ASSUME NEW r \in Requests, WriteBack(r)
        PROVE  Accounts!Next \/ UNCHANGED <<users, created>>
    <3> DEFINE v      == request[r].username
               fields == [c \in Columns |-> request[r].copy[c]]
    <3>1. /\ v \in Usernames /\ request[r].copy \in UserRow /\ users' = UserUpdate(v, fields)
          /\ created' = created
      BY <2>0, <2>4 DEF WriteBack, UsersTypeOK, Pending
    <3>2. IsFields(fields)
      BY <3>1, UserRowFacts DEF IsFields
    <3> HIDE DEF v, fields
    <3>. QED  BY <2>0, <3>1, <3>2, UpdateStep
  <2>5. ASSUME NEW v \in Usernames, NEW p \in Passwords \cup {NONE},
               NEW i \in Infos \cup {NONE}, NEW role \in Roles \cup {NONE},
               UpdateUser(v, p, i, role)
        PROVE  Accounts!Next \/ UNCHANGED <<users, created>>
    <3> DEFINE fields == [password |-> p, info |-> i, role |-> role]
    <3>1. IsFields(fields) /\ users' = UserUpdate(v, fields) /\ created' = created
      BY <2>5 DEF IsFields, UpdateUser, Updatable
    <3> HIDE DEF fields
    <3>. QED  BY <2>0, <3>1, UpdateStep
  <2>6. ASSUME NEW v \in Usernames, DeleteUser(v)  PROVE Accounts!Next
    BY <2>0, <2>6, OneRowStep DEF DeleteUser, UsersTypeOK
  <2>7. CASE Restart
    <3>1. CASE users[Admin] # NONE
      BY <2>7, <3>1 DEF Restart, EnsureAdmin
    <3>2. CASE users[Admin] = NONE
      <4> DEFINE new == NewRow(DefaultPassword, DefaultInfo, "admin")
      <4>1. users' = [users EXCEPT ![Admin] = new] /\ created' = created + 1
        BY <2>7, <3>2 DEF Restart, EnsureAdmin
      <4>2. new.id = created + 1 /\ new # NONE
        BY <2>0, NewRowFacts, RowAssumption
      <4> HIDE DEF new
      <4>3. /\ users'[Admin] = new
            /\ \A w \in Usernames : w # Admin => users'[w] = users[w]
        BY <2>0, <4>1 DEF UsersTypeOK
      <4>4. users'[Admin] # NONE
        BY <4>2, <4>3
      <4>. QED  BY <2>0, <3>2, <4>1, <4>2, <4>3, <4>4, OneRowStep
    <3>. QED  BY <3>1, <3>2
  <2>. QED  BY <1>2, <2>1, <2>2, <2>3, <2>4, <2>5, <2>6, <2>7 DEF UsersNext, Handlers
<1>3. AccountInv /\ AccountInv' /\ [UsersNext]_usersVars => [Accounts!Next]_(Accounts!table)
  BY <1>2 DEF Accounts!table, usersVars
<1>. QED  BY <1>1, <1>3, AccountsKeepInv, PTL DEF UsersSpec, ImplementsAccounts, Accounts!Spec
=============================================================================
