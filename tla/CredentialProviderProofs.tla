----------------------- MODULE CredentialProviderProofs -----------------------
(* Theorems about the credential provider: the life cycle of its COM objects  *)
(* (ProviderLifecycle), for every finite set of addresses, every set of user  *)
(* arrays and callback objects and every value of the bounds, and the logon   *)
(* with a one-time code (OtpLogon), for any number of attempts and time steps.*)
(* The two share no state and no names.                                       *)
EXTENDS ProviderLifecycle, OtpLogon, FiniteSetTheorems, TLAPS

USE LifecycleAssumption

-----------------------------------------------------------------------------
(* Counting. *)

\* Two finite sets that differ at most in x.
LEMMA OnePointCount ==
    ASSUME NEW S, IsFiniteSet(S), NEW A \in SUBSET S, NEW B \in SUBSET S,
           NEW x, A \ {x} = B \ {x}
    PROVE  /\ Cardinality(A) \in Nat
           /\ Cardinality(B) \in Nat
           /\ Cardinality(B) = Cardinality(A) - (IF x \in A THEN 1 ELSE 0)
                                              + (IF x \in B THEN 1 ELSE 0)
<1>1. IsFiniteSet(A) /\ IsFiniteSet(B)
  BY FS_Subset
<1>2. Cardinality(A) \in Nat /\ Cardinality(B) \in Nat
  BY <1>1, FS_CardinalityType
<1>3. Cardinality(A \ {x}) = IF x \in A THEN Cardinality(A) - 1 ELSE Cardinality(A)
  BY <1>1, FS_RemoveElement
<1>4. Cardinality(B \ {x}) = IF x \in B THEN Cardinality(B) - 1 ELSE Cardinality(B)
  BY <1>1, FS_RemoveElement
<1>5. Cardinality(A \ {x}) = Cardinality(B \ {x})
  OBVIOUS
<1>. QED  BY <1>2, <1>3, <1>4, <1>5

LEMMA CountTypes ==
    /\ Cardinality(LiveProviders) \in Nat
    /\ Cardinality(LiveTiles) \in Nat
    /\ LiveProviders # {} => Cardinality(LiveProviders) > 0
    /\ LiveTiles # {} => Cardinality(LiveTiles) > 0
<1>1. IsFiniteSet(LiveProviders) /\ IsFiniteSet(LiveTiles)
  BY FS_Subset DEF LiveProviders, LiveTiles
<1>2. Cardinality(LiveProviders) \in Nat /\ Cardinality(LiveTiles) \in Nat
  BY <1>1, FS_CardinalityType
<1>3. /\ LiveProviders # {} => Cardinality(LiveProviders) # 0
      /\ LiveTiles # {} => Cardinality(LiveTiles) # 0
  BY <1>1, FS_EmptySet
<1>. QED  BY <1>2, <1>3

\* The providers' references to the arrays stay counted when one provider
\* changes its array.
LEMMA ArrayCounts ==
    ASSUME TypeOK, CountsAreHolders, NEW p \in Providers,
           \A q \in Providers \ {p} : provider'[q].users = provider[q].users,
           arrayRef' = Moved(arrayRef, provider[p].users, provider'[p].users)
    PROVE  /\ arrayRef' \in [Arrays -> Nat]
           /\ \A a \in Arrays :
                arrayRef'[a] = Cardinality({q \in Providers : provider'[q].users = a})
<1>. DEFINE Users(a)  == {q \in Providers : provider[q].users = a}
            Users2(a) == {q \in Providers : provider'[q].users = a}
<1>1. DOMAIN arrayRef = Arrays
  BY DEF TypeOK
<1>2. ASSUME NEW a \in Arrays
      PROVE  arrayRef'[a] = Cardinality(Users2(a)) /\ Cardinality(Users2(a)) \in Nat
  <2>1. Users(a) \ {p} = Users2(a) \ {p}
    OBVIOUS
  <2>2. /\ Cardinality(Users(a)) \in Nat /\ Cardinality(Users2(a)) \in Nat
        /\ Cardinality(Users2(a)) = Cardinality(Users(a))
              - (IF p \in Users(a) THEN 1 ELSE 0) + (IF p \in Users2(a) THEN 1 ELSE 0)
    <3>1. Users(a) \in SUBSET Providers /\ Users2(a) \in SUBSET Providers
      OBVIOUS
    <3>. HIDE DEF Users, Users2
    <3>. QED  BY <2>1, <3>1, OnePointCount
  <2>3. arrayRef[a] = Cardinality(Users(a))
    BY DEF CountsAreHolders
  <2>4. arrayRef'[a] = arrayRef[a] - (IF a = provider[p].users THEN 1 ELSE 0)
                                   + (IF a = provider'[p].users THEN 1 ELSE 0)
    BY <1>1 DEF Moved
  <2>5. (p \in Users(a) <=> a = provider[p].users) /\ (p \in Users2(a) <=> a = provider'[p].users)
    OBVIOUS
  <2>. HIDE DEF Users, Users2
  <2>. QED  BY <2>2, <2>3, <2>4, <2>5
<1>3. arrayRef' = [z \in Arrays |-> arrayRef'[z]]
  BY <1>1 DEF Moved
<1>. QED  BY <1>2, <1>3

\* The tiles' references to the callback objects stay counted when one tile
\* changes its callback object.
LEMMA EventCounts ==
    ASSUME TypeOK, CountsAreHolders, NEW t \in Tiles,
           \A u \in Tiles \ {t} : credential'[u].events = credential[u].events,
           eventRef' = Moved(eventRef, credential[t].events, credential'[t].events)
    PROVE  /\ eventRef' \in [Callbacks -> Nat]
           /\ \A e \in Callbacks :
                eventRef'[e] = Cardinality({u \in Tiles : credential'[u].events = e})
<1>. DEFINE Advised(e)  == {u \in Tiles : credential[u].events = e}
            Advised2(e) == {u \in Tiles : credential'[u].events = e}
<1>1. DOMAIN eventRef = Callbacks
  BY DEF TypeOK
<1>2. ASSUME NEW e \in Callbacks
      PROVE  eventRef'[e] = Cardinality(Advised2(e)) /\ Cardinality(Advised2(e)) \in Nat
  <2>1. Advised(e) \ {t} = Advised2(e) \ {t}
    OBVIOUS
  <2>2. /\ Cardinality(Advised(e)) \in Nat /\ Cardinality(Advised2(e)) \in Nat
        /\ Cardinality(Advised2(e)) = Cardinality(Advised(e))
              - (IF t \in Advised(e) THEN 1 ELSE 0) + (IF t \in Advised2(e) THEN 1 ELSE 0)
    <3>1. Advised(e) \in SUBSET Tiles /\ Advised2(e) \in SUBSET Tiles
      OBVIOUS
    <3>. HIDE DEF Advised, Advised2
    <3>. QED  BY <2>1, <3>1, OnePointCount
  <2>3. eventRef[e] = Cardinality(Advised(e))
    BY DEF CountsAreHolders
  <2>4. eventRef'[e] = eventRef[e] - (IF e = credential[t].events THEN 1 ELSE 0)
                                   + (IF e = credential'[t].events THEN 1 ELSE 0)
    BY <1>1 DEF Moved
  <2>5. (t \in Advised(e) <=> e = credential[t].events)
        /\ (t \in Advised2(e) <=> e = credential'[t].events)
    OBVIOUS
  <2>. HIDE DEF Advised, Advised2
  <2>. QED  BY <2>2, <2>3, <2>4, <2>5
<1>3. eventRef' = [z \in Callbacks |-> eventRef'[z]]
  BY <1>1 DEF Moved
<1>. QED  BY <1>2, <1>3

\* Release of a tile by one of its holders: the others' tiles are untouched,
\* and with the last reference the tile and its count in g_cRef go.
LEMMA ReleasedTile ==
    ASSUME TypeOK, DeadHoldNothing, NEW t \in Tiles,
           credential[t].cRef > 0,
           credential[t].cRef = 1 => credential[t].events = NULL
    PROVE  LET R == Released(credential, t) IN
           /\ R \in [Tiles -> Credential]
           /\ \A u \in Tiles \ {t} : R[u] = credential[u]
           /\ R[t].cRef = credential[t].cRef - 1
           /\ R[t].cRef = 0 => R[t] = NoCredential
           /\ R[t].cRef > 0 => R[t].madeFrom = credential[t].madeFrom
           /\ \A u \in Tiles : R[u].events = credential[u].events
           /\ Cardinality({u \in Tiles : R[u].cRef > 0})
                = Cardinality(LiveTiles) - Deletes(t)
           /\ Deletes(t) \in {0, 1}
<1>. DEFINE R == Released(credential, t)
            Live2 == {u \in Tiles : R[u].cRef > 0}
<1>1. t # NULL /\ credential \in [Tiles -> Credential] /\ credential[t] \in Credential
  BY DEF TypeOK
<1>2. /\ R \in [Tiles -> Credential]
      /\ \A u \in Tiles \ {t} : R[u] = credential[u]
      /\ R[t].cRef = credential[t].cRef - 1
      /\ R[t].cRef = 0 => R[t] = NoCredential
      /\ R[t].cRef > 0 => R[t].madeFrom = credential[t].madeFrom
      /\ R[t].events = credential[t].events
  <2>1. CASE credential[t].cRef = 1
    <3>1. R = [credential EXCEPT ![t] = NoCredential]
      BY <1>1, <2>1 DEF Released
    <3>2. NoCredential \in Credential
      BY DEF NoCredential, Credential
    <3>. QED  BY <1>1, <2>1, <3>1, <3>2 DEF NoCredential
  <2>2. CASE credential[t].cRef # 1
    <3>1. R = [credential EXCEPT ![t].cRef = @ - 1]
      BY <1>1, <2>2 DEF Released
    <3>2. credential[t].cRef \in Nat /\ credential[t].cRef - 1 \in Nat /\ credential[t].cRef - 1 # 0
      BY <1>1, <2>2 DEF Credential
    <3>. QED  BY <1>1, <3>1, <3>2 DEF Credential
  <2>. QED  BY <2>1, <2>2
<1>3. \A u \in Tiles : R[u].events = credential[u].events
  BY <1>2
<1>4. Cardinality(Live2) = Cardinality(LiveTiles) - Deletes(t) /\ Deletes(t) \in {0, 1}
  <2>1. LiveTiles \ {t} = Live2 \ {t}
    BY <1>2 DEF LiveTiles
  <2>2. LiveTiles \in SUBSET Tiles /\ Live2 \in SUBSET Tiles
    BY DEF LiveTiles
  <2>3. t \in LiveTiles /\ (t \in Live2 <=> credential[t].cRef # 1)
    BY <1>1, <1>2 DEF LiveTiles, Credential
  <2>4. Deletes(t) = IF credential[t].cRef = 1 THEN 1 ELSE 0
    BY <1>1 DEF Deletes
  <2>5. /\ Cardinality(LiveTiles) \in Nat
        /\ Cardinality(Live2) \in Nat
        /\ Cardinality(Live2) = Cardinality(LiveTiles) - (IF t \in LiveTiles THEN 1 ELSE 0)
                                     + (IF t \in Live2 THEN 1 ELSE 0)
    <3>. HIDE DEF Live2
    <3>. QED  BY <2>1, <2>2, OnePointCount
  <2>. HIDE DEF Live2
  <2>. QED  BY <2>3, <2>4, <2>5
<1>. QED  BY <1>2, <1>3, <1>4

-----------------------------------------------------------------------------
(* The inductive invariant, action by action. *)

LEMMA BlankObjects ==
    /\ NoProvider \in Provider /\ NoProvider.cRef = 0 /\ NoProvider.phase = "new"
    /\ NoProvider.tile = NULL /\ NoProvider.users = NULL
    /\ NoCredential \in Credential /\ NoCredential.cRef = 0 /\ NoCredential.events = NULL
BY DEF NoProvider, Provider, Phases, NoCredential, Credential

\* The state in which there is nothing, at the start and after a crash.
LEMMA NothingThere ==
    ASSUME loaded' = FALSE, g_cRef' = 0, locks' = 0, filters' = 0,
           provider' = [p \in Providers |-> NoProvider],
           credential' = [t \in Tiles |-> NoCredential],
           held' = [t \in Tiles |-> 0],
           arrayRef' = [a \in Arrays |-> 0],
           eventRef' = [e \in Callbacks |-> 0],
           crashes' \in 0..MaxCrashes
    PROVE  LifecycleInv'
<1>1. TypeOK'
  <2>1. 0 \in 0..MaxLocks /\ 0 \in 0..MaxRefs /\ 0 \in Int /\ 0 \in Nat
    OBVIOUS
  <2>2. provider' \in [Providers -> Provider] /\ credential' \in [Tiles -> Credential]
    BY BlankObjects
  <2>3. /\ held' \in [Tiles -> Nat] /\ arrayRef' \in [Arrays -> Nat]
        /\ eventRef' \in [Callbacks -> Nat]
    OBVIOUS
  <2>. QED  BY <2>1, <2>2, <2>3 DEF TypeOK
<1>2. CountsAreHolders'
  <2>1. \A t \in Tiles : /\ ~\E p \in Providers : provider'[p].tile = t
                        /\ credential'[t].cRef = 0 /\ held'[t] = 0
    BY BlankObjects
  <2>2. \A a \in Arrays : {p \in Providers : provider'[p].users = a} = {}
    BY BlankObjects
  <2>3. \A e \in Callbacks : {t \in Tiles : credential'[t].events = e} = {}
    BY BlankObjects
  <2>4. \A a \in Arrays :
            arrayRef'[a] = Cardinality({p \in Providers : provider'[p].users = a})
    BY <2>2, FS_EmptySet
  <2>5. \A e \in Callbacks :
            eventRef'[e] = Cardinality({t \in Tiles : credential'[t].events = e})
    BY <2>3, FS_EmptySet
  <2>6. \A t \in Tiles : credential'[t].cRef =
            held'[t] + (IF \E p \in Providers : provider'[p].tile = t THEN 1 ELSE 0)
    BY <2>1
  <2>. QED  BY <2>4, <2>5, <2>6 DEF CountsAreHolders
<1>3. DllCount'
  <2>1. LiveProviders' = {} /\ LiveTiles' = {}
    BY BlankObjects DEF LiveProviders, LiveTiles
  <2>. QED  BY <2>1, FS_EmptySet DEF DllCount
<1>4. (DeadHoldNothing /\ TilesUnshared /\ MarkedUntilCounted)'
  BY BlankObjects DEF DeadHoldNothing, TilesUnshared, MarkedUntilCounted
<1>. QED  BY <1>1, <1>2, <1>3, <1>4 DEF LifecycleInv

LEMMA InitLifecycle == Init => LifecycleInv
<1>. SUFFICES ASSUME Init  PROVE LifecycleInv
  OBVIOUS
<1>. USE DEF Init
<1>1. TypeOK
  <2>1. 0 \in 0..MaxLocks /\ 0 \in 0..MaxRefs /\ 0 \in 0..MaxCrashes /\ 0 \in Int
    OBVIOUS
  <2>2. provider \in [Providers -> Provider] /\ credential \in [Tiles -> Credential]
    BY BlankObjects
  <2>3. /\ held \in [Tiles -> Nat] /\ arrayRef \in [Arrays -> Nat]
        /\ eventRef \in [Callbacks -> Nat]
    OBVIOUS
  <2>4. /\ loaded \in BOOLEAN /\ g_cRef \in Int /\ locks \in 0..MaxLocks
        /\ filters \in 0..MaxRefs /\ crashes \in 0..MaxCrashes
    BY <2>1
  <2>. QED  BY <2>2, <2>3, <2>4 DEF TypeOK
<1>2. CountsAreHolders
  <2>1. \A t \in Tiles : /\ ~\E p \in Providers : provider[p].tile = t
                        /\ credential[t].cRef = 0 /\ held[t] = 0
    BY BlankObjects
  <2>2. \A a \in Arrays : {p \in Providers : provider[p].users = a} = {}
    BY BlankObjects
  <2>3. \A e \in Callbacks : {t \in Tiles : credential[t].events = e} = {}
    BY BlankObjects
  <2>4. \A a \in Arrays :
            arrayRef[a] = Cardinality({p \in Providers : provider[p].users = a})
    BY <2>2, FS_EmptySet
  <2>5. \A e \in Callbacks :
            eventRef[e] = Cardinality({t \in Tiles : credential[t].events = e})
    BY <2>3, FS_EmptySet
  <2>6. \A t \in Tiles : credential[t].cRef =
            held[t] + (IF \E p \in Providers : provider[p].tile = t THEN 1 ELSE 0)
    BY <2>1
  <2>. QED  BY <2>4, <2>5, <2>6 DEF CountsAreHolders
<1>3. DllCount
  <2>1. LiveProviders = {} /\ LiveTiles = {}
    BY BlankObjects DEF LiveProviders, LiveTiles
  <2>. QED  BY <2>1, FS_EmptySet DEF DllCount
<1>4. DeadHoldNothing /\ TilesUnshared /\ MarkedUntilCounted
  BY BlankObjects DEF DeadHoldNothing, TilesUnshared, MarkedUntilCounted
<1>. QED  BY <1>1, <1>2, <1>3, <1>4 DEF LifecycleInv

LEMMA CrashStep == LifecycleInv /\ Crash => LifecycleInv'
<1>. SUFFICES ASSUME LifecycleInv, Crash  PROVE LifecycleInv'
  OBVIOUS
<1>1. crashes' \in 0..MaxCrashes
  BY DEF Crash, LifecycleInv, TypeOK
<1>. QED  BY <1>1, NothingThere DEF Crash

LEMMA CreateProviderStep ==
    ASSUME LifecycleInv, NEW p \in Providers, CreateProvider(p)
    PROVE  LifecycleInv'
<1>0. PICK mark \in BOOLEAN : provider' = [provider EXCEPT ![p] = NewProvider(mark)]
  BY DEF CreateProvider
<1>. DEFINE new == NewProvider(mark)
<1>1. provider[p] = NoProvider /\ provider \in [Providers -> Provider]
  BY DEF CreateProvider, LifecycleInv, DeadHoldNothing, TypeOK
<1>2. provider' = [provider EXCEPT ![p] = new]
  BY <1>0
<1>3. /\ new \in Provider /\ new.cRef = 1 /\ new.phase = "new" /\ new.tile = NULL
      /\ new.users = NULL
  BY DEF NewProvider, NoProvider, Provider, Phases
<1>. HIDE DEF new
<1>4. \A q \in Providers : provider'[q].tile = provider[q].tile
                         /\ provider'[q].users = provider[q].users
  BY <1>1, <1>2, <1>3, BlankObjects
<1>5. TypeOK'
  BY <1>2, <1>3 DEF CreateProvider, LifecycleInv, TypeOK
<1>6. CountsAreHolders'
  BY <1>4 DEF CreateProvider, LifecycleInv, CountsAreHolders
<1>7. DllCount'
  <2>1. LiveProviders' = LiveProviders \cup {p} /\ p \notin LiveProviders
    BY <1>1, <1>2, <1>3, BlankObjects DEF LiveProviders
  <2>2. IsFiniteSet(LiveProviders)
    BY FS_Subset DEF LiveProviders
  <2>3. Cardinality(LiveProviders') = Cardinality(LiveProviders) + 1
    BY <2>1, <2>2, FS_AddElement
  <2>4. LiveTiles' = LiveTiles
    BY DEF CreateProvider, LiveTiles
  <2>5. locks' = locks /\ g_cRef' = g_cRef + 1 /\ loaded' = TRUE
    BY DEF CreateProvider
  <2>6. g_cRef = locks + Cardinality(LiveProviders) + Cardinality(LiveTiles)
        /\ locks \in Nat
    BY DEF LifecycleInv, DllCount, TypeOK
  <2>. QED  BY <2>3, <2>4, <2>5, <2>6, CountTypes DEF DllCount
<1>8. DeadHoldNothing'
  BY <1>2, <1>3 DEF CreateProvider, LifecycleInv, DeadHoldNothing, TypeOK
<1>9. TilesUnshared'
  BY <1>4 DEF LifecycleInv, TilesUnshared
<1>10. MarkedUntilCounted'
  BY <1>1, <1>2, <1>3 DEF CreateProvider, LifecycleInv, MarkedUntilCounted
<1>. QED  BY <1>5, <1>6, <1>7, <1>8, <1>9, <1>10 DEF LifecycleInv

\* Calls that change neither an object's holders nor whether it lives.
LEMMA FilterStep ==
    ASSUME LifecycleInv, CreateFilter \/ ReleaseFilter
    PROVE  LifecycleInv'
<1>1. ASSUME \/ CreateFilter
             \/ /\ filters > 0 /\ loaded /\ filters' = filters - 1
                /\ UNCHANGED <<loaded, g_cRef, locks, provider, credential, held, arrayRef,
                               eventRef, crashes>>
      PROVE  LifecycleInv'
  <2>1. /\ filters' \in 0..MaxRefs /\ loaded' \in BOOLEAN /\ (loaded => loaded')
        /\ UNCHANGED <<g_cRef, locks, provider, credential, held, arrayRef, eventRef, crashes>>
    <3>1. CASE CreateFilter
      BY <3>1 DEF CreateFilter, LifecycleInv, TypeOK
    <3>2. CASE ~CreateFilter
      BY <1>1, <3>2 DEF LifecycleInv, TypeOK
    <3>. QED  BY <3>1, <3>2
  <2>2. TypeOK'
    BY <2>1 DEF LifecycleInv, TypeOK
  <2>3. CountsAreHolders'
    BY <2>1 DEF LifecycleInv, CountsAreHolders
  <2>4. DllCount'
    BY <2>1 DEF LifecycleInv, DllCount, LiveProviders, LiveTiles
  <2>5. (DeadHoldNothing /\ TilesUnshared /\ MarkedUntilCounted)'
    BY <2>1 DEF LifecycleInv, DeadHoldNothing, TilesUnshared, MarkedUntilCounted
  <2>. QED  BY <2>2, <2>3, <2>4, <2>5 DEF LifecycleInv
<1>2. CASE Crash
  BY <1>2, CrashStep
<1>. QED  BY <1>1, <1>2 DEF ReleaseFilter

LEMMA LibraryStep ==
    ASSUME LifecycleInv, Unload \/ \E lock \in {1, -1} : LockServer(lock)
    PROVE  LifecycleInv'
<1>1. UNCHANGED <<filters, provider, credential, held, arrayRef, eventRef, crashes>>
  BY DEF Unload, LockServer
<1>2. LiveProviders' = LiveProviders /\ LiveTiles' = LiveTiles
  BY <1>1 DEF LiveProviders, LiveTiles
<1>3. g_cRef = locks + Cardinality(LiveProviders) + Cardinality(LiveTiles) /\ locks \in 0..MaxLocks
  BY DEF LifecycleInv, DllCount, TypeOK
<1>4. TypeOK' /\ DllCount'
  <2>1. CASE Unload
    <3>1. g_cRef = 0
      BY <1>3, <2>1, CountTypes DEF Unload
    <3>. QED  BY <1>1, <1>2, <1>3, <2>1, <3>1 DEF Unload, LifecycleInv, TypeOK, DllCount
  <2>2. ASSUME NEW lock \in {1, -1}, LockServer(lock)
        PROVE  TypeOK' /\ DllCount'
    <3>1. /\ locks' \in 0..MaxLocks /\ locks' = locks + lock /\ g_cRef' = g_cRef + lock
          /\ loaded /\ loaded' = loaded
      BY <2>2 DEF LockServer
    <3>2. TypeOK'
      BY <1>1, <3>1 DEF LifecycleInv, TypeOK
    <3>3. DllCount'
      BY <1>2, <1>3, <3>1, CountTypes DEF DllCount
    <3>. QED  BY <3>2, <3>3
  <2>. QED  BY <2>1, <2>2
<1>5. CountsAreHolders'
  BY <1>1 DEF LifecycleInv, CountsAreHolders
<1>6. (DeadHoldNothing /\ TilesUnshared /\ MarkedUntilCounted)'
  BY <1>1 DEF LifecycleInv, DeadHoldNothing, TilesUnshared, MarkedUntilCounted
<1>. QED  BY <1>4, <1>5, <1>6 DEF LifecycleInv

\* Calls of a provider that leave its tile and its array alone.
LEMMA ProviderCallStep ==
    ASSUME LifecycleInv, NEW p \in Providers,
           \/ QueryProvider(p)
           \/ \E supported \in BOOLEAN : SetUsageScenario(p, supported)
           \/ ReleaseProvider(p) /\ provider[p].cRef > 1
    PROVE  LifecycleInv'
<1>. DEFINE o == provider'[p]
<1>1. UNCHANGED <<loaded, g_cRef, locks, filters, credential, held, arrayRef, eventRef, crashes>>
  BY DEF QueryProvider, SetUsageScenario, ReleaseProvider
<1>2. provider \in [Providers -> Provider] /\ provider[p] \in Provider /\ provider[p].cRef > 0
  <2>1. provider \in [Providers -> Provider] /\ provider[p] \in Provider
    BY DEF LifecycleInv, TypeOK
  <2>2. provider[p].cRef > 0
    <3>1. CASE QueryProvider(p)
      BY <3>1 DEF QueryProvider
    <3>2. CASE \E supported \in BOOLEAN : SetUsageScenario(p, supported)
      BY <3>2 DEF SetUsageScenario
    <3>3. CASE ReleaseProvider(p)
      BY <3>3 DEF ReleaseProvider
    <3>. QED  BY <3>1, <3>2, <3>3
  <2>. QED  BY <2>1, <2>2
<1>3. /\ provider' \in [Providers -> Provider]
      /\ \A q \in Providers \ {p} : provider'[q] = provider[q]
      /\ o.cRef > 0 /\ o.tile = provider[p].tile /\ o.users = provider[p].users
      /\ provider[p].recreate => o.recreate
      /\ o.phase \in {"scenario", "users"} =>
            o.recreate \/ (o.phase = provider[p].phase /\ o.recreate = provider[p].recreate)
      /\ o.phase = "counted" =>
            o.phase = provider[p].phase /\ o.recreate = provider[p].recreate
  <2>1. CASE QueryProvider(p)
    BY <1>2, <2>1 DEF QueryProvider, Provider
  <2>2. ASSUME NEW supported \in BOOLEAN, SetUsageScenario(p, supported)
        PROVE  <1>3!1 /\ <1>3!2 /\ <1>3!3 /\ <1>3!4 /\ <1>3!5 /\ <1>3!6
    BY <1>2, <2>2 DEF SetUsageScenario, Provider, Phases
  <2>3. CASE ReleaseProvider(p) /\ provider[p].cRef > 1
    BY <1>2, <2>3 DEF ReleaseProvider, Provider
  <2>. QED  BY <2>1, <2>2, <2>3
<1>. HIDE DEF o
<1>4. \A q \in Providers : provider'[q].tile = provider[q].tile
                         /\ provider'[q].users = provider[q].users
  BY <1>2, <1>3 DEF o
<1>5. TypeOK'
  BY <1>1, <1>3 DEF LifecycleInv, TypeOK
<1>6. CountsAreHolders'
  BY <1>1, <1>4 DEF LifecycleInv, CountsAreHolders
<1>7. DllCount'
  <2>1. LiveProviders' = LiveProviders /\ LiveTiles' = LiveTiles
    BY <1>1, <1>2, <1>3 DEF LiveProviders, LiveTiles, o
  <2>. QED  BY <1>1, <2>1 DEF LifecycleInv, DllCount
<1>8. DeadHoldNothing'
  BY <1>1, <1>2, <1>3 DEF LifecycleInv, DeadHoldNothing, o
<1>9. TilesUnshared'
  BY <1>4 DEF LifecycleInv, TilesUnshared
<1>10. MarkedUntilCounted'
  BY <1>1, <1>3, <1>4 DEF LifecycleInv, MarkedUntilCounted, o
<1>. QED  BY <1>5, <1>6, <1>7, <1>8, <1>9, <1>10 DEF LifecycleInv

LEMMA SetUserArrayStep ==
    ASSUME LifecycleInv, NEW p \in Providers, NEW a \in Arrays, SetUserArray(p, a)
    PROVE  LifecycleInv'
<1>1. provider \in [Providers -> Provider] /\ provider[p] \in Provider
  BY DEF LifecycleInv, TypeOK
<1>2. provider' = [provider EXCEPT ![p].phase = "users", ![p].users = a]
  BY DEF SetUserArray
<1>3. /\ provider' \in [Providers -> Provider]
      /\ provider'[p].users = a /\ provider'[p].phase = "users"
      /\ provider'[p].cRef = provider[p].cRef /\ provider'[p].tile = provider[p].tile
      /\ provider'[p].recreate = provider[p].recreate
      /\ \A q \in Providers \ {p} : provider'[q] = provider[q]
  BY <1>1, <1>2 DEF Provider, Phases
<1>4. UNCHANGED <<loaded, g_cRef, locks, filters, credential, held, eventRef, crashes>>
  BY DEF SetUserArray
<1>5. \A q \in Providers : provider'[q].tile = provider[q].tile
  BY <1>3
<1>6. /\ arrayRef' \in [Arrays -> Nat]
      /\ \A b \in Arrays :
            arrayRef'[b] = Cardinality({q \in Providers : provider'[q].users = b})
  BY <1>3, ArrayCounts DEF SetUserArray, LifecycleInv
<1>7. TypeOK'
  BY <1>3, <1>4, <1>6 DEF LifecycleInv, TypeOK
<1>8. CountsAreHolders'
  BY <1>4, <1>5, <1>6 DEF LifecycleInv, CountsAreHolders
<1>9. DllCount'
  <2>1. LiveProviders' = LiveProviders /\ LiveTiles' = LiveTiles
    BY <1>3, <1>4 DEF LiveProviders, LiveTiles
  <2>. QED  BY <1>4, <2>1 DEF LifecycleInv, DllCount
<1>10. DeadHoldNothing'
  BY <1>3, <1>4 DEF SetUserArray, LifecycleInv, DeadHoldNothing
<1>11. TilesUnshared'
  BY <1>5 DEF LifecycleInv, TilesUnshared
<1>12. MarkedUntilCounted'
  <2>1. provider[p].recreate
    BY DEF SetUserArray, LifecycleInv, MarkedUntilCounted
  <2>. QED  BY <1>3, <1>4, <2>1 DEF LifecycleInv, MarkedUntilCounted
<1>. QED  BY <1>7, <1>8, <1>9, <1>10, <1>11, <1>12 DEF LifecycleInv

LEMMA AdviseStep ==
    ASSUME LifecycleInv, NEW t \in Tiles, NEW e \in Callbacks \cup {NULL},
           held[t] > 0,
           credential' = [credential EXCEPT ![t].events = e],
           eventRef' = Moved(eventRef, credential[t].events, e),
           UNCHANGED <<loaded, g_cRef, locks, filters, provider, held, arrayRef, crashes>>
    PROVE  LifecycleInv'
<1>1. credential \in [Tiles -> Credential] /\ credential[t] \in Credential /\ held[t] \in Nat
  BY DEF LifecycleInv, TypeOK
<1>2. credential[t].cRef > 0
  BY <1>1 DEF LifecycleInv, CountsAreHolders
<1>3. /\ credential' \in [Tiles -> Credential]
      /\ credential'[t].events = e /\ credential'[t].cRef = credential[t].cRef
      /\ credential'[t].madeFrom = credential[t].madeFrom
      /\ \A u \in Tiles \ {t} : credential'[u] = credential[u]
  BY <1>1 DEF Credential
<1>4. \A u \in Tiles : credential'[u].cRef = credential[u].cRef
                     /\ credential'[u].madeFrom = credential[u].madeFrom
  BY <1>3
<1>5. /\ eventRef' \in [Callbacks -> Nat]
      /\ \A f \in Callbacks :
            eventRef'[f] = Cardinality({u \in Tiles : credential'[u].events = f})
  BY <1>3, EventCounts DEF LifecycleInv
<1>6. TypeOK'
  BY <1>3, <1>5 DEF LifecycleInv, TypeOK
<1>7. CountsAreHolders'
  BY <1>4, <1>5 DEF LifecycleInv, CountsAreHolders
<1>8. DllCount'
  <2>1. LiveProviders' = LiveProviders /\ LiveTiles' = LiveTiles
    BY <1>4 DEF LiveProviders, LiveTiles
  <2>. QED  BY <2>1 DEF LifecycleInv, DllCount
<1>9. DeadHoldNothing'
  BY <1>1, <1>2, <1>3 DEF LifecycleInv, DeadHoldNothing
<1>10. TilesUnshared'
  BY DEF LifecycleInv, TilesUnshared
<1>11. MarkedUntilCounted'
  BY <1>4 DEF LifecycleInv, MarkedUntilCounted, TypeOK, Provider
<1>. QED  BY <1>6, <1>7, <1>8, <1>9, <1>10, <1>11 DEF LifecycleInv

LEMMA GetCredentialAtStep ==
    ASSUME LifecycleInv, NEW p \in Providers, GetCredentialAt(p)
    PROVE  LifecycleInv'
<1>. DEFINE t == provider[p].tile
<1>0. CASE Crash
  BY <1>0, CrashStep
<1>1. CASE /\ t # NULL
           /\ credential' = [credential EXCEPT ![t].cRef = @ + 1]
           /\ held' = [held EXCEPT ![t] = @ + 1]
           /\ UNCHANGED <<loaded, g_cRef, locks, filters, provider, arrayRef, eventRef, crashes>>
  <2>1. /\ t \in Tiles /\ credential \in [Tiles -> Credential] /\ credential[t] \in Credential
        /\ held \in [Tiles -> Nat] /\ held[t] \in Nat
    BY <1>1 DEF LifecycleInv, TypeOK, Provider
  <2>2. credential[t].cRef > 0
    BY <2>1 DEF LifecycleInv, CountsAreHolders
  <2>. HIDE DEF t
  <2>3. /\ credential' \in [Tiles -> Credential] /\ held' \in [Tiles -> Nat]
        /\ credential'[t].cRef = credential[t].cRef + 1 /\ held'[t] = held[t] + 1
        /\ \A u \in Tiles \ {t} : credential'[u] = credential[u] /\ held'[u] = held[u]
        /\ \A u \in Tiles : credential'[u].events = credential[u].events
                           /\ credential'[u].madeFrom = credential[u].madeFrom
    BY <1>1, <2>1 DEF Credential
  <2>4. TypeOK'
    BY <1>1, <2>3 DEF LifecycleInv, TypeOK
  <2>5. CountsAreHolders'
    <3>1. \A u \in Tiles : credential'[u].cRef =
              held'[u] + (IF \E q \in Providers : provider'[q].tile = u THEN 1 ELSE 0)
      BY <1>1, <2>1, <2>3 DEF LifecycleInv, CountsAreHolders
    <3>2. \A e \in Callbacks : {u \in Tiles : credential'[u].events = e}
                             = {u \in Tiles : credential[u].events = e}
      BY <2>3
    <3>. QED  BY <1>1, <3>1, <3>2 DEF LifecycleInv, CountsAreHolders
  <2>6. DllCount'
    <3>1. LiveProviders' = LiveProviders /\ LiveTiles' = LiveTiles
      BY <1>1, <2>1, <2>2, <2>3 DEF LiveProviders, LiveTiles, Credential
    <3>. QED  BY <1>1, <3>1 DEF LifecycleInv, DllCount
  <2>7. DeadHoldNothing'
    BY <1>1, <2>1, <2>2, <2>3 DEF LifecycleInv, DeadHoldNothing, Credential
  <2>8. TilesUnshared'
    BY <1>1 DEF LifecycleInv, TilesUnshared
  <2>9. MarkedUntilCounted'
    BY <1>1, <2>3 DEF LifecycleInv, MarkedUntilCounted, TypeOK, Provider
  <2>. QED  BY <2>4, <2>5, <2>6, <2>7, <2>8, <2>9 DEF LifecycleInv
<1>. QED  BY <1>0, <1>1 DEF GetCredentialAt

LEMMA ReleaseTileStep ==
    ASSUME LifecycleInv, NEW t \in Tiles, ReleaseTile(t)
    PROVE  LifecycleInv'
<1>1. /\ credential \in [Tiles -> Credential] /\ credential[t] \in Credential
      /\ held \in [Tiles -> Nat] /\ held[t] \in Nat /\ held[t] > 0
      /\ credential[t].cRef = held[t]
              + (IF \E p \in Providers : provider[p].tile = t THEN 1 ELSE 0)
  BY DEF ReleaseTile, LifecycleInv, TypeOK, CountsAreHolders
<1>2. credential[t].cRef > 0 /\ (credential[t].cRef = 1 => credential[t].events = NULL)
  BY <1>1 DEF ReleaseTile
<1>3. /\ credential' \in [Tiles -> Credential]
      /\ \A u \in Tiles \ {t} : credential'[u] = credential[u]
      /\ credential'[t].cRef = credential[t].cRef - 1
      /\ credential'[t].cRef = 0 => credential'[t] = NoCredential
      /\ credential'[t].cRef > 0 => credential'[t].madeFrom = credential[t].madeFrom
      /\ \A u \in Tiles : credential'[u].events = credential[u].events
      /\ Cardinality({u \in Tiles : credential'[u].cRef > 0})
           = Cardinality(LiveTiles) - Deletes(t)
      /\ Deletes(t) \in {0, 1}
  BY <1>2, ReleasedTile DEF ReleaseTile, LifecycleInv
<1>4. /\ held' \in [Tiles -> Nat] /\ held'[t] = held[t] - 1
      /\ \A u \in Tiles \ {t} : held'[u] = held[u]
  BY <1>1 DEF ReleaseTile
<1>5. g_cRef' = g_cRef - Deletes(t)
      /\ UNCHANGED <<loaded, locks, filters, provider, arrayRef, eventRef, crashes>>
  BY DEF ReleaseTile
<1>6. TypeOK'
  BY <1>3, <1>4, <1>5 DEF LifecycleInv, TypeOK
<1>7. CountsAreHolders'
  <2>1. \A u \in Tiles : credential'[u].cRef =
            held'[u] + (IF \E q \in Providers : provider'[q].tile = u THEN 1 ELSE 0)
    BY <1>1, <1>3, <1>4, <1>5 DEF LifecycleInv, CountsAreHolders
  <2>2. \A e \in Callbacks : {u \in Tiles : credential'[u].events = e}
                           = {u \in Tiles : credential[u].events = e}
    BY <1>3
  <2>. QED  BY <1>5, <2>1, <2>2 DEF LifecycleInv, CountsAreHolders
<1>8. DllCount'
  <2>1. LiveTiles' = {u \in Tiles : credential'[u].cRef > 0} /\ LiveProviders' = LiveProviders
    BY <1>5 DEF LiveTiles, LiveProviders
  <2>2. Cardinality(LiveTiles') = Cardinality(LiveTiles) - Deletes(t)
    BY <1>3, <2>1
  <2>3. /\ g_cRef = locks + Cardinality(LiveProviders) + Cardinality(LiveTiles)
        /\ locks \in Nat /\ (~loaded => g_cRef = 0)
    BY DEF LifecycleInv, DllCount, TypeOK
  <2>4. g_cRef' = locks' + Cardinality(LiveProviders') + Cardinality(LiveTiles')
    BY <1>3, <1>5, <2>1, <2>2, <2>3, CountTypes
  <2>5. loaded
    <3>1. LiveTiles # {}
      BY <1>2 DEF LiveTiles
    <3>. QED  BY <2>3, <3>1, CountTypes
  <2>. QED  BY <1>5, <2>4, <2>5 DEF DllCount
<1>9. DeadHoldNothing'
  <2>1. held'[t] = 0 => credential'[t].events = NULL
    BY <1>1, <1>3, <1>4 DEF ReleaseTile
  <2>. QED  BY <1>1, <1>3, <1>4, <1>5, <2>1 DEF LifecycleInv, DeadHoldNothing
<1>10. TilesUnshared'
  BY <1>5 DEF LifecycleInv, TilesUnshared
<1>11. MarkedUntilCounted'
  <2>1. \A p \in Providers : provider[p].tile = t => credential'[t].cRef > 0
    BY <1>1, <1>3
  <2>2. \A p \in Providers : provider[p].tile # NULL =>
            credential'[provider[p].tile].madeFrom = credential[provider[p].tile].madeFrom
    BY <1>3, <2>1 DEF LifecycleInv, TypeOK, Provider
  <2>. QED  BY <1>5, <2>2 DEF LifecycleInv, MarkedUntilCounted
<1>. QED  BY <1>6, <1>7, <1>8, <1>9, <1>10, <1>11 DEF LifecycleInv

\* What _ReleaseEnumeratedCredentials and the destructor of a provider do to
\* its tile, if it has one.
LEMMA ProviderReleasesTile ==
    ASSUME LifecycleInv, NEW p \in Providers
    PROVE  LET R == Released(credential, provider[p].tile) IN
           /\ R \in [Tiles -> Credential]
           /\ \A u \in Tiles :
                R[u].cRef = held[u] + (IF \E q \in Providers \ {p} : provider[q].tile = u
                                       THEN 1 ELSE 0)
           /\ \A u \in Tiles : R[u].cRef = 0 => R[u] = NoCredential
           /\ \A u \in Tiles : R[u].cRef > 0 => R[u].madeFrom = credential[u].madeFrom
           /\ \A u \in Tiles : R[u].events = credential[u].events
           /\ Cardinality({u \in Tiles : R[u].cRef > 0})
                = Cardinality(LiveTiles) - Deletes(provider[p].tile)
           /\ Deletes(provider[p].tile) \in {0, 1}
<1>. DEFINE t == provider[p].tile
            R == Released(credential, t)
<1>1. /\ t \in Tiles \cup {NULL} /\ credential \in [Tiles -> Credential]
      /\ held \in [Tiles -> Nat]
  BY DEF LifecycleInv, TypeOK, Provider
<1>2. \A u \in Tiles : credential[u].cRef =
          held[u] + (IF \E q \in Providers : provider[q].tile = u THEN 1 ELSE 0)
  BY DEF LifecycleInv, CountsAreHolders
<1>3. \A u \in Tiles \ {t} : (\E q \in Providers : provider[q].tile = u)
          <=> (\E q \in Providers \ {p} : provider[q].tile = u)
  OBVIOUS
<1>4. CASE t = NULL
  <2>1. R = credential /\ Deletes(t) = 0
    BY <1>4 DEF Released, Deletes
  <2>2. \A u \in Tiles : R[u].cRef = held[u]
            + (IF \E q \in Providers \ {p} : provider[q].tile = u THEN 1 ELSE 0)
    BY <1>2, <1>3, <1>4, <2>1
  <2>. QED  BY <1>1, <2>1, <2>2, CountTypes DEF LifecycleInv, DeadHoldNothing, LiveTiles
<1>5. CASE t # NULL
  <2>1. t \in Tiles /\ held[t] \in Nat
    BY <1>1, <1>5
  <2>2. credential[t].cRef = held[t] + 1
    BY <1>2, <2>1
  <2>3. credential[t].cRef > 0 /\ (credential[t].cRef = 1 => credential[t].events = NULL)
    BY <2>1, <2>2 DEF LifecycleInv, DeadHoldNothing
  <2>4. ~\E q \in Providers \ {p} : provider[q].tile = t
    BY <1>5 DEF LifecycleInv, TilesUnshared
  <2>5. /\ R \in [Tiles -> Credential]
        /\ \A u \in Tiles \ {t} : R[u] = credential[u]
        /\ R[t].cRef = credential[t].cRef - 1
        /\ R[t].cRef = 0 => R[t] = NoCredential
        /\ R[t].cRef > 0 => R[t].madeFrom = credential[t].madeFrom
        /\ \A u \in Tiles : R[u].events = credential[u].events
        /\ Cardinality({u \in Tiles : R[u].cRef > 0})
             = Cardinality(LiveTiles) - Deletes(t)
        /\ Deletes(t) \in {0, 1}
    BY <2>1, <2>3, ReleasedTile DEF LifecycleInv
  <2>. HIDE DEF t, R
  <2>6. \A u \in Tiles : R[u].cRef = held[u]
            + (IF \E q \in Providers \ {p} : provider[q].tile = u THEN 1 ELSE 0)
    BY <1>2, <1>3, <2>1, <2>2, <2>4, <2>5
  <2>7. \A u \in Tiles : R[u].cRef = 0 => R[u] = NoCredential
    BY <2>5 DEF LifecycleInv, DeadHoldNothing
  <2>8. \A u \in Tiles : R[u].cRef > 0 => R[u].madeFrom = credential[u].madeFrom
    BY <2>5
  <2>. QED  BY <2>5, <2>6, <2>7, <2>8 DEF t, R
<1>. QED  BY <1>4, <1>5

LEMMA LastReleaseStep ==
    ASSUME LifecycleInv, NEW p \in Providers, ReleaseProvider(p), provider[p].cRef = 1
    PROVE  LifecycleInv'
<1>. DEFINE t == provider[p].tile
<1>1. /\ provider \in [Providers -> Provider] /\ provider' = [provider EXCEPT ![p] = NoProvider]
      /\ credential' = Released(credential, t)
      /\ arrayRef' = Moved(arrayRef, provider[p].users, NULL)
      /\ g_cRef' = g_cRef - 1 - Deletes(t)
      /\ UNCHANGED <<loaded, locks, filters, held, eventRef, crashes>>
  BY DEF ReleaseProvider, LifecycleInv, TypeOK
<1>2. /\ provider' \in [Providers -> Provider]
      /\ provider'[p] = NoProvider
      /\ \A q \in Providers \ {p} : provider'[q] = provider[q]
  BY <1>1, BlankObjects
<1>3. /\ credential' \in [Tiles -> Credential]
      /\ \A u \in Tiles :
           credential'[u].cRef = held[u] + (IF \E q \in Providers \ {p} : provider[q].tile = u
                                            THEN 1 ELSE 0)
      /\ \A u \in Tiles : credential'[u].cRef = 0 => credential'[u] = NoCredential
      /\ \A u \in Tiles : credential'[u].cRef > 0 =>
                            credential'[u].madeFrom = credential[u].madeFrom
      /\ \A u \in Tiles : credential'[u].events = credential[u].events
      /\ Cardinality({u \in Tiles : credential'[u].cRef > 0})
           = Cardinality(LiveTiles) - Deletes(t)
      /\ Deletes(t) \in {0, 1}
  BY <1>1, ProviderReleasesTile
<1>. HIDE DEF t
<1>4. /\ arrayRef' \in [Arrays -> Nat]
      /\ \A b \in Arrays :
            arrayRef'[b] = Cardinality({q \in Providers : provider'[q].users = b})
  BY <1>1, <1>2, ArrayCounts, BlankObjects DEF LifecycleInv
<1>5. TypeOK'
  BY <1>1, <1>2, <1>3, <1>4 DEF LifecycleInv, TypeOK
<1>6. CountsAreHolders'
  <2>1. \A u \in Tiles : (\E q \in Providers : provider'[q].tile = u)
                       <=> (\E q \in Providers \ {p} : provider[q].tile = u)
    BY <1>2, BlankObjects
  <2>2. \A u \in Tiles : credential'[u].cRef =
            held'[u] + (IF \E q \in Providers : provider'[q].tile = u THEN 1 ELSE 0)
    BY <1>1, <1>3, <2>1
  <2>3. \A e \in Callbacks : {u \in Tiles : credential'[u].events = e}
                           = {u \in Tiles : credential[u].events = e}
    BY <1>3
  <2>. QED  BY <1>1, <1>4, <2>2, <2>3 DEF LifecycleInv, CountsAreHolders
<1>7. DllCount'
  <2>1. p \in LiveProviders /\ LiveProviders' = LiveProviders \ {p}
    BY <1>2, BlankObjects DEF LiveProviders
  <2>2. IsFiniteSet(LiveProviders)
    BY FS_Subset DEF LiveProviders
  <2>3. Cardinality(LiveProviders') = Cardinality(LiveProviders) - 1
    BY <2>1, <2>2, FS_RemoveElement
  <2>4. LiveTiles' = {u \in Tiles : credential'[u].cRef > 0}
    BY DEF LiveTiles
  <2>5. Cardinality(LiveTiles') = Cardinality(LiveTiles) - Deletes(t)
    BY <1>3, <2>4
  <2>6. /\ g_cRef = locks + Cardinality(LiveProviders) + Cardinality(LiveTiles)
        /\ locks \in Nat /\ (~loaded => g_cRef = 0)
    BY DEF LifecycleInv, DllCount, TypeOK
  <2>7. loaded
    <3>1. Cardinality(LiveProviders) > 0
      BY <2>1, CountTypes
    <3>2. g_cRef # 0
      BY <2>6, <3>1, CountTypes
    <3>. QED  BY <2>6, <3>2
  <2>8. g_cRef' = locks' + Cardinality(LiveProviders') + Cardinality(LiveTiles')
    BY <1>1, <1>3, <2>3, <2>5, <2>6, CountTypes
  <2>. QED  BY <1>1, <2>7, <2>8 DEF DllCount
<1>8. DeadHoldNothing'
  BY <1>1, <1>2, <1>3 DEF LifecycleInv, DeadHoldNothing
<1>9. TilesUnshared'
  BY <1>2, BlankObjects DEF LifecycleInv, TilesUnshared
<1>10. MarkedUntilCounted'
  <2>1. ASSUME NEW q \in Providers \ {p}, provider[q].tile # NULL
        PROVE  credential'[provider[q].tile].madeFrom = credential[provider[q].tile].madeFrom
    <3>1. provider[q].tile \in Tiles /\ held[provider[q].tile] \in Nat
      BY <2>1 DEF LifecycleInv, TypeOK, Provider
    <3>. QED  BY <1>3, <3>1
  <2>. QED  BY <1>2, <2>1, BlankObjects DEF LifecycleInv, MarkedUntilCounted
<1>. QED  BY <1>5, <1>6, <1>7, <1>8, <1>9, <1>10 DEF LifecycleInv

LEMMA GetCredentialCountStep ==
    ASSUME LifecycleInv, NEW p \in Providers, GetCredentialCount(p)
    PROVE  LifecycleInv'
<1>. DEFINE R == Released(credential, provider[p].tile)
            D == Deletes(provider[p].tile)
<1>0. UNCHANGED <<loaded, locks, filters, held, arrayRef, eventRef, crashes>>
  BY DEF GetCredentialCount
<1>1. provider \in [Providers -> Provider] /\ provider[p] \in Provider /\ provider[p].cRef > 0
  BY DEF GetCredentialCount, LifecycleInv, TypeOK
<1>2. ASSUME ~provider[p].recreate, provider' = [provider EXCEPT ![p].phase = "counted"],
             UNCHANGED <<g_cRef, credential>>
      PROVE  LifecycleInv'
  <2>1. /\ provider' \in [Providers -> Provider]
        /\ provider'[p].phase = "counted" /\ provider'[p].recreate = provider[p].recreate
        /\ \A q \in Providers \ {p} : provider'[q] = provider[q]
        /\ \A q \in Providers : provider'[q].tile = provider[q].tile
                               /\ provider'[q].users = provider[q].users
        /\ \A q \in Providers : provider'[q].cRef = provider[q].cRef
    BY <1>1, <1>2 DEF Provider, Phases
  <2>2. TypeOK'
    BY <1>0, <1>2, <2>1 DEF LifecycleInv, TypeOK
  <2>3. CountsAreHolders'
    BY <1>0, <1>2, <2>1 DEF LifecycleInv, CountsAreHolders
  <2>4. DllCount'
    <3>1. LiveProviders' = LiveProviders /\ LiveTiles' = LiveTiles
      BY <1>2, <2>1 DEF LiveProviders, LiveTiles
    <3>. QED  BY <1>0, <1>2, <3>1 DEF LifecycleInv, DllCount
  <2>5. DeadHoldNothing'
    BY <1>0, <1>1, <1>2, <2>1 DEF LifecycleInv, DeadHoldNothing
  <2>6. TilesUnshared'
    BY <2>1 DEF LifecycleInv, TilesUnshared
  <2>7. MarkedUntilCounted'
    BY <1>2, <2>1 DEF LifecycleInv, MarkedUntilCounted
  <2>. QED  BY <2>2, <2>3, <2>4, <2>5, <2>6, <2>7 DEF LifecycleInv
<1>3. ASSUME NEW t \in Enumerated(p, R),
             provider' = [provider EXCEPT ![p].phase = "counted", ![p].tile = t,
                                          ![p].recreate = FALSE],
             credential' = IF t = NULL THEN R ELSE [R EXCEPT ![t] = NewCredential(p)],
             g_cRef' = g_cRef - D + (IF t = NULL THEN 0 ELSE 1)
      PROVE  LifecycleInv'
  <2>1. /\ R \in [Tiles -> Credential]
        /\ \A u \in Tiles :
             R[u].cRef = held[u] + (IF \E q \in Providers \ {p} : provider[q].tile = u
                                    THEN 1 ELSE 0)
        /\ \A u \in Tiles : R[u].cRef = 0 => R[u] = NoCredential
        /\ \A u \in Tiles : R[u].cRef > 0 => R[u].madeFrom = credential[u].madeFrom
        /\ \A u \in Tiles : R[u].events = credential[u].events
        /\ Cardinality({u \in Tiles : R[u].cRef > 0}) = Cardinality(LiveTiles) - D
        /\ D \in {0, 1}
    BY ProviderReleasesTile
  <2>2. t \in Tiles \cup {NULL} /\ (t # NULL => t \in Tiles /\ R[t].cRef = 0)
    BY DEF Enumerated
  <2>. HIDE DEF R, D
  <2>3. /\ provider' \in [Providers -> Provider]
        /\ provider'[p].phase = "counted" /\ provider'[p].recreate = FALSE
        /\ provider'[p].tile = t /\ provider'[p].users = provider[p].users
        /\ provider'[p].cRef = provider[p].cRef
        /\ \A q \in Providers \ {p} : provider'[q] = provider[q]
    BY <1>1, <1>3, <2>2 DEF Provider, Phases
  <2>4. /\ NewCredential(p) \in Credential /\ NewCredential(p).cRef = 1
        /\ NewCredential(p).events = NULL /\ NewCredential(p).madeFrom = provider[p].users
    BY <1>1 DEF NewCredential, Credential, Provider
  <2>5. /\ credential' \in [Tiles -> Credential]
        /\ \A u \in Tiles \ {t} : credential'[u] = R[u]
        /\ t # NULL => credential'[t] = NewCredential(p)
    BY <1>3, <2>1, <2>2, <2>4
  <2>6. \A u \in Tiles : credential'[u].events = credential[u].events
    BY <2>1, <2>2, <2>4, <2>5, BlankObjects
  <2>7. held \in [Tiles -> Nat]
    BY DEF LifecycleInv, TypeOK
  <2>8. t # NULL => /\ held[t] = 0
                    /\ ~\E q \in Providers \ {p} : provider[q].tile = t
    BY <2>1, <2>2, <2>7
  <2>9. TypeOK'
    <3>1. g_cRef' \in Int
      BY <1>3, <2>1 DEF LifecycleInv, TypeOK
    <3>. QED  BY <1>0, <2>3, <2>5, <3>1 DEF LifecycleInv, TypeOK
  <2>10. CountsAreHolders'
    <3>1. \A u \in Tiles \ {t} : (\E q \in Providers : provider'[q].tile = u)
                              <=> (\E q \in Providers \ {p} : provider[q].tile = u)
      BY <2>3
    <3>2. \A u \in Tiles \ {t} : credential'[u].cRef =
              held[u] + (IF \E q \in Providers : provider'[q].tile = u THEN 1 ELSE 0)
      BY <2>1, <2>5, <3>1
    <3>3. t # NULL => credential'[t].cRef =
              held[t] + (IF \E q \in Providers : provider'[q].tile = t THEN 1 ELSE 0)
      BY <2>3, <2>4, <2>5, <2>8
    <3>4. \A u \in Tiles : credential'[u].cRef =
              held'[u] + (IF \E q \in Providers : provider'[q].tile = u THEN 1 ELSE 0)
      BY <1>0, <2>2, <3>2, <3>3
    <3>5. \A e \in Callbacks : {u \in Tiles : credential'[u].events = e}
                             = {u \in Tiles : credential[u].events = e}
      BY <2>6
    <3>6. \A a \in Arrays : {q \in Providers : provider'[q].users = a}
                          = {q \in Providers : provider[q].users = a}
      BY <2>3
    <3>. QED  BY <1>0, <3>4, <3>5, <3>6 DEF LifecycleInv, CountsAreHolders
  <2>11. DllCount'
    <3>. DEFINE Left == {u \in Tiles : R[u].cRef > 0}
    <3>1. LiveProviders' = LiveProviders /\ p \in LiveProviders
      BY <1>1, <2>3 DEF LiveProviders
    <3>2. IsFiniteSet(Left)
      BY FS_Subset
    <3>3. LiveTiles' = (IF t = NULL THEN Left ELSE Left \cup {t})
      BY <2>2, <2>4, <2>5 DEF LiveTiles
    <3>4. t # NULL => t \notin Left
      BY <2>2
    <3>5. Cardinality(Left) = Cardinality(LiveTiles) - D
      BY <2>1
    <3>. HIDE DEF Left
    <3>6. Cardinality(LiveTiles') = Cardinality(LiveTiles) - D + (IF t = NULL THEN 0 ELSE 1)
      <4>1. t # NULL => Cardinality(Left \cup {t}) = Cardinality(Left) + 1
        BY <3>2, <3>4, FS_AddElement
      <4>. QED  BY <2>1, <3>3, <3>5, <4>1, CountTypes
    <3>7. /\ g_cRef = locks + Cardinality(LiveProviders) + Cardinality(LiveTiles)
          /\ locks \in Nat /\ (~loaded => g_cRef = 0)
      BY DEF LifecycleInv, DllCount, TypeOK
    <3>8. Cardinality(LiveProviders) > 0
      BY <3>1, CountTypes
    <3>9. loaded
      <4>1. g_cRef # 0
        BY <3>7, <3>8, CountTypes
      <4>. QED  BY <3>7, <4>1
    <3>10. g_cRef' = locks' + Cardinality(LiveProviders') + Cardinality(LiveTiles')
      BY <1>0, <1>3, <2>1, <3>1, <3>6, <3>7, CountTypes
    <3>. QED  BY <1>0, <3>9, <3>10 DEF DllCount
  <2>12. DeadHoldNothing'
    <3>1. \A u \in Tiles : credential'[u].cRef = 0 => credential'[u] = NoCredential
      BY <2>1, <2>2, <2>4, <2>5
    <3>. QED  BY <1>0, <1>1, <2>3, <2>6, <3>1 DEF LifecycleInv, DeadHoldNothing
  <2>13. TilesUnshared'
    BY <2>3, <2>8 DEF LifecycleInv, TilesUnshared
  <2>14. MarkedUntilCounted'
    <3>1. ASSUME NEW q \in Providers \ {p}, provider[q].tile # NULL
          PROVE  credential'[provider[q].tile].madeFrom = credential[provider[q].tile].madeFrom
      <4>1. /\ provider[q].tile \in Tiles /\ held[provider[q].tile] \in Nat
            /\ provider[q].tile # t
        BY <2>8, <3>1 DEF LifecycleInv, TypeOK, Provider
      <4>. QED  BY <2>1, <2>5, <4>1
    <3>2. t # NULL => credential'[t].madeFrom = provider'[p].users
      BY <2>3, <2>4, <2>5
    <3>. QED  BY <2>3, <3>1, <3>2 DEF LifecycleInv, MarkedUntilCounted
  <2>. QED  BY <2>9, <2>10, <2>11, <2>12, <2>13, <2>14 DEF LifecycleInv
<1>4. CASE ~provider[p].recreate
  BY <1>2, <1>4 DEF GetCredentialCount
<1>5. CASE provider[p].recreate
  BY <1>3, <1>5 DEF GetCredentialCount
<1>. QED  BY <1>4, <1>5

-----------------------------------------------------------------------------
(* The theorems. *)

LEMMA NextLifecycle == LifecycleInv /\ [Next]_vars => LifecycleInv'
<1>. SUFFICES ASSUME LifecycleInv, [Next]_vars  PROVE LifecycleInv'
  OBVIOUS
<1>1. CASE UNCHANGED vars
  <2>1. TypeOK' /\ CountsAreHolders'
    BY <1>1 DEF vars, LifecycleInv, TypeOK, CountsAreHolders
  <2>2. DllCount'
    BY <1>1 DEF vars, LifecycleInv, DllCount, LiveProviders, LiveTiles
  <2>3. (DeadHoldNothing /\ TilesUnshared /\ MarkedUntilCounted)'
    BY <1>1 DEF vars, LifecycleInv, DeadHoldNothing, TilesUnshared, MarkedUntilCounted
  <2>. QED  BY <2>1, <2>2, <2>3 DEF LifecycleInv
<1>2. ASSUME NEW p \in Providers,
             \/ QueryProvider(p)
             \/ \E supported \in BOOLEAN : SetUsageScenario(p, supported)
      PROVE  LifecycleInv'
  BY <1>2, ProviderCallStep
<1>3. ASSUME NEW p \in Providers, ReleaseProvider(p)
      PROVE  LifecycleInv'
  <2>1. provider[p].cRef = 1 \/ provider[p].cRef > 1
    BY <1>3 DEF ReleaseProvider, LifecycleInv, TypeOK, Provider
  <2>. QED  BY <1>3, <2>1, ProviderCallStep, LastReleaseStep
<1>4. ASSUME NEW t \in Tiles, UnAdvise(t) \/ \E e \in Callbacks : Advise(t, e)
      PROVE  LifecycleInv'
  BY <1>4, AdviseStep DEF Advise, UnAdvise
<1>5. CASE Next
  BY <1>2, <1>3, <1>4, <1>5, CreateProviderStep, SetUserArrayStep, GetCredentialCountStep,
     GetCredentialAtStep, ReleaseTileStep, FilterStep, LibraryStep DEF Next
<1>. QED  BY <1>1, <1>5

\* Type correctness of the life cycle.
THEOREM TypeCorrect == Spec => []TypeOK
<1>1. LifecycleInv => TypeOK
  BY DEF LifecycleInv
<1>. QED  BY InitLifecycle, NextLifecycle, <1>1, PTL DEF Spec

\* Every reference count is the number of holders, for any number of objects:
\* nothing is deleted while it is held, and nothing outlives its holders.
THEOREM CountsStayHolders == Spec => []CountsAreHolders
<1>1. LifecycleInv => CountsAreHolders
  BY DEF LifecycleInv
<1>. QED  BY InitLifecycle, NextLifecycle, <1>1, PTL DEF Spec

\* The DLL stays in the process as long as one of its providers or tiles exists.
THEOREM LoadedWhileUsed == Spec => []LoadedForObjects
<1>1. LifecycleInv => LoadedForObjects
  <2>. SUFFICES ASSUME LifecycleInv, ~loaded
                PROVE  LiveProviders = {} /\ LiveTiles = {} /\ ~(locks > 0)
    BY DEF LoadedForObjects
  <2>1. /\ 0 = locks + Cardinality(LiveProviders) + Cardinality(LiveTiles)
        /\ locks \in Nat
    BY DEF LifecycleInv, DllCount, TypeOK
  <2>2. Cardinality(LiveProviders) = 0 /\ Cardinality(LiveTiles) = 0 /\ ~(locks > 0)
    BY <2>1, CountTypes
  <2>. QED  BY <2>2, CountTypes
<1>. QED  BY InitLifecycle, NextLifecycle, <1>1, PTL DEF Spec

\* No tile of an earlier scenario is shown for the users of the present one.
THEOREM TilesOfPresentUsers == Spec => []TileOfPresentUsers
<1>1. LifecycleInv => TileOfPresentUsers
  BY DEF LifecycleInv, MarkedUntilCounted, TileOfPresentUsers
<1>. QED  BY InitLifecycle, NextLifecycle, <1>1, PTL DEF Spec

-----------------------------------------------------------------------------
(* The logon with a one-time code. *)

\* Every conjunct of LogonInv is kept by every action.
LEMMA LogonStep ==
    ASSUME LogonInv, [LogonNext]_logonVars
    PROVE  LogonInv'
<1> USE LogonAssumption DEF Steps, Inputs, Answers, Running, Verdicts,
            OnWire, attemptVars, Goto, Returns
<1> USE DEF LogonInv, LogonTypeOK, AnswersAreFresh, CallHasWire, WireHasCall, VerdictFollowsReply
<1>1. ASSUME Tick  PROVE LogonInv'
  BY <1>1 DEF Tick
<1>2. ASSUME NEW a \in Attempts, NEW t \in Inputs, Submit(a, t)  PROVE LogonInv'
  BY <1>2 DEF Submit
<1>3. ASSUME NEW a \in Attempts, Connect(a) \/ ConnectFails(a)  PROVE LogonInv'
  BY <1>3 DEF Connect, ConnectFails
<1>4. ASSUME NEW a \in Attempts, Take(a)  PROVE LogonInv'
  <2>1. /\ wire' = [caller |-> a, live |-> TRUE, code |-> NONE] /\ wire' \in OnWire
        /\ pc' = [pc EXCEPT ![a] = "waiting"] /\ link = "connected" /\ wire = NONE
        /\ UNCHANGED <<now, typed, started, reply, link, registered, clientCrashes>>
    BY <1>4 DEF Take
  <2>2. \A b \in Attempts : pc[b] # "waiting"
    BY <2>1
  <2>3. LogonTypeOK'
    BY <2>1
  <2>4. CallHasWire'
    BY <2>1, <2>2
  <2>5. WireHasCall'
    BY <2>1
  <2>6. AnswersAreFresh' /\ VerdictFollowsReply'
    BY <1>4, <2>1 DEF Take
  <2>. QED  BY <2>3, <2>4, <2>5, <2>6
<1>5. ASSUME NEW a \in Attempts, TakeFails(a)  PROVE LogonInv'
  BY <1>5 DEF TakeFails
<1>6. ASSUME NEW a \in Attempts, TimeOut(a)  PROVE LogonInv'
  <2>1. /\ pc[a] = "waiting" /\ wire # NONE /\ wire \in OnWire
        /\ wire' = [wire EXCEPT !.live = FALSE] /\ wire' \in OnWire /\ ~wire'.live
        /\ pc' = [pc EXCEPT ![a] = "reply"] /\ reply' = [reply EXCEPT ![a] = ERROR]
        /\ UNCHANGED <<now, typed, started, link, registered, clientCrashes>>
    BY <1>6 DEF TimeOut
  <2>2. \A b \in Attempts : pc[b] = "waiting" => b = a
    BY <2>1
  <2>3. LogonTypeOK'
    BY <2>1
  <2>4. CallHasWire' /\ WireHasCall'
    BY <2>1, <2>2
  <2>5. AnswersAreFresh' /\ VerdictFollowsReply'
    BY <2>1
  <2>. QED  BY <2>3, <2>4, <2>5
<1>7. ASSUME NEW a \in Attempts, Compare(a)  PROVE LogonInv'
  BY <1>7 DEF Compare
<1>8. CASE TakeBackground
  BY <1>8 DEF TakeBackground
<1>9. CASE Deliver
  BY <1>9 DEF Deliver
<1>10. CASE Break
  BY <1>10 DEF Break
<1>11. CASE ClientCrash
  BY <1>11 DEF ClientCrash
<1>12. CASE Start
  BY <1>12 DEF Start
<1>13. CASE Answer
  <2>1. PICK c \in {now, EMPTY} : wire' = [wire EXCEPT !.code = c]
    BY <1>13 DEF Answer
  <2>2. /\ wire # NONE /\ wire \in OnWire /\ wire' \in OnWire /\ wire'.code = c
        /\ wire'.caller = wire.caller /\ wire'.live = wire.live
        /\ UNCHANGED <<now, pc, typed, started, reply, link, registered, clientCrashes>>
    BY <1>13, <2>1 DEF Answer
  <2>3. LogonTypeOK' /\ CallHasWire' /\ AnswersAreFresh' /\ VerdictFollowsReply'
    BY <2>2
  <2>4. WireHasCall'
    <3>1. ASSUME wire.live, c \in Steps
          PROVE  started[wire.caller] <= c /\ c <= now
      <4>1. c = now
        BY <2>1, <3>1
      <4>2. wire.caller \in Attempts /\ now \in Nat
        BY <2>2, <3>1
      <4>. QED  BY <4>1, <4>2
    <3>. QED  BY <2>2, <3>1
  <2>. QED  BY <2>3, <2>4
<1>14. CASE Deregister
  BY <1>14 DEF Deregister
<1>15. CASE UNCHANGED logonVars
  BY <1>15 DEF logonVars
<1>. QED  BY <1>1, <1>2, <1>3, <1>4, <1>5, <1>6, <1>7, <1>8, <1>9, <1>10, <1>11,
             <1>12, <1>13, <1>14, <1>15 DEF LogonNext

\* No attempt has begun.
LEMMA InitLogon ==
    ASSUME LogonInit
    PROVE  LogonInv
BY LogonAssumption DEF Steps, Inputs, Answers, Running, Verdicts,
       OnWire, LogonInit, LogonInv, LogonTypeOK, AnswersAreFresh,
       CallHasWire, WireHasCall, VerdictFollowsReply

\* LogonInv is an invariant.
LEMMA LogonKeepsInv == LogonSpec => []LogonInv
<1>1. LogonInit => LogonInv
  BY InitLogon
<1>2. LogonInv /\ [LogonNext]_logonVars => LogonInv'
  BY LogonStep
<1>. QED  BY <1>1, <1>2, PTL DEF LogonSpec

-----------------------------------------------------------------------------
(* The theorems about the logon. *)

\* Every variable of the logon keeps its type.
THEOREM LogonTypeCorrect == LogonSpec => []LogonTypeOK
BY LogonKeepsInv, PTL DEF LogonInv

\* GetSerialization accepts a code only if the server computed it while the
\* attempt ran, whatever other attempts, timeouts and crashes come between.
THEOREM OnlyFreshCodes == LogonSpec => []AcceptedIsFresh
<1> USE LogonAssumption DEF Steps, Inputs, Answers
<1>1. LogonInv => AcceptedIsFresh
  <2> SUFFICES ASSUME LogonInv, NEW a \in Attempts, pc[a] = "accepted"
               PROVE  typed[a] \in Steps /\ started[a] <= typed[a] /\ typed[a] <= now
    BY DEF AcceptedIsFresh
  <2>1. typed[a] \in Inputs /\ reply[a] = typed[a] /\ reply[a] \in Answers \cup {ERROR}
    BY DEF LogonInv, LogonTypeOK, VerdictFollowsReply
  <2>2. typed[a] \in Steps
    BY <2>1
  <2>. QED  BY <2>1, <2>2 DEF LogonInv, AnswersAreFresh
<1>. QED  BY <1>1, LogonKeepsInv, PTL

\* The code of the present step is called incorrect only when no code came back.
THEOREM CurrentCodesAreRight == LogonSpec => []CurrentCodeIsRight
<1> USE LogonAssumption DEF Steps, Inputs, Answers
<1>1. LogonInv => CurrentCodeIsRight
  <2> SUFFICES ASSUME LogonInv, NEW a \in Attempts, pc[a] = "incorrect",
                      typed[a] = started[a], started[a] = now
               PROVE  reply[a] \in {ERROR, EMPTY}
    BY DEF CurrentCodeIsRight
  <2>1. reply[a] \in Answers \cup {ERROR} /\ reply[a] # typed[a] /\ now \in Steps
    BY DEF LogonInv, LogonTypeOK, VerdictFollowsReply
  <2>2. ASSUME reply[a] \in Steps  PROVE FALSE
    <3>1. now <= reply[a] /\ reply[a] <= now
      BY <2>2 DEF LogonInv, AnswersAreFresh
    <3>. QED  BY <2>1, <2>2, <3>1
  <2>. QED  BY <2>1, <2>2
<1>. QED  BY <1>1, LogonKeepsInv, PTL
=============================================================================
