-------------------------- MODULE ProviderLifecycle --------------------------
(***************************************************************************)
(* The COM objects of the credential provider DLL: CSampleProvider with    *)
(* the tile (CSampleCredential) it enumerates, the filter and the class    *)
(* factory's locks, under any legal sequence of calls of LogonUI.          *)
(*                                                                         *)
(* Objects are named by their address, so a name is used again once its    *)
(* object is deleted.  LogonUI calls from one thread, and one call is one  *)
(* step.  Texts and the display state of the tile's fields are left out.   *)
(***************************************************************************)
EXTENDS Integers, FiniteSets

CONSTANTS Providers,    \* addresses of CSampleProvider objects
          Tiles,        \* addresses of CSampleCredential objects
          Arrays,       \* user arrays LogonUI passes in
          EmptyArrays,  \* those of them without a user
          Callbacks,    \* callback objects LogonUI passes to Advise
          NULL,         \* the null pointer
          MaxRefs,      \* bound on LogonUI's references to one object
          MaxLocks,     \* bound on LockServer(TRUE)
          MaxCrashes    \* bound on the crashes of LogonUI

ASSUME LifecycleAssumption ==
    /\ IsFiniteSet(Providers) /\ IsFiniteSet(Tiles)
    /\ EmptyArrays \subseteq Arrays
    /\ NULL \notin Tiles \cup Arrays \cup Callbacks
    /\ MaxRefs \in Nat /\ MaxLocks \in Nat /\ MaxCrashes \in Nat

VARIABLES
    loaded,     \* whether the DLL is in the process
    g_cRef,     \* its reference count
    locks,      \* LockServer calls that LogonUI has not taken back
    filters,    \* CSampleProviderFilter objects that LogonUI holds
    provider,   \* the CSampleProvider objects
    credential, \* the CSampleCredential objects
    held,       \* LogonUI's references to each tile
    arrayRef,   \* the providers' references to each user array
    eventRef,   \* the tiles' references to each callback object
    crashes     \* how often LogonUI ended in an access violation

vars == <<loaded, g_cRef, locks, filters, provider, credential, held,
          arrayRef, eventRef, crashes>>

\* What LogonUI has called last: nothing yet, SetUsageScenario with success or
\* with an error, SetUserArray, GetCredentialCount.
Phases == {"new", "scenario", "refused", "users", "counted"}

Provider == [cRef : Nat, phase : Phases, recreate : BOOLEAN,
             tile : Tiles \cup {NULL}, users : Arrays \cup {NULL}]

\* madeFrom is a ghost: the array whose first user Initialize was given.
Credential == [cRef : Nat, events : Callbacks \cup {NULL},
               madeFrom : Arrays \cup {NULL}]

NoProvider == [cRef |-> 0, phase |-> "new", recreate |-> FALSE,
               tile |-> NULL, users |-> NULL]
NoCredential == [cRef |-> 0, events |-> NULL, madeFrom |-> NULL]

LiveProviders == {p \in Providers : provider[p].cRef > 0}
LiveTiles     == {t \in Tiles : credential[t].cRef > 0}

TypeOK ==
    /\ loaded \in BOOLEAN
    /\ g_cRef \in Int
    /\ locks \in 0..MaxLocks
    /\ filters \in 0..MaxRefs
    /\ provider \in [Providers -> Provider]
    /\ credential \in [Tiles -> Credential]
    /\ held \in [Tiles -> Nat]
    /\ arrayRef \in [Arrays -> Nat]
    /\ eventRef \in [Callbacks -> Nat]
    /\ crashes \in 0..MaxCrashes

Init ==
    /\ loaded = FALSE
    /\ g_cRef = 0
    /\ locks = 0
    /\ filters = 0
    /\ provider = [p \in Providers |-> NoProvider]
    /\ credential = [t \in Tiles |-> NoCredential]
    /\ held = [t \in Tiles |-> 0]
    /\ arrayRef = [a \in Arrays |-> 0]
    /\ eventRef = [e \in Callbacks |-> 0]
    /\ crashes = 0

-----------------------------------------------------------------------------
(* Reference counts. *)

\* The counts ref with one reference less to x and one more to y; either may
\* be the null pointer.
Moved(ref, x, y) ==
    [z \in DOMAIN ref |-> ref[z] - (IF z = x THEN 1 ELSE 0) + (IF z = y THEN 1 ELSE 0)]

\* CSampleCredential::Release: the destructor runs with the last reference.
\* It does not release the callback object.
Released(creds, t) ==
    IF t = NULL THEN creds
    ELSE IF creds[t].cRef = 1 THEN [creds EXCEPT ![t] = NoCredential]
    ELSE [creds EXCEPT ![t].cRef = @ - 1]

\* The DllRelease of a destructor that a Release of t runs.
Deletes(t) == IF t # NULL /\ credential[t].cRef = 1 THEN 1 ELSE 0

\* LogonUI ends in an access violation, and the objects with it.
Crash ==
    /\ crashes < MaxCrashes
    /\ crashes' = crashes + 1
    /\ loaded' = FALSE
    /\ g_cRef' = 0
    /\ locks' = 0
    /\ filters' = 0
    /\ provider' = [p \in Providers |-> NoProvider]
    /\ credential' = [t \in Tiles |-> NoCredential]
    /\ held' = [t \in Tiles |-> 0]
    /\ arrayRef' = [a \in Arrays |-> 0]
    /\ eventRef' = [e \in Callbacks |-> 0]

-----------------------------------------------------------------------------
(* The DLL. *)

\* The constructor leaves _fRecreateEnumeratedCredentials as it finds it.
NewProvider(mark) == [NoProvider EXCEPT !.cRef = 1, !.recreate = mark]

\* Variant for a mutation run: the constructor does not count.
CreateProviderUncounted(p) ==
    /\ provider[p].cRef = 0
    /\ \E mark \in BOOLEAN : provider' = [provider EXCEPT ![p] = NewProvider(mark)]
    /\ loaded' = TRUE
    /\ UNCHANGED <<g_cRef, locks, filters, credential, held, arrayRef, eventRef, crashes>>

\* CClassFactory::CreateInstance of the provider: the reference of
\* CSample_CreateInstance is released, that of QueryInterface is LogonUI's.
CreateProvider(p) ==
    /\ provider[p].cRef = 0
    /\ \E mark \in BOOLEAN : provider' = [provider EXCEPT ![p] = NewProvider(mark)]
    /\ g_cRef' = g_cRef + 1
    /\ loaded' = TRUE
    /\ UNCHANGED <<locks, filters, credential, held, arrayRef, eventRef, crashes>>

\* CreateInstance of the filter, which the DLL's count does not include.
CreateFilter ==
    /\ filters < MaxRefs
    /\ filters' = filters + 1
    /\ loaded' = TRUE
    /\ UNCHANGED <<g_cRef, locks, provider, credential, held, arrayRef, eventRef, crashes>>

\* A call into a DLL that is gone is an access violation.
ReleaseFilter ==
    /\ filters > 0
    /\ \/ /\ loaded
          /\ filters' = filters - 1
          /\ UNCHANGED <<loaded, g_cRef, locks, provider, credential, held, arrayRef,
                         eventRef, crashes>>
       \/ ~loaded /\ Crash

LockServer(lock) ==
    /\ loaded
    /\ locks' \in 0..MaxLocks
    /\ locks' = locks + lock
    /\ g_cRef' = g_cRef + lock
    /\ UNCHANGED <<loaded, filters, provider, credential, held, arrayRef, eventRef, crashes>>

\* COM asks DllCanUnloadNow and frees the DLL.
Unload ==
    /\ loaded
    /\ g_cRef <= 0
    /\ loaded' = FALSE
    /\ g_cRef' = 0
    /\ UNCHANGED <<locks, filters, provider, credential, held, arrayRef, eventRef, crashes>>

-----------------------------------------------------------------------------
(* CSampleProvider. *)

\* LogonUI asks for another interface of the provider.
QueryProvider(p) ==
    /\ provider[p].cRef \in 1..(MaxRefs - 1)
    /\ provider' = [provider EXCEPT ![p].cRef = @ + 1]
    /\ UNCHANGED <<loaded, g_cRef, locks, filters, credential, held, arrayRef, eventRef,
                   crashes>>

\* Release; the destructor releases the tile and the user array.
ReleaseProvider(p) ==
    LET tile == provider[p].tile IN
    /\ provider[p].cRef > 0
    /\ IF provider[p].cRef > 1
       THEN /\ provider' = [provider EXCEPT ![p].cRef = @ - 1]
            /\ UNCHANGED <<g_cRef, credential, arrayRef>>
       ELSE /\ provider' = [provider EXCEPT ![p] = NoProvider]
            /\ credential' = Released(credential, tile)
            /\ arrayRef' = Moved(arrayRef, provider[p].users, NULL)
            /\ g_cRef' = g_cRef - 1 - Deletes(tile)
    /\ UNCHANGED <<loaded, locks, filters, held, eventRef, crashes>>

\* SetUsageScenario with a scenario the provider supports only leaves a mark,
\* since the users of the new scenario are set after it.
SetUsageScenario(p, supported) ==
    /\ provider[p].cRef > 0
    /\ provider' = [provider EXCEPT
            ![p].phase = IF supported THEN "scenario" ELSE "refused",
            ![p].recreate = @ \/ supported]
    /\ UNCHANGED <<loaded, g_cRef, locks, filters, credential, held, arrayRef, eventRef,
                   crashes>>

\* Variant for a mutation run: the array it had is not released.
SetUserArrayKeep(p, a) ==
    /\ provider[p].cRef > 0 /\ provider[p].phase \in {"scenario", "users"}
    /\ provider' = [provider EXCEPT ![p].phase = "users", ![p].users = a]
    /\ arrayRef' = Moved(arrayRef, NULL, a)
    /\ UNCHANGED <<loaded, g_cRef, locks, filters, credential, held, eventRef, crashes>>

\* SetUserArray, which LogonUI calls after SetUsageScenario succeeded.
SetUserArray(p, a) ==
    /\ provider[p].cRef > 0 /\ provider[p].phase \in {"scenario", "users"}
    /\ provider' = [provider EXCEPT ![p].phase = "users", ![p].users = a]
    /\ arrayRef' = Moved(arrayRef, provider[p].users, a)
    /\ UNCHANGED <<loaded, g_cRef, locks, filters, credential, held, eventRef, crashes>>

\* _EnumerateCredentials leaves a tile for the first user, or none: when there
\* is no user, memory runs out or Initialize fails.  A tile whose Initialize
\* fails is counted and released again.
Enumerated(p, creds) ==
    {NULL} \cup {t \in Tiles : /\ provider[p].users \notin EmptyArrays
                               /\ creds[t].cRef = 0}

\* The tile t of provider p when _EnumerateCredentials has created it.
NewCredential(p) == [cRef |-> 1, events |-> NULL, madeFrom |-> provider[p].users]

\* Variant for a mutation run: the tile is made once.
GetCredentialCountOnce(p) ==
    /\ provider[p].cRef > 0 /\ provider[p].phase \in {"users", "counted"}
    /\ IF provider[p].tile # NULL
       THEN /\ provider' = [provider EXCEPT ![p].phase = "counted", ![p].recreate = FALSE]
            /\ UNCHANGED <<g_cRef, credential>>
       ELSE \E t \in Enumerated(p, credential) :
            /\ provider' = [provider EXCEPT ![p].phase = "counted", ![p].tile = t,
                                            ![p].recreate = FALSE]
            /\ credential' = IF t = NULL THEN credential
                             ELSE [credential EXCEPT ![t] = NewCredential(p)]
            /\ g_cRef' = g_cRef + (IF t = NULL THEN 0 ELSE 1)
    /\ UNCHANGED <<loaded, locks, filters, held, arrayRef, eventRef, crashes>>

\* GetCredentialCount makes the tile anew when there is a mark.  It answers
\* that there is one tile.
GetCredentialCount(p) ==
    LET old   == provider[p].tile
        creds == Released(credential, old)
    IN  /\ provider[p].cRef > 0 /\ provider[p].phase \in {"users", "counted"}
        /\ IF ~provider[p].recreate
           THEN /\ provider' = [provider EXCEPT ![p].phase = "counted"]
                /\ UNCHANGED <<g_cRef, credential>>
           ELSE \E t \in Enumerated(p, creds) :
                /\ provider' = [provider EXCEPT ![p].phase = "counted", ![p].tile = t,
                                                ![p].recreate = FALSE]
                /\ credential' = IF t = NULL THEN creds
                                 ELSE [creds EXCEPT ![t] = NewCredential(p)]
                /\ g_cRef' = g_cRef - Deletes(old) + (IF t = NULL THEN 0 ELSE 1)
        /\ UNCHANGED <<loaded, locks, filters, held, arrayRef, eventRef, crashes>>

\* GetCredentialAt(0) asks the tile for its interface, also when there is none.
GetCredentialAt(p) ==
    LET t == provider[p].tile IN
    /\ provider[p].cRef > 0 /\ provider[p].phase = "counted"
    /\ \/ /\ t # NULL /\ held[t] < MaxRefs
          /\ credential' = [credential EXCEPT ![t].cRef = @ + 1]
          /\ held' = [held EXCEPT ![t] = @ + 1]
          /\ UNCHANGED <<loaded, g_cRef, locks, filters, provider, arrayRef, eventRef, crashes>>
       \/ t = NULL /\ Crash

-----------------------------------------------------------------------------
(* CSampleCredential. *)

\* Advise replaces the callback object.
Advise(t, e) ==
    /\ held[t] > 0
    /\ credential' = [credential EXCEPT ![t].events = e]
    /\ eventRef' = Moved(eventRef, credential[t].events, e)
    /\ UNCHANGED <<loaded, g_cRef, locks, filters, provider, held, arrayRef, crashes>>

UnAdvise(t) ==
    /\ held[t] > 0
    /\ credential' = [credential EXCEPT ![t].events = NULL]
    /\ eventRef' = Moved(eventRef, credential[t].events, NULL)
    /\ UNCHANGED <<loaded, g_cRef, locks, filters, provider, held, arrayRef, crashes>>

\* LogonUI gives a reference to a tile back; the last one after UnAdvise.
ReleaseTile(t) ==
    /\ held[t] > 0
    /\ held[t] = 1 => credential[t].events = NULL
    /\ held' = [held EXCEPT ![t] = @ - 1]
    /\ credential' = Released(credential, t)
    /\ g_cRef' = g_cRef - Deletes(t)
    /\ UNCHANGED <<loaded, locks, filters, provider, arrayRef, eventRef, crashes>>

-----------------------------------------------------------------------------
Next ==
    \/ \E p \in Providers :
        \/ CreateProvider(p)
        \/ QueryProvider(p)
        \/ ReleaseProvider(p)
        \/ \E supported \in BOOLEAN : SetUsageScenario(p, supported)
        \/ \E a \in Arrays : SetUserArray(p, a)
        \/ GetCredentialCount(p)
        \/ GetCredentialAt(p)
    \/ \E t \in Tiles :
        \/ \E e \in Callbacks : Advise(t, e)
        \/ UnAdvise(t)
        \/ ReleaseTile(t)
    \/ CreateFilter
    \/ ReleaseFilter
    \/ \E lock \in {1, -1} : LockServer(lock)
    \/ Unload

Spec == Init /\ [][Next]_vars

-----------------------------------------------------------------------------
(* Properties. *)

\* An object lives exactly as long as somebody holds it: the count of a tile is
\* the references of LogonUI and of the provider that enumerated it, those of
\* the arrays and the callback objects are the pointers that providers and
\* tiles hold.  Neither a re-enumeration under LogonUI's hands nor the end of
\* the provider deletes a tile in use, and nothing is kept when all is released.
CountsAreHolders ==
    /\ \A t \in Tiles : credential[t].cRef =
            held[t] + (IF \E p \in Providers : provider[p].tile = t THEN 1 ELSE 0)
    /\ \A a \in Arrays : arrayRef[a] = Cardinality({p \in Providers : provider[p].users = a})
    /\ \A e \in Callbacks : eventRef[e] = Cardinality({t \in Tiles : credential[t].events = e})

\* The DLL is not freed while a provider or a tile exists or LogonUI has locked
\* it: the constructors, destructors and LockServer keep g_cRef above zero.
LoadedForObjects ==
    LiveProviders # {} \/ LiveTiles # {} \/ locks > 0 => loaded

\* The tile that LogonUI is given was made for a user of the present scenario,
\* although SetUserArray comes after SetUsageScenario: the purpose of
\* _fRecreateEnumeratedCredentials.
TileOfPresentUsers ==
    \A p \in Providers :
        provider[p].phase = "counted" /\ provider[p].tile # NULL =>
            credential[provider[p].tile].madeFrom = provider[p].users

(* The inductive invariant. *)

\* g_cRef counts the locks, the providers and the tiles; a DLL that is gone
\* starts from zero.
DllCount ==
    /\ g_cRef = locks + Cardinality(LiveProviders) + Cardinality(LiveTiles)
    /\ ~loaded => g_cRef = 0

\* A deleted object has left no pointer behind, and a tile that LogonUI does
\* not hold has no callback object: its destructor would not release it.
DeadHoldNothing ==
    /\ \A p \in Providers : provider[p].cRef = 0 => provider[p] = NoProvider
    /\ \A t \in Tiles : credential[t].cRef = 0 => credential[t] = NoCredential
    /\ \A t \in Tiles : held[t] = 0 => credential[t].events = NULL

TilesUnshared ==
    \A p, q \in Providers :
        provider[p].tile = provider[q].tile /\ provider[p].tile # NULL => p = q

\* Whenever the users may change there is a mark, and a tile without a mark is
\* that of the present users.
MarkedUntilCounted ==
    \A p \in Providers :
        /\ provider[p].phase \in {"scenario", "users"} => provider[p].recreate
        /\ provider[p].tile # NULL /\ ~provider[p].recreate =>
              credential[provider[p].tile].madeFrom = provider[p].users
        /\ provider[p].phase = "counted" => ~provider[p].recreate

LifecycleInv ==
    /\ TypeOK /\ CountsAreHolders /\ DllCount
    /\ DeadHoldNothing /\ TilesUnshared /\ MarkedUntilCounted

(* Claims the code does not keep. *)

\* CSampleProvider.cpp:150 "Sets pdwCount to the number of tiles that we wish
\* to show": the tile that was counted is there.
CountedTileExists ==
    \A p \in Providers : provider[p].phase = "counted" => provider[p].tile # NULL

\* Dll.cpp:18 "global dll reference count": the DLL is not freed under a filter.
LoadedForFilters == filters > 0 => loaded
=============================================================================
