---------------------------- MODULE DashboardProofs ----------------------------
(***************************************************************************)
(* Proofs about Dashboard for every number of agents, pages, calls and     *)
(* changes: DashboardInv is inductive.  Its core is what is known of the   *)
(* latest load of a view that nothing has overtaken.                       *)
(***************************************************************************)
EXTENDS Dashboard, TLAPS

USE DashboardAssumption

-----------------------------------------------------------------------------
(* The invariant. *)

\* The calls by what they fetch, when the server's tables have the versions ver.
Ended == {NULL, BROKEN}
LogCalls == [view : {"log"}, agent : Filters, page : 1..MaxPages, answer : Ended \cup 0..MaxPages]
ClientCalls(ver) ==
    [view : {"devices"}, fetch : {"clients"}, answer : Ended \cup {REFUSED} \cup 0..ver["devices"]]
ChoiceCalls(ver) ==
    [view : {"devices"}, fetch : {"users"}, first : {REFUSED} \cup 0..ver["devices"],
     answer : Ended \cup {REFUSED} \cup 0..ver["users"]]
UserCalls(ver) == [view : {"users"}, fetch : {"users"}, answer : Ended \cup 0..ver["users"]]
MineCalls == [view : {"mine"}, answer : Ended \cup {1}]
ChangeCalls(k, ver) == [view : {"change"}, of : {k}, answer : Ended \cup 0..ver[k]]
CallsOf(ver) ==
    LogCalls \cup ClientCalls(ver) \cup ChoiceCalls(ver) \cup UserCalls(ver) \cup MineCalls
      \cup ChangeCalls("devices", ver) \cup ChangeCalls("users", ver)

\* Calls are numbered as they start, and no answer is ahead of the server.
CallsFit(cs, n, ver) ==
    /\ cs \in [Ids -> CallsOf(ver) \cup {NULL}]
    /\ \A i \in Ids : i > n => cs[i] = NULL

Shape ==
    /\ page \in {"admin", "user"}
    /\ filter \in Filters \cup {NULL} /\ currentLogAgent \in Filters
    /\ log \in LogView \cup {NULL}
    /\ table \in [Tables -> Table]
    /\ started \in 0..MaxCalls
    /\ version \in [Tables -> Version] /\ acked \in [Tables -> Version]
    /\ \A k \in Tables : acked[k] <= version[k]
    /\ asked \in [agent : Filters, page : 1..MaxPages] \cup {NULL}
    /\ overtaken \subseteq Views
    /\ CallsFit(calls, started, version)

\* The administrators' page filters by the agent it last asked for.
AgentsAgree ==
    page = "admin" => asked.agent = filter /\ currentLogAgent = filter

Last(v, cs, j) == j \in Loads(v, cs) /\ \A i \in Loads(v, cs) : i <= j

\* Unless a load of the log was overtaken, the latest is what was asked for; when
\* none is under way, the table shows it.
LogSound(cs, late, a, l) ==
    "log" \notin late =>
        /\ Loads("log", cs) = {} /\ l # NULL => [agent |-> l.agent, page |-> l.page] = a
        /\ Loads("log", cs) # {} =>
             \E j \in Ids : Last("log", cs, j) /\ a = [agent |-> cs[j].agent, page |-> cs[j].page]

\* What a load of a table will show, once it is known.
Outcome(c) == IF c.view = "devices" /\ c.fetch = "users" THEN c.first ELSE c.answer
Sees(c, n) == Outcome(c) \in Nat => n <= Outcome(c)

\* Unless a load of a table was overtaken, the latest sees the changes that were
\* acknowledged; when none is under way, the table shows them.
TableSound(k, cs, late, tab, n) ==
    k \notin late =>
        /\ Loads(k, cs) = {} /\ tab.says = "rows" => n <= tab.version
        /\ Loads(k, cs) # {} => \E j \in Ids : Last(k, cs, j) /\ Sees(cs[j], n)

DashboardInv ==
    /\ Shape
    /\ AgentsAgree
    /\ LogSound(calls, overtaken, asked, log)
    /\ \A k \in Tables : TableSound(k, calls, overtaken, table[k], acked[k])

-----------------------------------------------------------------------------
(* Lemmas about calls. *)

Versions == [Tables -> Version]

LEMMA CallKinds ==
    ASSUME NEW ver \in Versions, NEW c \in CallsOf(ver)
    PROVE  /\ c # NULL
           /\ c.view \in {"log", "devices", "users", "mine", "change"}
           /\ c.view = "log" => c \in LogCalls
           /\ c.view = "devices" => c.fetch \in {"clients", "users"}
           /\ c.view = "devices" /\ c.fetch = "clients" => c \in ClientCalls(ver)
           /\ c.view = "devices" /\ c.fetch = "users" => c \in ChoiceCalls(ver)
           /\ c.view = "users" => c \in UserCalls(ver) /\ c.fetch = "users"
           /\ c.view = "mine" => c \in MineCalls
           /\ c.view = "change" => c.of \in Tables /\ c \in ChangeCalls(c.of, ver)
<1>1. /\ 0..MaxPages \subseteq Nat /\ 1 \in Nat
      /\ \A k \in Tables : 0..ver[k] \subseteq Nat
  BY DEF Versions
<1>2. c \in Call
  BY <1>1 DEF CallsOf, LogCalls, ClientCalls, ChoiceCalls, UserCalls, MineCalls, ChangeCalls,
              Call, Ended, Answer, Tables
<1>3. c # NULL
  BY <1>2, NullAssumption
<1>4. c.view \in {"log", "devices", "users", "mine", "change"}
  BY DEF CallsOf, LogCalls, ClientCalls, ChoiceCalls, UserCalls, MineCalls, ChangeCalls
<1>5. /\ c.view = "log" => c \in LogCalls
      /\ c.view = "users" => c \in UserCalls(ver) /\ c.fetch = "users"
      /\ c.view = "mine" => c \in MineCalls
  BY DEF CallsOf, LogCalls, ClientCalls, ChoiceCalls, UserCalls, MineCalls, ChangeCalls
<1>6. c.view = "devices" =>
        /\ c.fetch \in {"clients", "users"}
        /\ c.fetch = "clients" => c \in ClientCalls(ver)
        /\ c.fetch = "users" => c \in ChoiceCalls(ver)
  BY DEF CallsOf, LogCalls, ClientCalls, ChoiceCalls, UserCalls, MineCalls, ChangeCalls
<1>7. c.view = "change" => c.of \in Tables /\ c \in ChangeCalls(c.of, ver)
  BY DEF CallsOf, LogCalls, ClientCalls, ChoiceCalls, UserCalls, MineCalls, ChangeCalls, Tables
<1> QED  BY <1>3, <1>4, <1>5, <1>6, <1>7

\* Calls that have just started.
LEMMA NewCalls ==
    ASSUME NEW ver \in Versions
    PROVE  /\ \A a \in Filters, p \in 1..MaxPages : LogCall(a, p) \in CallsOf(ver)
           /\ DeviceCall \in CallsOf(ver) /\ UserCall \in CallsOf(ver) /\ MineCall \in CallsOf(ver)
           /\ \A k \in Tables : ChangeCall(k) \in CallsOf(ver)
<1>1. \A a \in Filters, p \in 1..MaxPages : LogCall(a, p) \in LogCalls
  BY DEF LogCall, LogCalls, Ended
<1>2. DeviceCall \in ClientCalls(ver) /\ UserCall \in UserCalls(ver) /\ MineCall \in MineCalls
  BY DEF DeviceCall, ClientCalls, UserCall, UserCalls, MineCall, MineCalls, Ended
<1>3. \A k \in Tables : ChangeCall(k) \in ChangeCalls(k, ver)
  BY DEF ChangeCall, ChangeCalls, Ended
<1> QED  BY <1>1, <1>2, <1>3 DEF CallsOf, Tables

\* A change of a table leaves the calls behind.
LEMMA VersionsGrow ==
    ASSUME NEW ver \in Versions, NEW new \in Versions, \A k \in Tables : ver[k] <= new[k]
    PROVE  CallsOf(ver) \subseteq CallsOf(new)
<1>1. \A k \in Tables : 0..ver[k] \subseteq 0..new[k]
  BY DEF Versions, Version
<1>2. /\ ClientCalls(ver) \subseteq ClientCalls(new) /\ UserCalls(ver) \subseteq UserCalls(new)
      /\ ChoiceCalls(ver) \subseteq ChoiceCalls(new)
  BY <1>1 DEF ClientCalls, UserCalls, ChoiceCalls, Tables
<1>3. \A k \in Tables : ChangeCalls(k, ver) \subseteq ChangeCalls(k, new)
  BY <1>1 DEF ChangeCalls
<1> QED  BY <1>2, <1>3 DEF CallsOf, Tables

\* The calls cs when call i becomes c, or ends.
Put(cs, i, c) == [cs EXCEPT ![i] = c]

\* A call that starts is the latest of its view.
LEMMA CallStarts ==
    ASSUME NEW ver \in Versions, NEW n \in 0..MaxCalls, NEW cs, CallsFit(cs, n, ver),
           n < MaxCalls, NEW c \in CallsOf(ver),
           NEW new, new = Put(cs, n + 1, c)
    PROVE  /\ CallsFit(new, n + 1, ver)
           /\ n + 1 \in Ids /\ n + 1 \in 0..MaxCalls /\ new[n + 1] = c
           /\ \A v : v # c.view => Loads(v, new) = Loads(v, cs)
           /\ \A v : \A i \in Loads(v, cs) : new[i] = cs[i]
           /\ Last(c.view, new, n + 1)
<1>1. n + 1 \in Ids /\ n + 1 \in 0..MaxCalls /\ cs[n + 1] = NULL /\ n \in Nat
  BY DEF Ids, CallsFit
<1>2. c # NULL
  BY CallKinds
<1>3. new[n + 1] = c /\ \A i \in Ids : i # n + 1 => new[i] = cs[i]
  BY <1>1 DEF CallsFit, Put
<1>4. CallsFit(new, n + 1, ver)
  BY <1>1, <1>3 DEF CallsFit, Ids, Put
<1>5. \A v : v # c.view => Loads(v, new) = Loads(v, cs)
  BY <1>1, <1>3 DEF Loads
<1>6. \A v : \A i \in Loads(v, cs) : new[i] = cs[i]
  BY <1>1, <1>3 DEF Loads
<1>7. Last(c.view, new, n + 1)
  <2>1. n + 1 \in Loads(c.view, new)
    BY <1>1, <1>2, <1>3 DEF Loads
  <2>2. \A i \in Loads(c.view, new) : i <= n + 1
    BY <1>1, <1>4 DEF Loads, CallsFit, Ids
  <2> QED  BY <2>1, <2>2 DEF Last
<1> QED  BY <1>1, <1>3, <1>4, <1>5, <1>6, <1>7

\* A call that ends is gone, and no other.
LEMMA CallEnds ==
    ASSUME NEW ver \in Versions, NEW n \in 0..MaxCalls, NEW cs, CallsFit(cs, n, ver),
           NEW i \in Ids, NEW new, new = Put(cs, i, NULL)
    PROVE  /\ CallsFit(new, n, ver)
           /\ \A v : Loads(v, new) = Loads(v, cs) \ {i}
           /\ \A j \in Ids : j # i => new[j] = cs[j]
BY DEF CallsFit, Loads, Put

\* A call that goes on, as another of the same view.
LEMMA CallGoesOn ==
    ASSUME NEW ver \in Versions, NEW new \in Versions, CallsOf(ver) \subseteq CallsOf(new),
           NEW n \in 0..MaxCalls, NEW cs, CallsFit(cs, n, ver),
           NEW i \in Ids, cs[i] # NULL, NEW c \in CallsOf(new), c.view = cs[i].view,
           NEW now, now = Put(cs, i, c)
    PROVE  /\ CallsFit(now, n, new)
           /\ \A v : Loads(v, now) = Loads(v, cs)
           /\ now[i] = c /\ \A j \in Ids : j # i => now[j] = cs[j]
<1>1. c # NULL
  BY CallKinds
<1>2. now[i] = c /\ \A j \in Ids : j # i => now[j] = cs[j]
  BY DEF CallsFit, Put
<1>3. CallsFit(now, n, new)
  BY <1>2 DEF CallsFit, Put
<1>4. \A v : Loads(v, now) = Loads(v, cs)
  BY <1>1, <1>2 DEF Loads
<1> QED  BY <1>2, <1>3, <1>4

-----------------------------------------------------------------------------
(* Lemmas about the two predicates. *)

\* They hold of what has just been asked for, ...
LEMMA LogStarted ==
    ASSUME NEW cs, NEW late, NEW l, NEW j \in Ids, Last("log", cs, j)
    PROVE  LogSound(cs, late, [agent |-> cs[j].agent, page |-> cs[j].page], l)
BY DEF LogSound, Last

LEMMA TableStarted ==
    ASSUME NEW k \in Tables, NEW cs, NEW late, NEW tab, NEW n, NEW j \in Ids,
           Last(k, cs, j), Sees(cs[j], n)
    PROVE  TableSound(k, cs, late, tab, n)
BY DEF TableSound, Last

\* ... they remain when the loads do, ...
LEMMA LogKept ==
    ASSUME NEW cs, NEW now, NEW late, NEW later, NEW a, NEW l, LogSound(cs, late, a, l),
           "log" \in late => "log" \in later,
           Loads("log", now) = Loads("log", cs),
           \A j \in Loads("log", cs) : now[j].agent = cs[j].agent /\ now[j].page = cs[j].page
    PROVE  LogSound(now, later, a, l)
BY DEF LogSound, Last

LEMMA TableKept ==
    ASSUME NEW k \in Tables, NEW cs, NEW now, NEW late, NEW later, NEW tab, NEW shows, NEW n,
           TableSound(k, cs, late, tab, n),
           k \in late => k \in later,
           Loads(k, now) = Loads(k, cs),
           \A j \in Loads(k, cs) : Sees(cs[j], n) => Sees(now[j], n),
           shows.says = "rows" => shows = tab
    PROVE  TableSound(k, now, later, shows, n)
BY DEF TableSound, Last

\* ... and when one ends that nothing overtakes, its own is shown if it was the last.
LEMMA LogEnds ==
    ASSUME NEW cs, NEW now, NEW late, NEW later, NEW a, NEW l, NEW shows,
           LogSound(cs, late, a, l),
           NEW i \in Ids, i \in Loads("log", cs),
           later = IF \E j \in Loads("log", cs) : j < i THEN late \cup {"log"} ELSE late,
           Loads("log", now) = Loads("log", cs) \ {i},
           \A j \in Ids : j # i => now[j] = cs[j],
           shows # NULL => shows.agent = cs[i].agent /\ shows.page = cs[i].page
    PROVE  LogSound(now, later, a, shows)
<1> SUFFICES ASSUME "log" \notin later  PROVE LogSound(now, later, a, shows)
  BY DEF LogSound
<1>1. "log" \notin late /\ \A j \in Loads("log", cs) : ~(j < i)
  OBVIOUS
<1>2. PICK j \in Ids : Last("log", cs, j) /\ a = [agent |-> cs[j].agent, page |-> cs[j].page]
  BY <1>1 DEF LogSound
<1>3. CASE j = i
  <2>1. Loads("log", cs) = {i}
    BY <1>1, <1>2, <1>3 DEF Last, Loads, Ids
  <2> QED  BY <1>2, <1>3, <2>1 DEF LogSound
<1>4. CASE j # i
  <2>1. Last("log", now, j)
    BY <1>2, <1>4 DEF Last
  <2> QED  BY <1>2, <1>4, <2>1 DEF LogSound, Last
<1> QED  BY <1>3, <1>4

LEMMA TableEnds ==
    ASSUME NEW k \in Tables, NEW cs, NEW now, NEW late, NEW later, NEW tab, NEW shows, NEW n,
           TableSound(k, cs, late, tab, n),
           NEW i \in Ids, i \in Loads(k, cs),
           later = IF \E j \in Loads(k, cs) : j < i THEN late \cup {k} ELSE late,
           Loads(k, now) = Loads(k, cs) \ {i},
           \A j \in Ids : j # i => now[j] = cs[j],
           shows.says = "rows" /\ Sees(cs[i], n) => n <= shows.version
    PROVE  TableSound(k, now, later, shows, n)
<1> SUFFICES ASSUME k \notin later  PROVE TableSound(k, now, later, shows, n)
  BY DEF TableSound
<1>1. k \notin late /\ \A j \in Loads(k, cs) : ~(j < i)
  OBVIOUS
<1>2. PICK j \in Ids : Last(k, cs, j) /\ Sees(cs[j], n)
  BY <1>1 DEF TableSound
<1>3. CASE j = i
  <2>1. Loads(k, cs) = {i}
    BY <1>1, <1>2, <1>3 DEF Last, Loads, Ids
  <2> QED  BY <1>2, <1>3, <2>1 DEF TableSound
<1>4. CASE j # i
  <2>1. Last(k, now, j)
    BY <1>2, <1>4 DEF Last
  <2> QED  BY <1>2, <1>4, <2>1 DEF TableSound, Last
<1> QED  BY <1>3, <1>4

-----------------------------------------------------------------------------
(* The initial states. *)

LEMMA InitInv == Init => DashboardInv
<1> SUFFICES ASSUME Init  PROVE DashboardInv
  OBVIOUS
<1>1. version \in Versions /\ \A k \in Tables : version[k] = 0 /\ acked[k] = 0
  BY DEF Init, Versions, Version
<1>2. /\ ALL \in Filters /\ 1 \in 1..MaxPages /\ {1, 2} \subseteq Ids
      /\ LogCall(ALL, 1) \in CallsOf(version)
      /\ UserCall \in CallsOf(version) /\ MineCall \in CallsOf(version)
      /\ started \in 0..MaxCalls
  <2>1. ALL \in Filters /\ 1 \in 1..MaxPages /\ {1, 2} \subseteq Ids /\ started \in 0..MaxCalls
    BY DEF Init, Filters, Ids
  <2> QED  BY <1>1, <2>1, NewCalls
<1>3. CallsFit(calls, started, version)
  <2>1. \A i \in Ids : calls[i] \in CallsOf(version) \cup {NULL}
    BY <1>2 DEF Init
  <2>2. \A i \in Ids : i > started => calls[i] = NULL
    BY DEF Init, Ids
  <2>3. calls = [i \in Ids |-> calls[i]]
    BY DEF Init
  <2> QED  BY <2>1, <2>2, <2>3 DEF CallsFit
<1>4. Shape
  <2>1. table \in [Tables -> Table]
    BY DEF Init, Table, Version
  <2>2. /\ page \in {"admin", "user"} /\ filter \in Filters \cup {NULL}
        /\ currentLogAgent \in Filters /\ log = NULL /\ overtaken = {}
        /\ asked \in [agent : Filters, page : 1..MaxPages] \cup {NULL}
    BY <1>2 DEF Init
  <2>3. version \in [Tables -> Version] /\ acked \in [Tables -> Version]
    BY DEF Init, Version
  <2> QED  BY <1>1, <1>2, <1>3, <2>1, <2>2, <2>3 DEF Shape
<1>5. AgentsAgree
  <2>1. page = "admin" => asked = [agent |-> ALL, page |-> 1]
    BY DEF Init
  <2> QED  BY <1>2, <2>1 DEF Init, AgentsAgree
<1>6. LogSound(calls, overtaken, asked, log)
  <2>1. CASE page = "admin"
    <3>1. LogCall(ALL, 1) # NULL /\ LogCall(ALL, 1).view = "log" /\ UserCall.view = "users"
      BY <1>1, <1>2, CallKinds DEF LogCall, UserCall
    <3>2. calls[1] = LogCall(ALL, 1) /\ \A i \in Ids : i # 1 => calls[i] \in {UserCall, NULL}
      BY <2>1, <1>2 DEF Init, Ids
    <3>3. Loads("log", calls) = {1}
      BY <3>1, <3>2, <1>2 DEF Loads
    <3>4. Last("log", calls, 1)
      BY <3>3 DEF Last
    <3> QED  BY <2>1, <3>2, <3>4, <1>2, LogStarted DEF Init, LogCall
  <2>2. CASE page = "user"
    BY <2>2 DEF Init, LogSound, Loads, MineCall
  <2> QED  BY <2>1, <2>2 DEF Init
<1>7. ASSUME NEW k \in Tables  PROVE TableSound(k, calls, overtaken, table[k], acked[k])
  <2>1. table[k].says # "rows"
    BY DEF Init
  <2>2. \A j \in Ids : calls[j] # NULL => Outcome(calls[j]) = NULL
    BY DEF Init, Outcome, LogCall, UserCall, MineCall
  <2>3. \A j \in Ids : calls[j] # NULL => Sees(calls[j], acked[k])
    BY <2>2 DEF Sees
  <2>4. Loads(k, calls) # {} => \E j \in Ids : Last(k, calls, j)
    <3>1. \A j \in Loads(k, calls) : page = "admin" /\ j = 2
      BY DEF Init, Loads, LogCall, MineCall, Tables, Ids
    <3> QED  BY <3>1 DEF Last, Loads, Ids
  <2> QED  BY <2>1, <2>3, <2>4 DEF TableSound, Last, Loads
<1> QED  BY <1>4, <1>5, <1>6, <1>7 DEF DashboardInv

-----------------------------------------------------------------------------
(* What the steps have in common.  The calls cs are those under way when a    *)
(* load starts: all of them, or all but one that is not a load of a view.     *)

Goes(cs) ==
    /\ CallsFit(cs, started, version)
    /\ \A v \in Views : Loads(v, cs) = Loads(v, calls) /\ \A j \in Loads(v, cs) : cs[j] = calls[j]

LEMMA AllGo ==
    ASSUME DashboardInv  PROVE Goes(calls)
BY DEF DashboardInv, Shape, Goes

LEMMA OthersGo ==
    ASSUME DashboardInv, NEW i \in Ids, calls[i] # NULL, calls[i].view \notin Views
    PROVE  Goes(Without(i))
<1>1. version \in Versions /\ started \in 0..MaxCalls /\ CallsFit(calls, started, version)
  BY DEF DashboardInv, Shape, Versions
<1>2. \A v \in Views : i \notin Loads(v, calls)
  BY DEF Loads
<1> QED  BY <1>1, <1>2, CallEnds DEF Goes, Without, Loads, Put

LEMMA LogLoads ==
    ASSUME DashboardInv, NEW a \in Filters, NEW p \in 1..MaxPages, NEW cs, Goes(cs),
           LoadLog(a, p, cs, overtaken),
           filter' \in Filters \cup {NULL}, page = "admin" => filter' = a,
           UNCHANGED <<page, shown, version, acked>>
    PROVE  DashboardInv'
<1> DEFINE c == LogCall(a, p)
<1>1. /\ version \in Versions /\ started \in 0..MaxCalls /\ started < MaxCalls
      /\ c \in CallsOf(version) /\ c.view = "log"
  BY NewCalls DEF DashboardInv, Shape, Versions, LogCall, LoadLog, Start
<1>2. /\ CallsFit(cs, started, version) /\ calls' = Put(cs, started + 1, c)
      /\ started' = started + 1 /\ version' = version
      /\ overtaken' = IF Loads("log", cs) = {} THEN overtaken \ {"log"} ELSE overtaken
      /\ asked' = [agent |-> a, page |-> p]
      /\ currentLogAgent' = IF page = "admin" THEN a ELSE currentLogAgent
  BY DEF Goes, LoadLog, Start, LogCall, Put
<1> HIDE DEF c
<1>3. /\ CallsFit(calls', started + 1, version)
      /\ started + 1 \in Ids /\ started + 1 \in 0..MaxCalls /\ calls'[started + 1] = c
      /\ \A v : v # "log" => Loads(v, calls') = Loads(v, cs)
      /\ \A v : \A j \in Loads(v, cs) : calls'[j] = cs[j]
      /\ Last("log", calls', started + 1)
  BY ONLY <1>1, <1>2, CallStarts, DashboardAssumption
<1>4. Shape'
  BY <1>2, <1>3 DEF DashboardInv, Shape, CallsFit, shown, Filters
<1>5. AgentsAgree'
  BY <1>2 DEF DashboardInv, AgentsAgree
<1>6. LogSound(calls, overtaken, asked, log)'
  <2>1. c.agent = a /\ c.page = p
    BY DEF c, LogCall
  <2>2. LogSound(calls', overtaken',
                 [agent |-> calls'[started + 1].agent, page |-> calls'[started + 1].page], log')
    BY <1>3, LogStarted
  <2> QED  BY <1>2, <1>3, <2>1, <2>2
<1>7. ASSUME NEW k \in Tables  PROVE TableSound(k, calls, overtaken, table[k], acked[k])'
  <2>1. TableSound(k, calls, overtaken, table[k], acked[k])
    BY DEF DashboardInv
  <2>2. k # "log" /\ k \in Views
    BY DEF Tables, Views
  <2>3. Loads(k, calls') = Loads(k, calls) /\ \A j \in Loads(k, calls) : calls'[j] = calls[j]
    BY <1>3, <2>2 DEF Goes
  <2>4. k \in overtaken => k \in overtaken'
    BY <1>2, <2>2
  <2>5. TableSound(k, calls', overtaken', table[k], acked[k])
    BY <2>1, <2>3, <2>4, TableKept
  <2> QED  BY <2>5 DEF shown
<1> QED  BY <1>4, <1>5, <1>6, <1>7 DEF DashboardInv

\* A table k is loaded, whose own last change is seen by what starts now.
LEMMA TableLoads ==
    ASSUME DashboardInv, NEW k \in Tables, NEW cs, Goes(cs),
           Start(TableCall(k), cs, overtaken), Says(k, "loading"),
           acked' \in Versions, \A j \in Tables : acked'[j] <= version[j],
           \A j \in Tables : j # k => acked'[j] = acked[j],
           UNCHANGED <<page, filter, currentLogAgent, log, version, asked>>
    PROVE  DashboardInv'
<1> DEFINE c == TableCall(k)
<1>1. /\ version \in Versions /\ started \in 0..MaxCalls /\ started < MaxCalls
      /\ c \in CallsOf(version) /\ c.view = k /\ Outcome(c) = NULL
  <2>1. c \in {DeviceCall, UserCall} /\ c.view = k /\ Outcome(c) = NULL
    BY DEF TableCall, DeviceCall, UserCall, Tables, Outcome
  <2> QED  BY <2>1, NewCalls DEF DashboardInv, Shape, Versions, Start
<1>2. /\ CallsFit(cs, started, version) /\ calls' = Put(cs, started + 1, c)
      /\ started' = started + 1
      /\ overtaken' = IF Loads(k, cs) = {} THEN overtaken \ {k} ELSE overtaken
  BY <1>1 DEF Goes, Start, Put
<1> HIDE DEF c
<1>3. /\ CallsFit(calls', started + 1, version)
      /\ started + 1 \in Ids /\ started + 1 \in 0..MaxCalls /\ calls'[started + 1] = c
      /\ \A v : v # k => Loads(v, calls') = Loads(v, cs)
      /\ \A v : \A j \in Loads(v, cs) : calls'[j] = cs[j]
      /\ Last(k, calls', started + 1)
  BY ONLY <1>1, <1>2, CallStarts, DashboardAssumption
<1>4. table' \in [Tables -> Table]
  BY DEF DashboardInv, Shape, Says, Table
<1>5. Shape'
  <2>1. /\ page' \in {"admin", "user"} /\ filter' \in Filters \cup {NULL}
        /\ currentLogAgent' \in Filters /\ log' \in LogView \cup {NULL}
        /\ asked' \in [agent : Filters, page : 1..MaxPages] \cup {NULL}
        /\ version' \in [Tables -> Version] /\ overtaken' \subseteq Views
    BY <1>2 DEF DashboardInv, Shape
  <2>2. CallsFit(calls', started', version') /\ started' \in 0..MaxCalls
    BY <1>2, <1>3
  <2>3. acked' \in [Tables -> Version] /\ \A j \in Tables : acked'[j] <= version'[j]
    BY DEF Versions
  <2> QED  BY <1>4, <2>1, <2>2, <2>3 DEF Shape
<1>6. AgentsAgree'
  BY DEF DashboardInv, AgentsAgree
<1>7. LogSound(calls, overtaken, asked, log)'
  <2>1. LogSound(calls, overtaken, asked, log)
    BY DEF DashboardInv
  <2>2. k # "log" /\ "log" \in Views
    BY DEF Tables, Views
  <2>3. /\ Loads("log", calls') = Loads("log", calls)
        /\ \A j \in Loads("log", calls) : calls'[j] = calls[j]
    BY <1>3, <2>2 DEF Goes
  <2>4. "log" \in overtaken => "log" \in overtaken'
    BY <1>2, <2>2
  <2>5. LogSound(calls', overtaken', asked, log)
    BY <2>1, <2>3, <2>4, LogKept
  <2> QED  BY <2>5
<1>8. ASSUME NEW j \in Tables  PROVE TableSound(j, calls, overtaken, table[j], acked[j])'
  <2>1. CASE j = k
    <3>1. Sees(calls'[started + 1], acked'[k])
      BY <1>1, <1>3 DEF Sees
    <3>2. TableSound(k, calls', overtaken', table'[k], acked'[k])
      BY <1>3, <3>1, TableStarted
    <3> QED  BY <2>1, <3>2
  <2>2. CASE j # k
    <3>1. TableSound(j, calls, overtaken, table[j], acked[j])
      BY DEF DashboardInv
    <3>2. Loads(j, calls') = Loads(j, calls) /\ \A i \in Loads(j, calls) : calls'[i] = calls[i]
      BY <1>3, <2>2 DEF Goes, Views
    <3>3. (j \in overtaken => j \in overtaken') /\ table'[j] = table[j] /\ acked'[j] = acked[j]
      BY <1>2, <2>2 DEF Says, DashboardInv, Shape
    <3>4. TableSound(j, calls', overtaken', table[j], acked[j])
      BY <3>1, <3>2, <3>3, TableKept
    <3> QED  BY <3>3, <3>4
  <2> QED  BY <2>1, <2>2
<1> QED  BY <1>5, <1>6, <1>7, <1>8 DEF DashboardInv

\* Nothing is shown, and the loads of the views remain.
LEMMA LoadsKept ==
    ASSUME DashboardInv, version' \in Versions, \A k \in Tables : version[k] <= version'[k],
           started' \in 0..MaxCalls, CallsFit(calls', started', version'),
           \A v \in Views : Loads(v, calls') = Loads(v, calls),
           \A j \in Loads("log", calls) :
             calls'[j].agent = calls[j].agent /\ calls'[j].page = calls[j].page,
           \A k \in Tables : \A j \in Loads(k, calls) :
             Sees(calls[j], acked[k]) => Sees(calls'[j], acked[k]),
           UNCHANGED <<page, filter, currentLogAgent, shown, asked, acked, overtaken>>
    PROVE  DashboardInv'
<1>1. Shape'
  <2>1. \A k \in Tables : acked'[k] <= version'[k]
    BY DEF DashboardInv, Shape, Versions, Version
  <2> QED  BY <2>1 DEF DashboardInv, Shape, Versions, shown
<1>2. AgentsAgree'
  BY DEF DashboardInv, AgentsAgree
<1>3. LogSound(calls, overtaken, asked, log)'
  <2>1. LogSound(calls, overtaken, asked, log)
    BY DEF DashboardInv
  <2>2. Loads("log", calls') = Loads("log", calls)
    BY DEF Views
  <2>3. LogSound(calls', overtaken, asked, log)
    BY <2>1, <2>2, LogKept
  <2> QED  BY <2>3 DEF shown
<1>4. ASSUME NEW k \in Tables  PROVE TableSound(k, calls, overtaken, table[k], acked[k])'
  <2>1. TableSound(k, calls, overtaken, table[k], acked[k])
    BY DEF DashboardInv
  <2>2. Loads(k, calls') = Loads(k, calls)
    BY DEF Views
  <2>3. TableSound(k, calls', overtaken, table[k], acked[k])
    BY <2>1, <2>2, TableKept
  <2> QED  BY <2>3 DEF shown
<1> QED  BY <1>1, <1>2, <1>3, <1>4 DEF DashboardInv

\* A call ends that is not a load of a view, and nothing is shown.
LEMMA OtherEnds ==
    ASSUME DashboardInv, NEW i \in Ids, calls[i] # NULL, calls[i].view \notin Views, End(i),
           UNCHANGED <<page, filter, currentLogAgent, shown, asked, acked, version>>
    PROVE  DashboardInv'
<1>1. overtaken' = overtaken /\ started' = started /\ calls' = Without(i)
  BY DEF End, Overtaking
<1>2. Goes(Without(i))
  BY OthersGo
<1>3. /\ version \in Versions /\ \A k \in Tables : version[k] <= version[k]
      /\ started \in 0..MaxCalls
  BY DEF DashboardInv, Shape, Versions, Version
<1>4. \A v \in Views : Loads(v, calls') = Loads(v, calls)
  BY <1>1, <1>2 DEF Goes
<1>5. \A v \in Views : \A j \in Loads(v, calls) : calls'[j] = calls[j]
  BY <1>1, <1>2 DEF Goes
<1>6. "log" \in Views /\ Tables \subseteq Views
  BY DEF Views
<1> QED  BY <1>1, <1>2, <1>3, <1>4, <1>5, <1>6, LoadsKept DEF Goes

\* The end of a load of the table k, which now shows what that load saw, or no rows.
LEMMA TableEnded ==
    ASSUME DashboardInv, NEW k \in Tables, NEW i \in Ids, i \in Loads(k, calls), End(i),
           table' \in [Tables -> Table], \A j \in Tables : j # k => table'[j] = table[j],
           table'[k].says = "rows" /\ Sees(calls[i], acked[k]) => acked[k] <= table'[k].version,
           UNCHANGED <<page, filter, currentLogAgent, log, version, asked, acked>>
    PROVE  DashboardInv'
<1>1. k \in Views /\ calls[i].view = k /\ k # "log" /\ "log" \in Views
  BY DEF Loads, Views, Tables
<1>2. /\ calls' = Put(calls, i, NULL) /\ started' = started
      /\ overtaken' = IF \E j \in Loads(k, calls) : j < i THEN overtaken \cup {k} ELSE overtaken
  BY <1>1 DEF End, Without, Put, Overtaking
<1>3. version \in Versions /\ started \in 0..MaxCalls /\ CallsFit(calls, started, version)
  BY DEF DashboardInv, Shape, Versions
<1>4. /\ CallsFit(calls', started, version)
      /\ \A v : Loads(v, calls') = Loads(v, calls) \ {i}
      /\ \A j \in Ids : j # i => calls'[j] = calls[j]
  BY <1>2, <1>3, CallEnds
<1>5. \A v : v # k => Loads(v, calls') = Loads(v, calls) /\ i \notin Loads(v, calls)
  BY <1>1, <1>4 DEF Loads
<1>6. Shape'
  BY <1>1, <1>2, <1>3, <1>4 DEF DashboardInv, Shape
<1>7. AgentsAgree'
  BY DEF DashboardInv, AgentsAgree
<1>8. LogSound(calls, overtaken, asked, log)'
  <2>1. LogSound(calls, overtaken, asked, log)
    BY DEF DashboardInv
  <2>2. /\ Loads("log", calls') = Loads("log", calls)
        /\ \A j \in Loads("log", calls) : calls'[j] = calls[j]
    BY <1>1, <1>4, <1>5 DEF Loads
  <2>3. "log" \in overtaken => "log" \in overtaken'
    BY <1>2
  <2>4. LogSound(calls', overtaken', asked, log)
    BY <2>1, <2>2, <2>3, LogKept
  <2> QED  BY <2>4
<1>9. ASSUME NEW j \in Tables  PROVE TableSound(j, calls, overtaken, table[j], acked[j])'
  <2>1. TableSound(j, calls, overtaken, table[j], acked[j])
    BY DEF DashboardInv
  <2>2. CASE j = k
    <3>1. TableSound(k, calls', overtaken', table'[k], acked[k])
      BY <2>1, <2>2, <1>2, <1>4, TableEnds
    <3> QED  BY <2>2, <3>1
  <2>3. CASE j # k
    <3>1. Loads(j, calls') = Loads(j, calls) /\ \A l \in Loads(j, calls) : calls'[l] = calls[l]
      BY <1>4, <1>5, <2>3 DEF Loads
    <3>2. j \in overtaken => j \in overtaken'
      BY <1>2
    <3>3. TableSound(j, calls', overtaken', table[j], acked[j])
      BY <2>1, <3>1, <3>2, TableKept
    <3> QED  BY <2>3, <3>3
  <2> QED  BY <2>2, <2>3
<1> QED  BY <1>6, <1>7, <1>8, <1>9 DEF DashboardInv

-----------------------------------------------------------------------------
(* The user's clicks. *)

LEMMA ChooseAgentInv ==
    ASSUME DashboardInv, NEW a \in Filters, ChooseAgent(a)  PROVE DashboardInv'
<1>1. 1 \in 1..MaxPages
  OBVIOUS
<1>2. LoadLog(a, 1, calls, overtaken) /\ filter' = a /\ UNCHANGED <<page, shown, version, acked>>
  BY DEF ChooseAgent
<1> QED  BY <1>1, <1>2, AllGo, LogLoads

LEMMA ClickPageInv ==
    ASSUME DashboardInv, ClickPage  PROVE DashboardInv'
<1>1. /\ log \in LogView /\ page \in {"admin", "user"} /\ currentLogAgent \in Filters
      /\ filter \in Filters \cup {NULL} /\ AgentsAgree
  BY DEF ClickPage, DashboardInv, Shape
<1>2. PICK p \in Buttons(log.page, log.pages) : LoadLog(AgentOfButtons, p, calls, overtaken)
  BY DEF ClickPage
<1>3. p \in 1..MaxPages
  <2>1. log.pages \in 0..MaxPages /\ p \in 1..log.pages
    BY <1>1 DEF LogView, Buttons
  <2> QED  BY <2>1
<1>4. AgentOfButtons \in Filters /\ (page = "admin" => filter = AgentOfButtons)
  BY <1>1 DEF AgentOfButtons, LogView, AgentsAgree
<1>5. filter' = filter /\ UNCHANGED <<page, shown, version, acked>>
  BY DEF ClickPage
<1> QED  BY <1>1, <1>2, <1>3, <1>4, <1>5, AllGo, LogLoads

LEMMA ShowDevicesInv ==
    ASSUME DashboardInv, ShowDevices  PROVE DashboardInv'
<1>1. acked \in Versions /\ \A j \in Tables : acked[j] <= version[j]
  BY DEF DashboardInv, Shape, Versions
<1>2. "devices" \in Tables /\ TableCall("devices") = DeviceCall
  BY DEF Tables, TableCall
<1> QED  BY <1>1, <1>2, AllGo, TableLoads DEF ShowDevices

\* The second of the two loads is the latest.
LEMMA ShowUsersInv ==
    ASSUME DashboardInv, ShowUsers  PROVE DashboardInv'
<1> DEFINE cs == Put(calls, started + 1, UserCall)
<1>1. /\ version \in Versions /\ started \in 0..MaxCalls /\ started < MaxCalls
      /\ started + 1 < MaxCalls
      /\ CallsFit(calls, started, version) /\ UserCall \in CallsOf(version)
  BY NewCalls DEF DashboardInv, Shape, Versions, ShowUsers
<1>2. UserCall.view = "users" /\ Outcome(UserCall) = NULL
  BY DEF UserCall, Outcome
<1>3. /\ calls' = Put(cs, started + 1 + 1, UserCall) /\ started' = started + 1 + 1
      /\ overtaken' = IF AtRest("users") THEN overtaken \ {"users"} ELSE overtaken
  BY <1>1 DEF ShowUsers, Put
<1> HIDE DEF cs
<1>4. cs = Put(calls, started + 1, UserCall)
  BY DEF cs
<1>5. /\ CallsFit(cs, started + 1, version) /\ started + 1 \in 0..MaxCalls
      /\ \A v : v # "users" => Loads(v, cs) = Loads(v, calls)
      /\ \A v : \A i \in Loads(v, calls) : cs[i] = calls[i]
  BY ONLY <1>1, <1>2, <1>4, CallStarts, DashboardAssumption
<1>6. /\ CallsFit(calls', started + 1 + 1, version) /\ started + 1 + 1 \in 0..MaxCalls
      /\ started + 1 + 1 \in Ids /\ calls'[started + 1 + 1] = UserCall
      /\ \A v : v # "users" => Loads(v, calls') = Loads(v, cs)
      /\ \A v : \A i \in Loads(v, cs) : calls'[i] = cs[i]
      /\ Last("users", calls', started + 1 + 1)
  BY ONLY <1>1, <1>2, <1>3, <1>5, CallStarts, DashboardAssumption
<1>7. \A v : v # "users" =>
        Loads(v, calls') = Loads(v, calls) /\ \A i \in Loads(v, calls) : calls'[i] = calls[i]
  BY <1>5, <1>6
<1>8. table' \in [Tables -> Table]
  BY DEF DashboardInv, Shape, ShowUsers, Says, Table
<1>9. Shape'
  <2>1. /\ page' \in {"admin", "user"} /\ filter' \in Filters \cup {NULL}
        /\ currentLogAgent' \in Filters /\ log' \in LogView \cup {NULL}
        /\ asked' \in [agent : Filters, page : 1..MaxPages] \cup {NULL}
        /\ version' \in [Tables -> Version] /\ overtaken' \subseteq Views
        /\ acked' \in [Tables -> Version] /\ \A k \in Tables : acked'[k] <= version'[k]
    BY <1>3 DEF DashboardInv, Shape, ShowUsers
  <2>2. CallsFit(calls', started', version') /\ started' \in 0..MaxCalls
    BY <1>3, <1>6 DEF ShowUsers
  <2> QED  BY <1>8, <2>1, <2>2 DEF Shape
<1>10. AgentsAgree'
  BY DEF DashboardInv, AgentsAgree, ShowUsers
<1>11. LogSound(calls, overtaken, asked, log)'
  <2>1. LogSound(calls, overtaken, asked, log)
    BY DEF DashboardInv
  <2>2. "log" \in overtaken => "log" \in overtaken'
    BY <1>3
  <2>3. LogSound(calls', overtaken', asked, log)
    BY <2>1, <2>2, <1>7, LogKept
  <2> QED  BY <2>3 DEF ShowUsers
<1>12. ASSUME NEW k \in Tables  PROVE TableSound(k, calls, overtaken, table[k], acked[k])'
  <2>1. CASE k = "users"
    <3>1. Sees(calls'[started + 1 + 1], acked[k])
      BY <1>2, <1>6 DEF Sees
    <3>2. TableSound(k, calls', overtaken', table'[k], acked[k])
      BY <2>1, <3>1, <1>6, TableStarted
    <3> QED  BY <3>2 DEF ShowUsers
  <2>2. CASE k # "users"
    <3>1. TableSound(k, calls, overtaken, table[k], acked[k])
      BY DEF DashboardInv
    <3>2. (k \in overtaken => k \in overtaken') /\ table'[k] = table[k]
      BY <1>3, <2>2 DEF ShowUsers, Says, DashboardInv, Shape
    <3>3. TableSound(k, calls', overtaken', table[k], acked[k])
      BY <3>1, <3>2, <1>7, <2>2, TableKept
    <3> QED  BY <3>2, <3>3 DEF ShowUsers
  <2> QED  BY <2>1, <2>2
<1> QED  BY <1>9, <1>10, <1>11, <1>12 DEF DashboardInv

LEMMA SubmitChangeInv ==
    ASSUME DashboardInv, NEW k \in Tables, SubmitChange(k)  PROVE DashboardInv'
<1>1. /\ version \in Versions /\ started \in 0..MaxCalls /\ started < MaxCalls
      /\ CallsFit(calls, started, version) /\ ChangeCall(k) \in CallsOf(version)
      /\ overtaken \subseteq Views
      /\ \A j \in Tables : version[j] <= version[j]
  BY NewCalls DEF DashboardInv, Shape, Versions, Version, SubmitChange, Start
<1>2. ChangeCall(k).view = "change" /\ "change" \notin Views /\ "log" \in Views
      /\ Tables \subseteq Views
  BY DEF ChangeCall, Views, Tables
<1>3. /\ calls' = Put(calls, started + 1, ChangeCall(k)) /\ started' = started + 1
      /\ overtaken' = overtaken /\ version' = version
  BY <1>1, <1>2 DEF SubmitChange, Start, Put
<1>4. /\ CallsFit(calls', started + 1, version) /\ started + 1 \in 0..MaxCalls
      /\ \A v : v # "change" => Loads(v, calls') = Loads(v, calls)
      /\ \A v : \A i \in Loads(v, calls) : calls'[i] = calls[i]
  BY <1>1, <1>2, <1>3, CallStarts
<1> QED  BY <1>1, <1>2, <1>3, <1>4, LoadsKept DEF SubmitChange

-----------------------------------------------------------------------------
(* The API. *)

\* A call with an answer is the call it was.
LEMMA AnswerKinds ==
    ASSUME NEW ver \in Versions, NEW c \in CallsOf(ver), NEW a, NEW d, d = [c EXCEPT !.answer = a]
    PROVE  /\ d.view = c.view
           /\ c.view = "log" =>
                d.agent = c.agent /\ d.page = c.page /\ (a \in Ended \cup 0..MaxPages => d \in LogCalls)
           /\ c.view = "devices" /\ c.fetch = "clients" =>
                /\ Outcome(d) = a
                /\ a \in Ended \cup {REFUSED} \cup 0..ver["devices"] => d \in ClientCalls(ver)
           /\ c.view = "devices" /\ c.fetch = "users" =>
                /\ Outcome(d) = Outcome(c)
                /\ a \in Ended \cup {REFUSED} \cup 0..ver["users"] => d \in ChoiceCalls(ver)
           /\ c.view = "users" =>
                Outcome(d) = a /\ (a \in Ended \cup 0..ver["users"] => d \in UserCalls(ver))
           /\ c.view = "mine" /\ a \in Ended \cup {1} => d \in MineCalls
           /\ c.view = "change" /\ a \in Ended \cup 0..ver[c.of] => d \in ChangeCalls(c.of, ver)
<1>1. c.view = "log" =>
        /\ d.view = c.view /\ d.agent = c.agent /\ d.page = c.page
        /\ a \in Ended \cup 0..MaxPages => d \in LogCalls
  BY CallKinds DEF LogCalls
<1>2. c.view = "devices" /\ c.fetch = "clients" =>
        /\ d.view = c.view /\ Outcome(d) = a
        /\ a \in Ended \cup {REFUSED} \cup 0..ver["devices"] => d \in ClientCalls(ver)
  BY CallKinds DEF ClientCalls, Outcome
<1>3. c.view = "devices" /\ c.fetch = "users" =>
        /\ d.view = c.view /\ Outcome(d) = Outcome(c)
        /\ a \in Ended \cup {REFUSED} \cup 0..ver["users"] => d \in ChoiceCalls(ver)
  BY CallKinds DEF ChoiceCalls, Outcome
<1>4. c.view = "users" =>
        /\ d.view = c.view /\ Outcome(d) = a
        /\ a \in Ended \cup 0..ver["users"] => d \in UserCalls(ver)
  BY CallKinds DEF UserCalls, Outcome
<1>5. c.view = "mine" => d.view = c.view /\ (a \in Ended \cup {1} => d \in MineCalls)
  BY CallKinds DEF MineCalls
<1>6. c.view = "change" =>
        d.view = c.view /\ (a \in Ended \cup 0..ver[c.of] => d \in ChangeCalls(c.of, ver))
  BY CallKinds DEF ChangeCalls
<1> QED  BY <1>1, <1>2, <1>3, <1>4, <1>5, <1>6, CallKinds

\* An answer to a load that sees what was acknowledged.
LEMMA AnswerInv ==
    ASSUME DashboardInv, NEW i \in Ids, calls[i] # NULL, NEW a, Answered(i, a),
           NEW d, d = [calls[i] EXCEPT !.answer = a],
           version' \in Versions, \A k \in Tables : version[k] <= version'[k],
           d \in CallsOf(version'),
           \A k \in Tables : calls[i].view = k /\ Sees(calls[i], acked[k]) => Sees(d, acked[k]),
           UNCHANGED <<page, filter, currentLogAgent, shown, started, asked, acked, overtaken>>
    PROVE  DashboardInv'
<1>1. /\ version \in Versions /\ started \in 0..MaxCalls /\ CallsFit(calls, started, version)
      /\ calls[i] \in CallsOf(version) /\ CallsOf(version) \subseteq CallsOf(version')
  BY VersionsGrow DEF DashboardInv, Shape, Versions, CallsFit
<1>2. /\ d.view = calls[i].view
      /\ calls[i].view = "log" => d.agent = calls[i].agent /\ d.page = calls[i].page
  BY <1>1, AnswerKinds
<1>3. /\ calls' = Put(calls, i, d) /\ calls[i] # NULL /\ i \in Ids
      /\ version' \in Versions /\ d \in CallsOf(version')
  BY DEF Answered, Put
<1>4. /\ CallsFit(calls', started, version')
      /\ \A v : Loads(v, calls') = Loads(v, calls)
      /\ calls'[i] = d /\ \A j \in Ids : j # i => calls'[j] = calls[j]
  BY ONLY <1>1, <1>2, <1>3, CallGoesOn
<1>5. \A j \in Loads("log", calls) :
        calls'[j].agent = calls[j].agent /\ calls'[j].page = calls[j].page
  BY <1>2, <1>4 DEF Loads
<1>6. \A k \in Tables : \A j \in Loads(k, calls) :
        Sees(calls[j], acked[k]) => Sees(calls'[j], acked[k])
  BY <1>4 DEF Loads
<1> QED  BY <1>1, <1>4, <1>5, <1>6, LoadsKept

LEMMA ServeInv ==
    ASSUME DashboardInv, NEW i \in Ids, Serve(i)  PROVE DashboardInv'
<1>1. /\ version \in Versions /\ \A k \in Tables : version[k] \in Nat /\ version[k] <= version[k]
      /\ acked \in Versions /\ \A k \in Tables : acked[k] <= version[k]
      /\ CallsFit(calls, started, version)
  BY DEF DashboardInv, Shape, Versions, Version
<1>2. calls[i] # NULL /\ calls[i] \in CallsOf(version)
  BY <1>1 DEF Serve, ServeRead, ServeChange, Fail, Waiting, CallsFit
<1>3. BROKEN \notin Nat /\ REFUSED \notin Nat
  OBVIOUS
<1>4. CASE ServeRead(i)
  <2>1. PICK a \in IF calls[i].view = "log" THEN 0..MaxPages
                   ELSE IF calls[i].view = "mine" THEN {1}
                   ELSE {version[IF calls[i].fetch = "clients" THEN "devices" ELSE "users"]} :
               Answered(i, a)
    BY <1>4 DEF ServeRead
  <2> DEFINE d == [calls[i] EXCEPT !.answer = a]
  <2>2. version' = version /\ calls[i].view # "change"
    BY <1>4 DEF ServeRead
  <2>3. /\ calls[i].view = "log" => a \in 0..MaxPages
        /\ calls[i].view = "mine" => a = 1
        /\ calls[i].view = "devices" /\ calls[i].fetch = "clients" => a = version["devices"]
        /\ calls[i].view = "devices" /\ calls[i].fetch = "users" => a = version["users"]
        /\ calls[i].view = "users" => a = version["users"]
    BY <1>1, <1>2, <2>1, CallKinds
  <2>4. version["devices"] \in 0..version["devices"] /\ version["users"] \in 0..version["users"]
    BY <1>1 DEF Tables
  <2> HIDE DEF d
  <2>5. d = [calls[i] EXCEPT !.answer = a]
    BY DEF d
  <2>6. d \in CallsOf(version)
    <3>1. calls[i].view \in {"log", "mine"} => d \in LogCalls \cup MineCalls
      BY <1>1, <1>2, <2>3, <2>5, AnswerKinds
    <3>2. calls[i].view = "devices" => d \in ClientCalls(version) \cup ChoiceCalls(version)
      BY <1>1, <1>2, <2>3, <2>4, <2>5, AnswerKinds, CallKinds
    <3>3. calls[i].view = "users" => d \in UserCalls(version)
      BY <1>1, <1>2, <2>3, <2>4, <2>5, AnswerKinds
    <3> QED  BY <1>1, <1>2, <2>2, <3>1, <3>2, <3>3, CallKinds DEF CallsOf
  <2>7. ASSUME NEW k \in Tables, calls[i].view = k, Sees(calls[i], acked[k])
        PROVE  Sees(d, acked[k])
    <3>1. Outcome(d) = version[k] \/ Outcome(d) = Outcome(calls[i])
      BY <1>1, <1>2, <2>3, <2>5, <2>7, AnswerKinds, CallKinds DEF Tables
    <3> QED  BY <1>1, <2>7, <3>1 DEF Sees
  <2> QED  BY <1>1, <1>2, <2>1, <2>2, <2>5, <2>6, <2>7, AnswerInv DEF Serve
<1>5. CASE ServeChange(i)
  <2>1. PICK a \in {version'[calls[i].of], BROKEN} : Answered(i, a)
    BY <1>5 DEF ServeChange
  <2> DEFINE d == [calls[i] EXCEPT !.answer = a]
  <2>2. calls[i].view = "change" /\ calls[i].of \in Tables
    BY <1>1, <1>2, <1>5, CallKinds DEF ServeChange
  <2>3. /\ version' \in Versions /\ \A k \in Tables : version[k] <= version'[k]
        /\ version'[calls[i].of] \in 0..version'[calls[i].of]
    BY <1>1, <1>5, <2>2 DEF ServeChange, Versions, Version
  <2> HIDE DEF d
  <2>4. d = [calls[i] EXCEPT !.answer = a]
    BY DEF d
  <2>5. calls[i] \in CallsOf(version')
    BY <1>1, <1>2, <2>3, VersionsGrow
  <2>6. d \in CallsOf(version')
    <3>1. d \in ChangeCalls(calls[i].of, version')
      BY <2>1, <2>2, <2>3, <2>4, <2>5, AnswerKinds DEF Ended
    <3> QED  BY <2>2, <3>1 DEF CallsOf, Tables
  <2> QED  BY <1>2, <2>1, <2>2, <2>3, <2>4, <2>6, AnswerInv DEF Serve, Tables
<1>6. CASE Fail(i)
  <2>1. PICK a \in {REFUSED, BROKEN} : (a = REFUSED => calls[i].view = "devices") /\ Answered(i, a)
    BY <1>6 DEF Fail
  <2> DEFINE d == [calls[i] EXCEPT !.answer = a]
  <2>2. version' = version
    BY <1>6 DEF Fail
  <2> HIDE DEF d
  <2>3. d = [calls[i] EXCEPT !.answer = a]
    BY DEF d
  <2>4. d \in CallsOf(version)
    BY <1>1, <1>2, <2>1, <2>3, AnswerKinds, CallKinds DEF CallsOf, Ended, Tables
  <2>5. ASSUME NEW k \in Tables, calls[i].view = k, Sees(calls[i], acked[k])
        PROVE  Sees(d, acked[k])
    <3>1. Outcome(d) = a \/ Outcome(d) = Outcome(calls[i])
      BY <1>1, <1>2, <2>3, <2>5, AnswerKinds, CallKinds DEF Tables
    <3> QED  BY <1>3, <2>1, <2>5, <3>1 DEF Sees
  <2> QED  BY <1>1, <1>2, <2>1, <2>2, <2>3, <2>4, <2>5, AnswerInv DEF Serve
<1> QED  BY <1>4, <1>5, <1>6 DEF Serve

LEMMA ElsewhereInv ==
    ASSUME DashboardInv, Elsewhere  PROVE DashboardInv'
<1>1. /\ version \in Versions /\ started \in 0..MaxCalls /\ CallsFit(calls, started, version)
  BY DEF DashboardInv, Shape, Versions
<1>2. version' \in Versions /\ \A k \in Tables : version[k] <= version'[k]
  BY <1>1 DEF Elsewhere, Versions, Version
<1>3. CallsFit(calls, started, version')
  BY <1>1, <1>2, VersionsGrow DEF CallsFit
<1> QED  BY <1>1, <1>2, <1>3, LoadsKept DEF Elsewhere

-----------------------------------------------------------------------------
(* Answers arrive. *)

LEMMA ArrivedKinds ==
    ASSUME DashboardInv, NEW i \in Ids, calls[i] # NULL
    PROVE  /\ version \in Versions /\ started \in 0..MaxCalls
           /\ CallsFit(calls, started, version)
           /\ calls[i] \in CallsOf(version) /\ i \in Loads(calls[i].view, calls)
BY DEF DashboardInv, Shape, Versions, CallsFit, Loads

LEMMA ShowLogInv ==
    ASSUME DashboardInv, NEW i \in Ids, ShowLog(i)  PROVE DashboardInv'
<1>1. calls[i] # NULL /\ calls[i].view = "log" /\ calls[i].answer # NULL /\ "log" \in Views
  BY DEF ShowLog, Arrived, Views
<1>2. /\ version \in Versions /\ started \in 0..MaxCalls /\ CallsFit(calls, started, version)
      /\ calls[i] \in CallsOf(version) /\ i \in Loads("log", calls)
  BY <1>1, ArrivedKinds
<1>3. calls[i] \in LogCalls
  BY <1>1, <1>2, CallKinds
<1>4. /\ log' \in LogView \cup {NULL}
      /\ log' # NULL => log'.agent = calls[i].agent /\ log'.page = calls[i].page
  <2>1. calls[i].answer # BROKEN => calls[i].answer \in 0..MaxPages
    BY <1>1, <1>3 DEF LogCalls, Ended
  <2>2. 0 \in 0..MaxPages /\ calls[i].agent \in Filters /\ calls[i].page \in 1..MaxPages
    BY <1>3 DEF LogCalls
  <2> QED  BY <2>1, <2>2 DEF ShowLog, LogView
<1>5. /\ calls' = Put(calls, i, NULL) /\ started' = started
      /\ overtaken' =
           IF \E j \in Loads("log", calls) : j < i THEN overtaken \cup {"log"} ELSE overtaken
  BY <1>1 DEF ShowLog, End, Without, Put, Overtaking
<1>6. /\ CallsFit(calls', started, version)
      /\ \A v : Loads(v, calls') = Loads(v, calls) \ {i}
      /\ \A j \in Ids : j # i => calls'[j] = calls[j]
  BY ONLY <1>2, <1>5, CallEnds
<1>7. Shape'
  BY <1>1, <1>4, <1>5, <1>6 DEF DashboardInv, Shape, ShowLog
<1>8. AgentsAgree'
  BY DEF DashboardInv, AgentsAgree, ShowLog
<1>9. LogSound(calls, overtaken, asked, log)'
  <2>1. LogSound(calls, overtaken, asked, log)
    BY DEF DashboardInv
  <2>2. LogSound(calls', overtaken', asked, log')
    BY <2>1, <1>2, <1>4, <1>5, <1>6, LogEnds
  <2> QED  BY <2>2 DEF ShowLog
<1>10. ASSUME NEW k \in Tables  PROVE TableSound(k, calls, overtaken, table[k], acked[k])'
  <2>1. TableSound(k, calls, overtaken, table[k], acked[k])
    BY DEF DashboardInv
  <2>2. k # "log"
    BY DEF Tables
  <2>3. Loads(k, calls') = Loads(k, calls) /\ \A j \in Loads(k, calls) : calls'[j] = calls[j]
    BY <1>1, <1>6, <2>2 DEF Loads
  <2>4. k \in overtaken => k \in overtaken'
    BY <1>5
  <2>5. TableSound(k, calls', overtaken', table[k], acked[k])
    BY <2>1, <2>3, <2>4, TableKept
  <2> QED  BY <2>5 DEF ShowLog
<1> QED  BY <1>7, <1>8, <1>9, <1>10 DEF DashboardInv

\* Answers are versions.
LEMMA SaysRows ==
    ASSUME DashboardInv, NEW k \in Tables, NEW v,
           Says(k, "error") \/ (v \in 0..version[k] /\ Shows(k, v))
    PROVE  /\ table' \in [Tables -> Table]
           /\ \A j \in Tables : j # k => table'[j] = table[j]
           /\ table'[k].says = "rows" => v \in 0..version[k] /\ table'[k].version = v
<1>1. 0..version[k] \subseteq Version
  BY DEF DashboardInv, Shape, Version
<1>2. table \in [Tables -> Table]
  BY DEF DashboardInv, Shape
<1>3. CASE Says(k, "error")
  BY <1>2, <1>3 DEF Says, Table
<1>4. CASE v \in 0..version[k] /\ Shows(k, v)
  BY <1>1, <1>2, <1>4 DEF Shows, Table
<1> QED  BY <1>3, <1>4

LEMMA HaveClientsInv ==
    ASSUME DashboardInv, NEW i \in Ids, HaveClients(i)  PROVE DashboardInv'
<1>1. /\ calls[i] # NULL /\ calls[i].view = "devices" /\ calls[i].fetch = "clients"
      /\ calls[i].answer # NULL /\ "devices" \in Tables
  BY DEF HaveClients, Arrived, Tables
<1>2. /\ version \in Versions /\ started \in 0..MaxCalls /\ CallsFit(calls, started, version)
      /\ calls[i] \in CallsOf(version) /\ i \in Loads("devices", calls)
  BY <1>1, ArrivedKinds
<1>3. CASE calls[i].answer = BROKEN
  <2>1. /\ End(i) /\ Says("devices", "error")
        /\ UNCHANGED <<page, filter, currentLogAgent, log, version, asked, acked>>
    BY <1>3 DEF HaveClients
  <2>2. /\ table' \in [Tables -> Table]
        /\ \A j \in Tables : j # "devices" => table'[j] = table[j]
        /\ table'["devices"].says # "rows"
    BY <1>1, <2>1 DEF DashboardInv, Shape, Says, Table
  <2> QED  BY <1>1, <1>2, <2>1, <2>2, TableEnded
<1>4. CASE calls[i].answer # BROKEN
  <2> DEFINE c == [view |-> "devices", fetch |-> "users", first |-> calls[i].answer, answer |-> NULL]
  <2>1. calls' = Put(calls, i, c) /\ UNCHANGED <<table, started, overtaken>>
    BY <1>4 DEF HaveClients, Put
  <2>2. calls[i].answer \in {REFUSED} \cup 0..version["devices"]
    BY <1>1, <1>2, <1>4, CallKinds DEF ClientCalls, Ended
  <2>3. c \in CallsOf(version) /\ c.view = "devices" /\ Outcome(c) = Outcome(calls[i])
    BY <1>1, <2>2 DEF CallsOf, ChoiceCalls, Ended, Outcome
  <2> HIDE DEF c
  <2>4. /\ CallsFit(calls', started, version)
        /\ \A v : Loads(v, calls') = Loads(v, calls)
        /\ calls'[i] = c /\ \A j \in Ids : j # i => calls'[j] = calls[j]
    BY <1>1, <1>2, <2>1, <2>3, CallGoesOn
  <2>5. \A j \in Loads("log", calls) : calls'[j] = calls[j]
    BY <1>1, <2>4 DEF Loads
  <2>6. \A k \in Tables : \A j \in Loads(k, calls) :
          Sees(calls[j], acked[k]) => Sees(calls'[j], acked[k])
    BY <2>3, <2>4 DEF Loads, Sees
  <2>7. /\ \A k \in Tables : version[k] <= version[k]
        /\ UNCHANGED <<page, filter, currentLogAgent, log, version, asked, acked>>
    BY DEF HaveClients, DashboardInv, Shape, Version
  <2> QED  BY <1>2, <2>1, <2>4, <2>5, <2>6, <2>7, LoadsKept DEF shown
<1> QED  BY <1>3, <1>4

LEMMA ShowDeviceTableInv ==
    ASSUME DashboardInv, NEW i \in Ids, ShowDeviceTable(i)  PROVE DashboardInv'
<1>1. /\ calls[i] # NULL /\ calls[i].view = "devices" /\ calls[i].fetch = "users"
      /\ calls[i].answer # NULL /\ "devices" \in Tables
      /\ RenderDevices(calls[i]) /\ End(i)
      /\ UNCHANGED <<page, filter, currentLogAgent, log, version, asked, acked>>
  BY DEF ShowDeviceTable, Arrived, Tables
<1>2. /\ version \in Versions /\ calls[i] \in CallsOf(version) /\ i \in Loads("devices", calls)
  BY <1>1, ArrivedKinds
<1>3. calls[i].first # REFUSED => calls[i].first \in 0..version["devices"]
  BY <1>1, <1>2, CallKinds DEF ChoiceCalls
<1>4. \/ Says("devices", "error")
      \/ calls[i].first \in 0..version["devices"] /\ Shows("devices", calls[i].first)
  BY <1>1, <1>3 DEF RenderDevices
<1>5. /\ table' \in [Tables -> Table]
      /\ \A j \in Tables : j # "devices" => table'[j] = table[j]
      /\ table'["devices"].says = "rows" =>
           /\ calls[i].first \in 0..version["devices"]
           /\ table'["devices"].version = calls[i].first
  BY <1>1, <1>4, SaysRows
<1>6. Outcome(calls[i]) = calls[i].first
  BY <1>1 DEF Outcome
<1>7. table'["devices"].says = "rows" /\ Sees(calls[i], acked["devices"]) =>
        acked["devices"] <= table'["devices"].version
  <2>1. 0..version["devices"] \subseteq Nat
    OBVIOUS
  <2> QED  BY <1>5, <1>6, <2>1 DEF Sees
<1> QED  BY <1>1, <1>2, <1>5, <1>7, TableEnded

LEMMA ShowUserTableInv ==
    ASSUME DashboardInv, NEW i \in Ids, ShowUserTable(i)  PROVE DashboardInv'
<1>1. /\ calls[i] # NULL /\ calls[i].view = "users" /\ calls[i].answer # NULL
      /\ "users" \in Tables /\ End(i)
      /\ IF calls[i].answer = BROKEN THEN Says("users", "error")
         ELSE Shows("users", calls[i].answer)
      /\ UNCHANGED <<page, filter, currentLogAgent, log, version, asked, acked>>
  BY DEF ShowUserTable, Arrived, Tables
<1>2. /\ version \in Versions /\ calls[i] \in CallsOf(version) /\ i \in Loads("users", calls)
  BY <1>1, ArrivedKinds
<1>3. calls[i].answer # BROKEN => calls[i].answer \in 0..version["users"]
  BY <1>1, <1>2, CallKinds DEF UserCalls, Ended
<1>4. \/ Says("users", "error")
      \/ calls[i].answer \in 0..version["users"] /\ Shows("users", calls[i].answer)
  BY <1>1, <1>3
<1>5. /\ table' \in [Tables -> Table]
      /\ \A j \in Tables : j # "users" => table'[j] = table[j]
      /\ table'["users"].says = "rows" =>
           /\ calls[i].answer \in 0..version["users"]
           /\ table'["users"].version = calls[i].answer
  BY <1>1, <1>4, SaysRows
<1>6. Outcome(calls[i]) = calls[i].answer
  BY <1>1 DEF Outcome
<1>7. table'["users"].says = "rows" /\ Sees(calls[i], acked["users"]) =>
        acked["users"] <= table'["users"].version
  <2>1. 0..version["users"] \subseteq Nat
    OBVIOUS
  <2> QED  BY <1>5, <1>6, <2>1 DEF Sees
<1> QED  BY <1>1, <1>2, <1>5, <1>7, TableEnded

LEMMA ChangeDoneInv ==
    ASSUME DashboardInv, NEW i \in Ids, ChangeDone(i)  PROVE DashboardInv'
<1>1. /\ calls[i] # NULL /\ calls[i].view = "change" /\ calls[i].answer # NULL
      /\ calls[i].view \notin Views
      /\ UNCHANGED <<page, filter, currentLogAgent, log, version, asked>>
  BY DEF ChangeDone, Arrived, Views, Tables
<1>2. version \in Versions /\ calls[i] \in CallsOf(version)
  BY <1>1, ArrivedKinds
<1>3. CASE calls[i].answer = BROKEN
  BY <1>1, <1>3, OtherEnds DEF ChangeDone, shown
<1>4. CASE calls[i].answer # BROKEN
  <2> DEFINE k == calls[i].of
  <2>1. k \in Tables /\ calls[i].answer \in 0..version[k]
    BY <1>1, <1>2, <1>4, CallKinds DEF ChangeCalls, Ended
  <2>2. /\ acked' = [acked EXCEPT ![k] = IF @ > calls[i].answer THEN @ ELSE calls[i].answer]
        /\ AfterChange(i, k)
    BY <1>4 DEF ChangeDone
  <2> HIDE DEF k
  <2>3. /\ acked \in Versions /\ version \in Versions /\ \A j \in Tables : acked[j] <= version[j]
    BY DEF DashboardInv, Shape, Versions
  <2>4. calls[i].answer \in Version /\ calls[i].answer <= version[k]
    BY <2>1, <2>3 DEF Versions, Version
  <2>5. /\ acked' \in Versions /\ \A j \in Tables : acked'[j] <= version[j]
        /\ \A j \in Tables : j # k => acked'[j] = acked[j]
    BY <2>1, <2>2, <2>3, <2>4 DEF Versions
  <2>6. Start(TableCall(k), Without(i), overtaken) /\ Says(k, "loading")
    BY <2>2 DEF AfterChange, TableCall
  <2> QED  BY <1>1, <2>1, <2>5, <2>6, OthersGo, TableLoads
<1> QED  BY <1>3, <1>4

LEMMA HaveMineInv ==
    ASSUME DashboardInv, NEW i \in Ids, HaveMine(i)  PROVE DashboardInv'
<1>1. /\ calls[i] # NULL /\ calls[i].view \notin Views
      /\ UNCHANGED <<page, shown, version, acked>>
  BY DEF HaveMine, Arrived, Views, Tables
<1>2. CASE \E a \in Agents : filter' = a /\ LoadLog(a, 1, Without(i), overtaken)
  <2>1. PICK a \in Agents : filter' = a /\ LoadLog(a, 1, Without(i), overtaken)
    BY <1>2
  <2>2. a \in Filters /\ 1 \in 1..MaxPages
    BY DEF Filters
  <2> QED  BY <1>1, <2>1, <2>2, OthersGo, LogLoads
<1>3. CASE End(i) /\ UNCHANGED <<filter, asked, currentLogAgent>>
  BY <1>1, <1>3, OtherEnds
<1> QED  BY <1>2, <1>3 DEF HaveMine

LEMMA StepInv == DashboardInv /\ [Next]_vars => DashboardInv'
<1> SUFFICES ASSUME DashboardInv, [Next]_vars  PROVE DashboardInv'
  OBVIOUS
<1>1. CASE \E a \in Filters : ChooseAgent(a)
  BY <1>1, ChooseAgentInv
<1>2. CASE ClickPage
  BY <1>2, ClickPageInv
<1>3. CASE ShowDevices \/ ShowUsers
  BY <1>3, ShowDevicesInv, ShowUsersInv
<1>4. CASE \E k \in Tables : SubmitChange(k)
  BY <1>4, SubmitChangeInv
<1>5. CASE \E i \in Ids : Serve(i)
  BY <1>5, ServeInv
<1>6. CASE \E i \in Ids : Arrive(i)
  BY <1>6, ShowLogInv, HaveClientsInv, ShowDeviceTableInv, ShowUserTableInv, ChangeDoneInv,
     HaveMineInv DEF Arrive
<1>7. CASE Elsewhere
  BY <1>7, ElsewhereInv
<1>8. CASE UNCHANGED vars
  BY <1>8 DEF vars, shown, DashboardInv, Shape, AgentsAgree, CallsFit
<1> QED  BY <1>1, <1>2, <1>3, <1>4, <1>5, <1>6, <1>7, <1>8 DEF Next

-----------------------------------------------------------------------------
(* The theorems. *)

LEMMA Always == Spec => []DashboardInv
<1>1. DashboardInv /\ [Next]_vars => DashboardInv'
  BY StepInv
<1> QED  BY <1>1, InitInv, PTL DEF Spec

\* The variables, and with them every call under way, keep their types: an answer
\* is one that the API gives to the fetch it belongs to.
THEOREM TypeCorrect == Spec => []TypeOK
<1>1. DashboardInv => TypeOK
  <2> SUFFICES ASSUME DashboardInv  PROVE TypeOK
    OBVIOUS
  <2>1. version \in Versions /\ \A k \in Tables : 0..version[k] \subseteq Nat
    BY DEF DashboardInv, Shape, Versions
  <2>2. 0..MaxPages \subseteq Nat /\ 1 \in Nat
    OBVIOUS
  <2>3. CallsOf(version) \subseteq Call
    BY <2>1, <2>2 DEF CallsOf, LogCalls, ClientCalls, ChoiceCalls, UserCalls, MineCalls,
       ChangeCalls, Call, Ended, Answer, Tables
  <2>4. calls \in [Ids -> Call \cup {NULL}]
    BY <2>3 DEF DashboardInv, Shape, CallsFit
  <2> QED  BY <2>4 DEF DashboardInv, Shape, TypeOK
<1> QED  BY <1>1, Always, PTL

\* However the answers of loadLogsPaged and loadUserLogs are delayed: when no log is
\* being loaded and none was overtaken, the table shows the page asked for last,
\* and the administrators' table that of the agent in the filter.
THEOREM LogsAsChosen == Spec => []LogShowsChosen
<1>1. DashboardInv => LogShowsChosen
  <2> SUFFICES ASSUME DashboardInv, AtRest("log"), "log" \notin overtaken, log # NULL
               PROVE  /\ [agent |-> log.agent, page |-> log.page] = asked
                      /\ page = "admin" => log.agent = filter
    BY DEF LogShowsChosen
  <2>1. [agent |-> log.agent, page |-> log.page] = asked
    BY DEF DashboardInv, LogSound, AtRest
  <2>2. asked.agent = log.agent
    BY <2>1
  <2> QED  BY <2>1, <2>2 DEF DashboardInv, AgentsAgree
<1> QED  BY <1>1, Always, PTL

\* A table of devices or users that is not being loaded and whose loads ended in
\* order shows every change this page was told had been made.
THEOREM OwnChangesStayShown == Spec => []OwnChangesShown
<1>1. DashboardInv => OwnChangesShown
  <2> SUFFICES ASSUME DashboardInv, NEW k \in Tables,
                      AtRest(k), k \notin overtaken, table[k].says = "rows"
               PROVE  table[k].version >= acked[k]
    BY DEF OwnChangesShown
  <2>1. acked[k] <= table[k].version
    BY DEF DashboardInv, TableSound, AtRest
  <2>2. acked[k] \in Nat /\ table[k].version \in Nat
    BY DEF DashboardInv, Shape, Version, Table
  <2> QED  BY <2>1, <2>2
<1> QED  BY <1>1, Always, PTL
=============================================================================
