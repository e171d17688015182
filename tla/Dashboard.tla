------------------------------- MODULE Dashboard -------------------------------
(***************************************************************************)
(* The two dashboards in a browser: what their tables show, and the        *)
(* fetches behind them.  A fetch is sent, served by the API some time      *)
(* later, and its answer arrives later still; nothing keeps the answers in *)
(* the order of the fetches, and none is cancelled.                        *)
(*                                                                         *)
(* A table of the server is a version number that every change of it       *)
(* raises; the length of a log is whatever it is when it is read.  The     *)
(* token is valid throughout (a 401 leaves the page: see ApiSessions).     *)
(***************************************************************************)
EXTENDS Integers, FiniteSets

CONSTANTS Agents,       \* the agent ids offered by the filter of the log table
          ALL,          \* the filter's option for all agents
          MaxPages,     \* bound on the pages of a log
          MaxCalls,     \* bound on the loads and changes the page starts
          MaxVersion,   \* bound on the changes of a server table
          BROKEN,       \* the outcome of a fetch that rejects
          REFUSED,      \* and of one whose status is not 2xx
          NULL

ASSUME DashboardAssumption ==
    /\ MaxPages \in Nat \ {0} /\ MaxCalls \in Nat \ {0, 1} /\ MaxVersion \in Nat
    /\ ALL \notin Agents /\ NULL \notin Agents \cup {ALL}
    /\ Cardinality({BROKEN, REFUSED, NULL}) = 3 /\ {BROKEN, REFUSED, NULL} \cap Nat = {}

VARIABLES
    page,       \* which dashboard
    filter,     \* the value of the log table's select element
    currentLogAgent,  \* the variable of that name in dashboard_admin.js
    log,        \* the log table with its page buttons
    table,      \* the tables of devices and users
    calls,      \* the loads and changes under way, by the order of their start
    started,    \* how many were started
    version,    \* the server's tables managed_clients and users
    asked,      \* ghost: what the log table was last asked to show
    acked,      \* ghost: the versions that acknowledged changes led to
    overtaken   \* ghost: views in which a load ended before an earlier one

shown == <<log, table>>
vars  == <<page, filter, currentLogAgent, shown, calls, started, version, asked, acked, overtaken>>

Tables  == {"devices", "users"}
Views   == Tables \cup {"log"}
Filters == Agents \cup {ALL}
Ids     == 1..MaxCalls
Version == 0..MaxVersion

\* One page of the log of an agent (or of all), and how many there are.
LogView == [agent : Filters, page : 1..MaxPages, pages : 0..MaxPages]
Table   == [says : {"nothing", "loading", "error", "rows"}, version : Version]
Answer  == {NULL, BROKEN, REFUSED} \cup Nat
Call ==
    [view : {"log"}, agent : Filters, page : 1..MaxPages, answer : Answer]
      \cup [view : {"devices"}, fetch : {"clients"}, answer : Answer]
      \cup [view : {"devices"}, fetch : {"users"}, first : Answer, answer : Answer]
      \cup [view : {"users"}, fetch : {"users"}, answer : Answer]
      \cup [view : {"mine"}, answer : Answer]
      \cup [view : {"change"}, of : Tables, answer : Answer]

ASSUME NullAssumption == NULL \notin Call \cup LogView

TypeOK ==
    /\ page \in {"admin", "user"}
    /\ filter \in Filters \cup {NULL} /\ currentLogAgent \in Filters
    /\ log \in LogView \cup {NULL}
    /\ table \in [Tables -> Table]
    /\ calls \in [Ids -> Call \cup {NULL}] /\ started \in 0..MaxCalls
    /\ version \in [Tables -> Version] /\ acked \in [Tables -> Version]
    /\ asked \in [agent : Filters, page : 1..MaxPages] \cup {NULL}
    /\ overtaken \subseteq Views

-----------------------------------------------------------------------------
(* Starting a load.  Each of these operators is the whole step's change of    *)
(* calls and started; busy is what is under way besides.                     *)

Loads(v, cs) == {i \in Ids : cs[i] # NULL /\ cs[i].view = v}
AtRest(v) == Loads(v, calls) = {}

LogCall(a, p)  == [view |-> "log", agent |-> a, page |-> p, answer |-> NULL]
DeviceCall     == [view |-> "devices", fetch |-> "clients", answer |-> NULL]
UserCall       == [view |-> "users", fetch |-> "users", answer |-> NULL]
MineCall       == [view |-> "mine", answer |-> NULL]
ChangeCall(k)  == [view |-> "change", of |-> k, answer |-> NULL]
TableCall(k)   == IF k = "devices" THEN DeviceCall ELSE UserCall

\* The page starts c, having finished with the calls that are not in cs; a view
\* that was at rest starts afresh.
Start(c, cs, late) ==
    /\ started < MaxCalls
    /\ started' = started + 1
    /\ calls' = [cs EXCEPT ![started + 1] = c]
    /\ overtaken' = IF Loads(c.view, cs) = {} THEN late \ {c.view} ELSE late

\* The ghost when call i ends: an earlier load of the same view is still to come.
Overtaking(i) ==
    IF \E j \in Loads(calls[i].view, calls) : j < i /\ calls[i].view \in Views
    THEN overtaken \cup {calls[i].view} ELSE overtaken
Without(i) == [calls EXCEPT ![i] = NULL]

\* loadLogsPaged, loadUserLogs: the former remembers the agent.
LoadLog(a, p, cs, late) ==
    /\ Start(LogCall(a, p), cs, late)
    /\ asked' = [agent |-> a, page |-> p]
    /\ currentLogAgent' = IF page = "admin" THEN a ELSE currentLogAgent

Init ==
    /\ page \in {"admin", "user"}
    /\ filter = IF page = "admin" THEN ALL ELSE NULL
    /\ currentLogAgent = ALL
    /\ log = NULL
    /\ table = [k \in Tables |->
            [says |-> IF k = "users" /\ page = "admin" THEN "loading" ELSE "nothing",
             version |-> 0]]
    /\ started = IF page = "admin" THEN 2 ELSE 1
    /\ calls = [i \in Ids |->
            IF i > started THEN NULL
            ELSE IF page = "user" THEN MineCall
            ELSE IF i = 1 THEN LogCall(ALL, 1) ELSE UserCall]
    /\ version = [k \in Tables |-> 0]
    /\ asked = IF page = "admin" THEN [agent |-> ALL, page |-> 1] ELSE NULL
    /\ acked = [k \in Tables |-> 0]
    /\ overtaken = {}

-----------------------------------------------------------------------------
(* The user's clicks. *)

ChooseAgent(a) ==
    /\ filter # NULL /\ a # filter
    /\ page = "user" => a \in Agents
    /\ filter' = a
    /\ LoadLog(a, 1, calls, overtaken)
    /\ UNCHANGED <<page, shown, version, acked>>

\* Variant for a mutation run: "previous" and "next" work at the ends, too.
ButtonsUnchecked(p, n) == IF n <= 1 THEN {} ELSE (1..n \cup {p - 1, p + 1}) \ {p}

\* The buttons of a log table that shows page p of n, without those whose click is
\* ignored.
Buttons(p, n) == IF n <= 1 THEN {} ELSE {b \in 1..n : b \in {1, n} \/ b \in (p - 1)..(p + 1)} \ {p}

\* Variant for a mutation run: the admin's buttons keep their agent, too.
AgentUnderButtons == log.agent

\* The buttons of dashboard_admin.js ask for the agent last filtered by, those of
\* dashboard_user.js for the agent whose log they stand under.
AgentOfButtons == IF page = "admin" THEN currentLogAgent ELSE log.agent

ClickPage ==
    /\ log # NULL
    /\ \E p \in Buttons(log.page, log.pages) : LoadLog(AgentOfButtons, p, calls, overtaken)
    /\ UNCHANGED <<page, filter, shown, version, acked>>

Says(k, text) == table' = [table EXCEPT ![k].says = text]
Shows(k, v)   == table' = [table EXCEPT ![k] = [says |-> "rows", version |-> v]]

\* showSection.  Through the wrapper around it the users are loaded twice.
ShowDevices ==
    /\ page = "admin"
    /\ Start(DeviceCall, calls, overtaken)
    /\ Says("devices", "loading")
    /\ UNCHANGED <<page, filter, currentLogAgent, log, version, asked, acked>>
ShowUsers ==
    /\ page = "admin" /\ started + 2 <= MaxCalls
    /\ calls' = [calls EXCEPT ![started + 1] = UserCall, ![started + 2] = UserCall]
    /\ started' = started + 2
    /\ overtaken' = IF AtRest("users") THEN overtaken \ {"users"} ELSE overtaken
    /\ Says("users", "loading")
    /\ UNCHANGED <<page, filter, currentLogAgent, log, version, asked, acked>>

\* A device is assigned, a user is created, changed or deleted; the dialogs stay
\* open while tables are loaded.  (To delete a device the page sends POST where the
\* API has DELETE, and a new password under another name than the API's: these
\* two always fail.)
SubmitChange(k) ==
    /\ page = "admin" /\ table[k].says # "nothing"
    /\ Start(ChangeCall(k), calls, overtaken)
    /\ UNCHANGED <<page, filter, currentLogAgent, shown, version, asked, acked>>

-----------------------------------------------------------------------------
(* The API. *)

Answered(i, a) == calls' = [calls EXCEPT ![i].answer = a]
Waiting(i) == calls[i] # NULL /\ calls[i].answer = NULL

\* The handlers read or change their table in one statement.  The number in the
\* answer is the length of the log in pages, or the version of the table.
ServeRead(i) ==
    /\ Waiting(i) /\ calls[i].view # "change"
    /\ \E a \in IF calls[i].view = "log" THEN 0..MaxPages
              ELSE IF calls[i].view = "mine" THEN {1}
              ELSE {version[IF calls[i].fetch = "clients" THEN "devices" ELSE "users"]} :
            Answered(i, a)
    /\ UNCHANGED version
ServeChange(i) ==
    /\ Waiting(i) /\ calls[i].view = "change"
    /\ version[calls[i].of] < MaxVersion
    /\ version' = [version EXCEPT ![calls[i].of] = @ + 1]
    /\ \E a \in {version'[calls[i].of], BROKEN} : Answered(i, a)
\* Only loadDevices tells the two failures apart.
Fail(i) ==
    /\ Waiting(i)
    /\ \E a \in {REFUSED, BROKEN} :
        /\ a = REFUSED => calls[i].view = "devices"
        /\ Answered(i, a)
    /\ UNCHANGED version
Serve(i) ==
    /\ ServeRead(i) \/ ServeChange(i) \/ Fail(i)
    /\ UNCHANGED <<page, filter, currentLogAgent, shown, started, asked, acked, overtaken>>

\* Other administrators, the TCP server.
Elsewhere ==
    /\ \E k \in Tables : version[k] < MaxVersion /\ version' = [version EXCEPT ![k] = @ + 1]
    /\ UNCHANGED <<page, filter, currentLogAgent, shown, calls, started, asked, acked, overtaken>>

-----------------------------------------------------------------------------
(* Answers arrive. *)

Arrived(i, v) == calls[i] # NULL /\ calls[i].view = v /\ calls[i].answer # NULL

\* Call i ends and nothing new is started.
End(i) ==
    /\ calls' = Without(i)
    /\ overtaken' = Overtaking(i)
    /\ UNCHANGED started

\* renderLogsPaged and renderLogPagination; the user's dashboard has no buttons
\* under an empty page.
ShowLog(i) ==
    LET c == calls[i] IN
    /\ Arrived(i, "log")
    /\ log' = IF c.answer = BROKEN THEN NULL
              ELSE [agent |-> c.agent, page |-> c.page,
                    pages |-> IF page = "user" /\ c.page > c.answer THEN 0 ELSE c.answer]
    /\ End(i)
    /\ UNCHANGED <<page, filter, currentLogAgent, table, version, asked, acked>>

\* loadDevices has the clients and asks for the users; only a fetch that rejects
\* ends it here.
HaveClients(i) ==
    LET c == calls[i] IN
    /\ Arrived(i, "devices") /\ c.fetch = "clients"
    /\ IF c.answer = BROKEN
       THEN End(i) /\ Says("devices", "error")
       ELSE /\ calls' = [calls EXCEPT ![i] =
                    [view |-> "devices", fetch |-> "users", first |-> c.answer, answer |-> NULL]]
            /\ UNCHANGED <<table, started, overtaken>>
    /\ UNCHANGED <<page, filter, currentLogAgent, log, version, asked, acked>>

\* Variant for a mutation run: an exception is not caught.
DevicesUncaught(c) ==
    IF c.answer = BROKEN THEN UNCHANGED table
    ELSE IF c.first = REFUSED THEN Says("devices", "error") ELSE Shows("devices", c.first)

\* What loadDevices shows in the end: without users a row has no choice of them.
RenderDevices(c) ==
    IF c.answer = BROKEN \/ c.first = REFUSED THEN Says("devices", "error")
    ELSE Shows("devices", c.first)
ShowDeviceTable(i) ==
    /\ Arrived(i, "devices") /\ calls[i].fetch = "users"
    /\ RenderDevices(calls[i])
    /\ End(i)
    /\ UNCHANGED <<page, filter, currentLogAgent, log, version, asked, acked>>

\* loadUsers.
ShowUserTable(i) ==
    /\ Arrived(i, "users")
    /\ IF calls[i].answer = BROKEN THEN Says("users", "error")
       ELSE Shows("users", calls[i].answer)
    /\ End(i)
    /\ UNCHANGED <<page, filter, currentLogAgent, log, version, asked, acked>>

\* Variant for a mutation run: the toast, but no reload.
ToastOnly(i, k) == End(i) /\ UNCHANGED table

AfterChange(i, k) ==
    /\ Start(IF k = "devices" THEN DeviceCall ELSE UserCall, Without(i), overtaken)
    /\ Says(k, "loading")

\* A change that was made is followed by a load of its table, one that failed by
\* a message only.
ChangeDone(i) ==
    LET c == calls[i] IN
    /\ Arrived(i, "change")
    /\ IF c.answer = BROKEN
       THEN End(i) /\ UNCHANGED <<acked, table>>
       ELSE /\ acked' = [acked EXCEPT ![c.of] = IF @ > c.answer THEN @ ELSE c.answer]
            /\ AfterChange(i, c.of)
    /\ UNCHANGED <<page, filter, currentLogAgent, log, version, asked>>

\* loadUserDevicesAndLogs: the log of the first device is loaded; without a
\* device, or after a failure, the log table stays as it is.
HaveMine(i) ==
    /\ Arrived(i, "mine")
    /\ \/ /\ calls[i].answer # BROKEN
          /\ \E a \in Agents : filter' = a /\ LoadLog(a, 1, Without(i), overtaken)
       \/ End(i) /\ UNCHANGED <<filter, asked, currentLogAgent>>
    /\ UNCHANGED <<page, shown, version, acked>>

Arrive(i) ==
    \/ ShowLog(i) \/ HaveClients(i) \/ ShowDeviceTable(i) \/ ShowUserTable(i)
    \/ ChangeDone(i) \/ HaveMine(i)

Next ==
    \/ \E a \in Filters : ChooseAgent(a)
    \/ ClickPage \/ ShowDevices \/ ShowUsers
    \/ \E k \in Tables : SubmitChange(k)
    \/ \E i \in Ids : Serve(i) \/ Arrive(i)
    \/ Elsewhere

Spec == Init /\ [][Next]_vars

\* A browser ends every fetch, with an answer or without, and runs the
\* continuation of each.
FairSpec == Spec /\ \A i \in Ids : WF_vars(Serve(i)) /\ WF_vars(Arrive(i))

-----------------------------------------------------------------------------
(* Properties. *)

\* dashboard_admin.js:154, "always with the agent that is being filtered by": when
\* no log is being loaded, and the last answers came in the order of their
\* fetches, the log table shows the page that was asked for last, of the agent
\* in the filter, although its buttons may have been drawn for another agent.
LogShowsChosen ==
    AtRest("log") /\ "log" \notin overtaken /\ log # NULL =>
        /\ [agent |-> log.agent, page |-> log.page] = asked
        /\ page = "admin" => log.agent = filter

\* A table that is not being loaded shows every change that this page made and
\* was told of: the load that follows a change reads after it, and a load that
\* was already under way ends before.
OwnChangesShown ==
    \A k \in Tables :
        /\ AtRest(k) /\ k \notin overtaken /\ table[k].says = "rows"
        => table[k].version >= acked[k]

\* No table says "loading" for ever, whatever fails.
LoadingEnds == \A k \in Tables : table[k].says = "loading" ~> table[k].says # "loading"

(* What the user's dashboard does not do. *)

\* LogShowsChosen for both dashboards: the log that is shown is that of the device
\* in the filter.
LogOfFilter ==
    AtRest("log") /\ "log" \notin overtaken /\ log # NULL => log.agent = filter
=============================================================================
