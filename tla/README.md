# Verification of gau-gau

gau-gau replaces the Windows logon by a logon with a one-time code. A
credential provider (`src/cpp`) shows the tile and asks a local client service
for the code; the client (`src/gou-pc/cmd/client`) keeps one TCP connection to
a server, registers the machine, says hello, ships the event log and asks for
codes; the server (`src/gou-pc/cmd/server`) keeps the clients and users in
SQLite, archives the logs and serves an HTTP API to a web dashboard
(`src/web`).

This directory holds TLA+ models of the parts of that system in which order,
concurrency and failure matter, the TLC configurations that check them, and
TLAPS proofs of their main safety properties. Every definition is translated
from the code; `PROJECT.json` (`map`) names the lines each one stands for.

Contents: 1 Inventory. 2 Modules. 3 Runs. 4 Properties and what they show.
5 Disagreements between code and documentation. 6 Fairness. 7 Proofs.
8 Assumptions and what is left out. 9 Plan.

## 1 Inventory

Each component with its state, its operations, how it meets the others, what
is hard about it, and what makes it correct.

### Client registry (`agent/manager_agent.go`, `tcpserver.go`, `client_repository.go`, `client_service.go`)
- State: the table `managed_clients` (keys `client_id` and `agent_id`), the
  counter `nextAgentID` under the mutex `mu`, one goroutine per connection.
- Operations: `register` (tcpserver.go:119-139: FindClientByDevice, GenAgentID,
  GenClientID, SaveClient, answer), `request_otp` (:140-167, which calls
  LoadClients), the status loop's LoadClients, DELETE requests of the API, a
  restart of the server.
- Hard: `LoadClients` reads the table and assigns the counter *without* `mu`,
  from handlers and the status loop at once; `INSERT OR REPLACE` evicts the
  holder of a repeated id; errors of SaveClient are dropped; after a restart
  the counter is 1 until the table has been loaded.
- Correct when: keys stay unique; a row goes only by deletion or by a
  replacement under its own agent id; ids stay dense; and, when LoadClients
  never runs while a registration is between GenAgentID and the end of
  SaveClient and none comes before the first load after a start, a registration
  stays until it is deleted and a code is computed for the client that asks.

### Device status (`tcpserver.go`, `client_repository.go`, `client_service.go`)
- State: `helloLastSeen` in memory, the columns `last_seen`, `online`,
  `user_name`; the snapshot the status loop works on; the stale copies of
  assign requests.
- Operations: `hello`, UpdateAgentStatusAndLog every 30 s, assignment of a user
  (find, read again, update the changed columns), registration, deletion,
  restart.
- Hard: three writers of one row, all working on copies; ids that are reused.
- Correct when: no status without a hello, none newer than the last hello, no
  row brought back, silence shows as offline and a hello as online.

### Request loop of the client (`agent/agent.go`)
- State: the unbuffered channel of StartRequestLoop, the one-element channel
  of each request, the frame on the connection.
- Operations: Agent.Request by the goroutines for hello, log lines, one-time
  codes and registration; the loop; handleConn at the other end; breaks.
- Hard: no request numbers on the wire, timeouts that leave the request in the
  loop, a send that no timeout covers, frames over 65536 bytes.
- Correct when: nobody gets the answer to another request, nobody is answered
  after an error, nothing leaves a client whose cipher is not ready, and every
  call returns.

### Log watcher and log handler (`cmd/client/main.go`, `agent.go`, `tcpserver.go`)
- State: event log, offset file, `lastSize`, the buffer of a round.
- Operations: poll (Stat, Read, SplitLines), one request per line, save the
  offset; LogEvent in the credential provider; clearing of the event log.
- Hard: the client may end between any two steps; the file changes between
  Stat and Read; a line is read before its end is written.
- Correct when: no position passes a line that was not sent; order; at most one
  copy per run of the client; every event arrives.

### Log archive (`tcpserver.go`, `logcollector.go`, `log_repository.go`, `log_service.go`, `log_handler.go`)
- State: `archive.log`, `archive.log.old`, file handles of the log handlers.
- Operations: append (two Writes), load, filter, page, RotateLog.
- Hard: handlers interleave between the Writes; a crash between them; pages
  counted from the newest entry while entries arrive; rename under an open
  handle. RotateLog is called by no program of the repository; it is modelled
  because it is exported for this file.
- Correct when: an answered entry is read back once; paging skips nothing;
  pages put together are the whole.

### User accounts (`user_repository.go`, `user_service.go`, `user_handler.go`, `cmd/server/main.go`)
- State: the table `users`; copies in requests that read and then write.
- Operations: create, update, change-password, update-info, delete, the
  default administrator at each start.
- Hard: the handlers write a whole stale copy back; a name may be deleted and
  created again between the read and the write.
- Correct when: a row holds only what was asked for under its name; ids never
  move; a password that was changed stays changed (it does not, section 5).

### Logon with a code (`CSampleCredential.cpp`, `helpers.cpp`, `ipc_windows.go`, `cmd/client/main.go`, `otp.go`)
- State: the attempts (one per logon screen), the pipe connections, the
  request on the client's connection, the server's time step.
- Operations: GetSerialization, GetSecretFromLocalService,
  handleIPCConnection, requestOTP, `request_otp`.
- Hard: codes typed before and fetched after a step boundary; late answers;
  errors that travel as text; competition for the one request loop.
- Correct when: a code is accepted only if the server computed it during that
  attempt, the present code is refused only if none came back, and every
  attempt ends.

### Provider life cycle (`Dll.cpp`, `CSampleProvider.cpp/.h`, `CSampleCredential.cpp/.h`, `CSampleProviderFilter.cpp`)
- State: the DLL's reference count, the COM objects with theirs, the pointers
  between them, `_fRecreateEnumeratedCredentials`.
- Operations: CreateInstance, LockServer, DllCanUnloadNow, SetUsageScenario,
  SetUserArray, GetCredentialCount (which enumerates), GetCredentialAt, Advise,
  UnAdvise, Release.
- Hard: the users are set after the scenario; enumeration releases a tile that
  LogonUI may hold; releases come in any order; COM may free the DLL whenever
  the count is zero.
- Correct when: an object lives exactly as long as it has holders, the DLL as
  long as it has objects, and the tile belongs to the present users.

### API sessions and device views (`jwt.go`, `api.go`, `user_handler.go`, `client_handler.go`, `log_handler.go`, `otp_service.go`, `otp.go`, `login.js`)
- State: the token in a browser's localStorage; the request under way with what
  it has read so far; the tables `users` and `managed_clients`, which everybody
  else changes.
- Operations: login (read the row, sign its values), the middleware of the group
  and the one of the administrators' routes, the routes that change a table,
  `clients`, `clients/my`, `logs/my-device`, `logs/my-device-paged`, the code of
  a device with its remaining seconds; expiry, 401 and logout.
- Hard: a token is believed although its row has changed or gone; a view checks
  in one statement and loads in another; loads that fail are skipped; a code and
  its remaining time meet the boundary of a period.
- Correct when: claims the table has ceased to confirm lapse in time; the
  devices and logs a user is shown were the user's during the request, and
  nothing that was is missing unless a statement, a scan or a load failed; a code
  holds for exactly the seconds shown with it. Whose device a code is for is not
  looked at: the `my-otp` route (client_handler.go:161-173) answers any user
  for any agent id.

### Web dashboard (`dashboard_admin.js`, `dashboard_user.js`)
- State: the filter, `currentLogAgent`, what each table shows, the agent and page
  its buttons were made for, the fetches under way.
- Operations: filter, page buttons, sections, changes from the tables; each
  fetch and the continuation of its answer.
- Hard: nothing orders the answers of two fetches or cancels one; a table is
  emptied before its fetches start; buttons outlive the filter they were made
  under.
- Correct when: at rest the log is the one asked for last, a table shows every
  change the page was told of, and no table says "loading" for ever.

### Not modelled
- Display state of the tile's fields (CommandLinkClicked, SetDeselected,
  SetStringValue, ReportResult): LogonUI drives it from one thread, one call at a
  time, and each call sets a field to its argument.
- Of the dashboard: the counts of the overview, the options of the filter, the
  OTP box and its countdown, the profile form. Each is filled by one answer.
- AES-CFB and TOTP: only whether the cipher is ready (RequestLoop) and which
  time step a code belongs to (OtpLogon, ApiSessions). Their bits are standard
  algorithms of libraries.
- Packing of the Kerberos credential, configuration files, diagnostics, CORS,
  the service wrapper, the test programs: no state that another part depends
  on. Starting and ending a process appears as an action where it matters.

## 2 Modules

| Module | Models | Used by |
|---|---|---|
| `ClientStore` | statements on `managed_clients` and the id arithmetic, as operators on a set of rows | ClientRegistry, ClientStatus |
| `ClientRegistry` | registration, OTP lookup, LoadClients, deletion, restart | |
| `ClientDirectory` | abstract: a directory in which a client id is used once and an agent id by one client at a time | refined by ClientRegistry under `CalmSpec` |
| `ClientStatus` | hello, status loop, assignment | |
| `DeviceTable` | abstract: which client has which agent id and to whom it is assigned | refined by ClientStatus; ApiSessions is built on it |
| `RequestLoop` | the client's connection and both its ends | |
| `SerialCalls` | abstract: calls are served one at a time, each answered with its own answer or an error | refined by RequestLoop |
| `LogShipping` | event log, watcher, log handler | |
| `LogArchive` | archive file, paging, rotation | |
| `UserAccounts` | the table `users` and its handlers | |
| `AccountTable` | abstract: an account per user name, with an id for life | refined by UserAccounts; ApiSessions is built on it |
| `ApiSessions` | logins, tokens, the API's requests and views | |
| `Dashboard` | the two dashboards in a browser | |
| `OtpLogon` | tile, pipe, client and server for one-time codes | |
| `ProviderLifecycle` | the COM objects of the provider DLL | |
| `MC<module>` | symmetry sets and state constraints for TLC | the configurations |
| `<module>Proofs` | theorems about the module; `ServerTablesProofs` holds those of ClientStatus and UserAccounts, `CredentialProviderProofs` those of ProviderLifecycle and OtpLogon | |

How state and actions correspond to the code:

- **ClientRegistry.** `clients` is the table, `nextAgentID` the counter, `pc`,
  `row`, `next`, `otp` are the local variables of the handlers' goroutines and
  of the status loop (`Monitor`), `config` is each device's saved
  `client_config.json`, `session` its connection. `Register` is the handler up
  to the lookup, then `GenIDs`, `SaveClient`, `ReplyRegister` follow the
  handler's calls one by one, since other goroutines run between them.
  LoadClients is two steps: the query (in `RequestOtp` and `MonitorLoad`) and
  the assignment of the counter (`AssignNext`). `DeleteLookup` and
  `DeleteClient` are the two statements of a DELETE request. Client ids are
  numbers in the order of generation, since GenClientID returns a fresh UUID.
  Ghosts: `deleted` and `unsaved`, the rows that were deleted and those whose
  SaveClient failed; under ClientDirectory the client ids of the table and of
  `deleted` are the ones that were given out. `LoadsApart` says that no
  LoadClients is between query and assignment while a registration is between
  GenAgentID and the end of SaveClient; `Calm` adds that ids fit in three digits.
- **ClientStatus.** Time is kept as ages capped at `Stale`; one tick ages every
  copy of a time, wherever it is held. The status loop is three steps (load,
  compute, write), an assign request three (find, read again, update).
  `Register` is one step here and may reuse an agent id, since ClientRegistry
  shows that it may. Under DeviceTable a row is its ids and its user.
- **RequestLoop.** `caller` is where a goroutine is in Agent.Request
  (`offering` on the unbuffered channel, `waiting` in the select), `loop` where
  StartRequestLoop is, `respChan` the buffered channel of each request.
  Requests are numbered; a frame is the number of its request. `cipherReady` says
  whether InitCipher has run in the client's process; it keeps its first value.
- **LogShipping.** A file is a sequence of units: the number of an event and
  `EOL`. A line that is read before its end is written, a buffer that Read did
  not fill and a position inside a line all exist. `unsent` is what is left of the
  buffer of a round: SplitLines and the loop over its result are one operator per
  line (`FirstLine`, `OtherLines`, `SkipEmpty`), taken when the line's turn comes,
  so that no list of lines has to be built first. Of RequestLoop it keeps what the
  watcher sees.
- **LogArchive.** Files are numbered as the operating system knows them behind
  their names, so a handler writes on to a renamed file. `[torn |-> e]` is a
  part of an entry.
- **UserAccounts.** A row has the columns that differ in how they are written:
  `password`, `info` (email and full name), `role`. `request` holds the stale
  copies of change-password and update-info between read and write. Under
  AccountTable a row is its id, password and role.
- **ApiSessions.** `accounts` and `devices` are the two tables, with the columns
  the sessions read; one action is one statement. `Elsewhere` takes any step of
  AccountTable or DeviceTable: since UserAccounts and ClientStatus implement
  them, these are the steps that the other requests, the TCP server and a
  restart may take, so what is shown here holds over those modules. `call[s]` is
  the browser's request with the local variables of its handler (`rows` still to
  load, `logs` loaded); `phase` is where the handler is. Ghosts: `lapsed` in the
  claims, `ever` and `always` in a request (the rows concerned that existed at
  some, and at every, moment of it), and `lost` (did a statement, a scan or a
  load fail on its way). A query may return any part of the table: rows that
  cannot be scanned are skipped (client_repository.go:48).
- **Dashboard.** A call is a fetch with the arguments its continuation uses;
  `ServeRead`, `ServeChange` and `Fail` give it its answer, `ShowLog`,
  `HaveClients`, ... are the continuations. The API's tables are versions, so
  that an older answer can be told from a newer one. Ghosts: `asked`, `acked`,
  and `overtaken`, the views in which a later load ended before an earlier one.
- **OtpLogon.** `pc` follows an attempt through GetSerialization and the pipe to
  the verdict that the tile shows. A code is the number of its time step. `wire`
  is the request on the client's connection, `live` whether its caller still
  waits. What follows the comparison is one step with the outcomes `accepted`
  and `notPacked`.
- **ProviderLifecycle.** Objects are named by their address, so a name is used
  again after its object is deleted. One call of LogonUI is one step. Counts are
  kept as the code keeps them; who holds what is kept beside them and the
  properties relate the two.

`PROJECT.json` lists for each definition the lines it stands for; definitions
marked external (a broken connection, a cleared event log, an access violation)
are events the code meets but does not contain.

## 3 Runs

Constants are as small as the interesting case allows. "States" are distinct
states.

| Run | Configuration | States | Bounds and why they are enough |
|---|---|---|---|
| `registry` | `Registry.cfg` | 2.5 million | 2 connections, 2 devices, 3 registrations, 1 failed statement or 1 restart. A reused id needs two registrations and a LoadClients between the steps of one; the third registration comes after the damage. `OneDisturbance` leaves out executions with both a failure and a restart |
| `registry_calm` | `RegistryCalm.cfg` | 2.7 million | ThreeDigitMax 2 stands for 999, so that the last three-digit id is reached; 2 connections, 2 devices, 4 registrations (an id is given, freed, given again and reused), 1 failed statement and 1 restart |
| `registry_race` | `RegistryRace.cfg` | violation | as `registry`, without failures |
| `status` | `Status.cfg` | 594 thousand | 1 agent id (statements touch rows by key, ids do not influence each other), 3 registrations of it, window of one tick, 1 restart, 1 administrator |
| `request` | `Request.cfg` | 295 thousand | 3 goroutines, 3 calls: one on the wire, one blocked behind it, one late answer in between. The initial states are two: a client with its cipher, and one without, as this source builds it |
| `shipping` | `Shipping.cfg` | 431 thousand | 3 events, 1 clearing of the log, 1 crash at any step |
| `archive` | `Archive.cfg` | 328 thousand | 2 handlers, 3 messages, 2 rotations, 1 failed Write, 1 restart, pages of one entry; `ReadsOrRotates` stops exploring once a rotation meets an open reader, `FewDisruptions` once a third rotation, restart or failure has happened |
| `accounts` | `Accounts.cfg` | 86 thousand | 2 names, 2 values per column, 1 pending request (a stale copy meets any sequence of other requests), 2 rows created, 2 starts. The view `WithoutCurrent` leaves out the ghost `current`, which no action reads and neither property mentions |
| `logon` | `Logon.cfg` | 123 thousand | 2 attempts, 2 time steps, 1 crash of the client |
| `lifecycle` | `Lifecycle.cfg` | 873 thousand | 2 providers, 2 tiles, 2 arrays and an empty one, 2 references to an object, 1 lock, 1 crash of LogonUI |
| `sessions` | `Sessions.cfg` | 929 thousand | 1 browser (all others are in `Elsewhere`), 2 names, 2 agent ids, 2 accounts and 2 client ids given out. Lifetime 1 and requests of 1 each are exhausted at time 3, and with a period of 2 a request meets the boundary. `OneAccount`: only the account of the browser's own name comes and goes, the other name is there for devices to be assigned to. `TakenAtOnce`: an answer is judged when it is given |
| `dashboard` | `Dashboard.cfg` | 118 thousand | 2 agents, 2 pages, 5 calls of a page: the two fetches that show the devices, an assignment, and the two that show them again; in the log, two under way and those that overtake them; 1 change of a table by anybody. `LastCallReloads` keeps the fifth call for a page on which a change was acknowledged. `Apart` explores the log table and the other tables one after the other, since they share nothing but the bound; no answer and no continuation leads out of the two constraints, so liveness is judged on complete behaviours |

Runs with liveness properties use no symmetry. Deadlock is not checked in
`registry_calm`, `request`, `archive`, `sessions` and `dashboard`: once the bound
on ids, calls, messages or time is reached their models may come to rest. All others never stop, and
TLC checks that.

Further configurations, each with one property, show the disagreements of
section 5: `RegistryDevice`, `RegistryOtp`, `RegistryDigits`, `StatusReuse`, `RequestCipher`,
`ShippingNul`, `ArchiveSaved`, `ArchiveTorn`, `ArchiveLost`, `LogonIncorrect`,
`LogonTimeout`, `AccountsPassword`, `ShippingBreak`. Four more need no
configuration of their own, only another property in that of the run:
`CountedTileExists` and `LoadedForFilters` in `Lifecycle.cfg`,
`ViewIsOfOwnAccount` in `Sessions.cfg`, `LogOfFilter` in `Dashboard.cfg`.
They are started like the others:
`tlc -config StatusReuse.cfg MCClientStatus.tla`.

Where `TypeOK`, and `KeysUnique` of the registry and `WireIsSerial` of the request
loop, are proved for all constants (section 7), the runs leave them out.

## 4 Properties and what they show

Each passing property is broken by a plausible fault in the code; the faults
are written out as variants beside the definitions they replace (`mutants` in
`PROJECT.json`).

- `AgentIdsDense`, `RowsAreStable` (registry): whatever the race of LoadClients
  does to the counter, ids stay dense, and a row is lost only to a row with the
  same agent id.
- `RegistrationKept`, `OtpOfOwnClient`, `ImplementsDirectory` (registry_calm):
  what the registry is worth when LoadClients and registrations stay apart and
  ids fit in three digits; registrations may overlap each other, and statements
  fail, clients are deleted, answers are lost and the server restarts as they
  like. A registration then lasts until it is deleted, unless its own SaveClient
  failed. The directory is weaker than README.md:53 reads: a client id is given out
  once for ever, but an agent id only belongs to one client *at a time*, for that
  of a deleted client is given out again (`OtpMatchesMapping` in section 5).
- `StatusHasEvidence`, `LastSeenNotAhead`, `ImplementsDevices`,
  `SilentGoesOffline`, `GreeterGoesOnline` (status): three writers with stale
  copies invent no sighting and date none into the future; to everybody else
  each of their steps enrols, assigns or removes one device or does nothing, so
  no row is revived and no step changes the users of two devices. Which of two
  overlapping assignments stands in the end is left open: DeviceTable allows any
  step to assign any user.
- `AnswerMatches`, `ErrorIsFinal`, `SilentWithoutCipher`, `ImplementsSerialCalls`,
  `EveryCallReturns` (request): without request numbers, the serial loop alone
  keeps answers and calls together. An error is final: when one call was given one, no call
  accepted after it is answered, be it that the connection broke (the client
  dials only at its start) or that the cipher is missing.
  `SilentWithoutCipher`: where the cipher is missing, the loop ends each request
  before its first write, so nothing is sent in the clear.
- `PositionCovers`, `OncePerRun`, `EveryEventArrives` (shipping): at least once across crashes, at most once per run, in order.
- `AnsweredIsReadable`, `PagingSkipsNothing`, `PagesMakeTheWhole`,
  `RotationAccounts` (archive). The last is about the exported RotateLog, which no
  program of the repository calls yet. The all-agents view may
  show an entry on two pages while messages arrive (newest first); the view of
  one agent may not.
- `ValuesWereAsked`, `ImplementsAccounts` (accounts): stale writes stay within
  the name they were meant for, also when it was deleted and created again, and
  an account that was removed never comes back.
- `OldClaimsLapse` (sessions): claims may be used after the table has ceased to
  confirm them, but less than `Lifetime + 2 MaxWait` later. The two waits are
  the login that had already read its row and the request that was already
  admitted.
- `ViewWasAssigned`, `ViewIsComplete` (sessions): between the check and the load
  a device may go to somebody else, and its log is then shown to its former
  user; but it was the user's during the request, and whatever was the user's
  throughout is there. Answers on the way of which a statement, a scan or a load
  failed are excepted: the code skips what is lost without a word
  (client_repository.go:48, log_handler.go:70).
- `CodeIsUsable` (sessions): the code and its seconds come from one reading of the
  clock, so at a boundary neither an expired code nor a wrong second is shown.
- `LogShowsChosen`, `OwnChangesShown`, `LoadingEnds` (dashboard). The first two
  speak of a table at rest that was not overtaken: when a later load ends before
  an earlier one, the page ends up with the older answer, and nothing in it
  notices. That the buttons under a log use the variable and not the agent they
  were made for is what makes `LogShowsChosen` true of the administrators' page;
  on the users' page the agent may differ from the filter (section 5).
- `AcceptedIsFresh`, `CurrentCodeIsRight`, `EveryAttemptEnds` (logon).
- `CountsAreHolders`, `LoadedForObjects`, `TileOfPresentUsers` (lifecycle).

## 5 Disagreements between code and documentation

Checked as a run that ends in a violation, with the quoted line in
`PROJECT.json` (`findings`):

- `registry_race`: two devices can hold one agent id (manager_agent.go:60
  against src/README.md:49, :55).

### Other disagreements

Shown by the further configurations, named in parentheses, or by the run named
there:

- `NewLinesSent` (ShippingBreak): after a break the watcher moves its position
  past lines that were never sent (main.go:172 against src/README.md:46).
- `PasswordChangeSticks` (AccountsPassword): an update of personal data that
  overlaps a change of the password writes the old one back (user_handler.go:273
  against src/README.md:59 and the answer at user_handler.go:177).
- `ViewIsOfOwnAccount` (sessions): the comments at jwt.go:49-50 say that
  `user_id` is used for every query and `username` for display only; the views
  filter by `username` (client_service.go:169), so an account that is removed
  and created again under its name shows the devices of its predecessor, also
  to tokens of the predecessor.
- `LogOfFilter` (dashboard): on the users' page a page button made for one
  device, clicked while the log of another is loading, shows the former under
  the filter of the latter (dashboard_user.js:170-177).
- `RegistrationKept` (RegistryDigits): only ids of exactly three characters count
  for the next one (manager_agent.go:54), so with the thousandth client the
  counter falls back, and a registration evicts a present client although no
  LoadClients interferes (src/README.md:49).
- `OneRowPerDevice` (RegistryDevice): FindClientByDevice names a column that
  `CREATE TABLE` lacks and the error is dropped (manager_agent.go:72,
  tcpserver.go:124), so each registration of a device adds a row.
- `OtpMatchesMapping` (RegistryOtp): the id of a deleted client is given out
  again, and the old device's request is answered for the new client
  (src/README.md:53).
- `OnlineClientGreeted` (StatusReuse): with a reused id a client that never
  said hello is shown online (tcpserver.go:37, against :56).
- `RequestsReachServer` (RequestCipher): `crypto.InitCipher` is called by the
  server only (tcpserver.go:68); a client built from this source sends no
  request (aes.go:22, against src/README.md:45). RequestLoop models both, a client
  with its cipher and one without; LogShipping and OtpLogon take the cipher to be
  ready, since otherwise there is nothing to model.
- `OnlyLoggedText` (ShippingNul): when the event log shrinks between Stat and
  Read, zero bytes are sent (main.go:162).
- `ReceivedIsSaved` (ArchiveSaved): "log received" is answered although the
  archive could not be written (tcpserver.go:222, src/README.md:54).
- `LoadReadsAll` (ArchiveTorn): one torn entry hides all entries from then on
  (logcollector.go:30, against :15).
- `RotationKeepsEntries` (ArchiveLost): `os.Create` truncates what a handler
  wrote since the rename (logcollector.go:66, against :59).
- `IncorrectIsIncorrect` (LogonIncorrect): an error text on the pipe is taken
  for the code, and a right code is called incorrect (ipc_windows.go:77).
- `PipeAnswersInTime` (LogonTimeout): the 10 s of ipc_windows.go:84-86 do not
  cover the wait for the request loop (agent.go:133).
- `CountedTileExists` (lifecycle): GetCredentialCount reports one tile
  (CSampleProvider.cpp:172) also when enumeration produced none, and
  GetCredentialAt (:188) dereferences the null pointer; the comment at :150
  says the count is "the number of tiles that we wish to show".
- `LoadedForFilters` (lifecycle): the filter is not counted
  (CSampleProviderFilter.cpp:5) in what Dll.cpp:18 calls the "global dll
  reference count", so the DLL can be freed under it.

Seen while modelling, without a run: the page deletes a device by POST
(dashboard_admin.js:684) where the API has DELETE (api.go:49), and sends a new
password as `password` (:594) where the API reads `new_password`
(user_handler.go:156), so both always fail; the branch that the comment at
dashboard_admin.js:87 describes is never taken, since the parameter has a
default.

## 6 Fairness

- **ClientStatus**: `WF(Monitor)`. The status loop is `for { ...; sleep }`
  around statements that return; nothing is assumed of devices, requests or the
  clock.
- **RequestLoop**: weak fairness of the loop's goroutine, of the server's
  handler and of each caller's select; strong fairness of `Accept(c)`, since a
  Go channel serves blocked senders first come, first served, so a sender that
  the loop is ready for again and again is not passed over for ever. The
  connection may break at any time and need not.
- **LogShipping**: weak fairness of the watcher, which the service manager
  starts and which never returns, and of the server for what it has received.
  Logging, crashes, breaks and deletions are not fair.
- **OtpLogon**: weak fairness of the threads of tile and client, strong fairness
  of `Take` for the reason above; `FairSpec` adds a server that answers,
  `SilentServerSpec` does not.
- **Dashboard**: weak fairness of the answer to each fetch and of its
  continuation: a browser settles every fetch, with an answer or an error, and
  runs what waits for it. Clicks and changes elsewhere are not fair.
- ClientRegistry, LogArchive, UserAccounts, ApiSessions and ProviderLifecycle claim safety
  only and assume no fairness.

## 7 Proofs

The theorems hold for every value of the constants that satisfies the named
assumption of the module. Each follows from an inductive invariant that TLC
checked before it was proved.

- **ClientRegistryProofs** - `TypeCorrect`, `KeysStayUnique`,
  `AgentIdsStayDense`, `RowsStayStable` for all schedules,
  from `RegistryInv`. Unique keys alone are inductive (INSERT OR REPLACE does
  it). Density needs `CountersDense`: also every stale value that some goroutine
  is about to assign to the counter is at most one above the registrations.
  For the calm schedule,
  `CalmKeepsRegistrations`, `CalmOtpOfOwnClient` and `CalmImplementsDirectory`
  from `CalmInv`, whose core is `NextAgentIDFresh`: the counter, and every value
  about to be assigned to it, is above all ids of the table, and the ids of
  registrations under way are new and pairwise different, although several run at
  once. The directory needs `ClientIdsFresh` too: a client id about to be saved
  is neither in the table nor among the deleted ones. Both rest on lemmas
  about the operators of ClientStore: what `InsertOrReplace` and `DeleteByID`
  preserve, and that `NextAfter` is above every three-digit id.
- **RequestLoopProofs** - `TypeCorrect`, `AnswersMatch`, `WireStaysSerial`
  from `LoopInv`: an answer on the stream is that of the request the loop reads
  for, a channel holds only its own answer, calls and accepted requests
  correspond. `SilentClient` adds `SilentInv`: without a cipher the loop gives
  every request back before it writes. `ErrorsAreFinal`, with a cipher or without,
  adds `ErrorInv`: once the channel of a request holds an error, the connection is
  down or there is no cipher, no answer is on the stream, and the channels of the
  requests accepted later hold errors or nothing. `CallsAreSerial` is the refinement of
  SerialCalls; it needs `OrderInv`, that the server has not acted on the request
  that is written next.
- **ServerTablesProofs** - the two tables on which ApiSessions is built. Of
  ClientStatus: `TypeCorrect`, `StatusesHaveEvidence`,
  `SightingsNotAhead`, `DevicesImplemented` from `StatusInv`. Of every copy of a
  row, in the table, in the loop's snapshot or in an assign request, it says that
  a registration gave its ids, that its status has evidence, and that its
  sighting is no younger than the last hello (`Sound`); client ids are given once
  (`HoldersNumbered`) and every time in `helloLastSeen` is from a hello
  (`HelloIsEvidence`). The refinement of DeviceTable needs in addition that an
  assign request holds a user.
  Of UserAccounts: `UsersTypeCorrect`, `OnlyAskedValues` from `AccountInv`, whose
  second half says that the copies in pending requests, too, hold only what was
  asked for under their name; `AccountsImplemented` is the refinement of
  AccountTable: the write of a stale copy maps to `Change` when the row still
  exists and to a stutter when it does not.
- **ApiSessionsProofs** - `TypeCorrect`, `ClaimsLapse`, `ViewsWereAssigned`,
  `ViewsAreComplete`, `CodesAreUsable` from `SessionsInv`: a token expires at
  most `Lifetime + MaxWait` after its row was read, a request began before that,
  what it has read is in `ever`, and what is in `always` is in what it has read.
  The step of a code is arithmetic of `\div`, from the lemmas `DivFacts` and
  `StepOf`.
- **DashboardProofs** - `TypeCorrect`, `LogsAsChosen`, `OwnChangesStayShown`
  from `DashboardInv`. The two properties speak of a page at rest only; what is
  inductive speaks of the latest load of a view that nothing has overtaken: it
  is the one last asked for (`LogSound`), or it sees every acknowledged change
  once its answer is known (`TableSound`). If it ends without overtaking
  another it was the only one, and the table shows it. `CallsFit` says which
  answers each kind of call can hold.
- **CredentialProviderProofs** - of ProviderLifecycle: `TypeCorrect`,
  `CountsStayHolders`, `LoadedWhileUsed`, `TilesOfPresentUsers` from
  `LifecycleInv`. It adds that `g_cRef` is the number of locks, providers and
  tiles (`DllCount`), that a deleted object left no pointer behind
  (`DeadHoldNothing`; without it a new object at the same address would inherit
  one), that no two providers share a tile (`TilesUnshared`), and that between
  SetUsageScenario and GetCredentialCount there is a mark
  (`MarkedUntilCounted`). `OnePointCount` counts sets that differ in one element
  and serves all four counts. Of OtpLogon: `LogonTypeCorrect`, `OnlyFreshCodes`, `CurrentCodesAreRight`
  from `LogonInv`: a call waits exactly while its own request is on the wire
  (`CallHasWire`, `WireHasCall`), so an answer is not older than the attempt it
  is given to.
- **LogShippingProofs** - `TypeCorrect`, `PositionsCovered`,
  `ArchivedOncePerRun` from `ShippingInv`, for any number of events, clearings and
  crashes. `PositionCovers` speaks of two saved positions; what is inductive
  speaks of the point in between that the watcher has reached (`Reached`: the
  size of the round less what is left of the buffer): everything before it was
  sent (`PassedIsSent`). That needs to know that what is left of the buffer is
  still the end of the log up to that size (`RestOf` in `InLog`), also after the
  log has grown. `OneCopyPerRun` counts the copies of an event in the archive and
  on the wires of this and of earlier runs: at most one per run that is over, and
  one more only behind `Reached`. For the order within the first run,
  `FirstRunInOrder` adds that at most one message is on its way, that what is
  archived was logged before it, and that both lie before `Reached`. The lemmas:
  taking a line off the rest of a log leaves a rest (`RestOfRest`, `LineTaken`),
  skipping line ends passes no event (`EmptySkipped`), and the counts change by
  one when a message goes from a wire to the archive (`OneMoreArchived`,
  `OneLessOnWay`) and not at all when a connection is given up (`TogetherOnWay`).
- **LogArchiveProofs** - `TypeCorrect`, `AnsweredReadable`, `PagingComplete`,
  `PagesTheWhole`, `RotationAccounted` from `Inv`, for any number of connections,
  agents and messages and any page size. `Inv` says of the files that an entry is
  in one place of one of them (`StoredOnce`) and, as long as no Write failed, that
  what was written is whole and either there or truncated (`WrittenIsKept`); of a
  reader it says what he has seen of the selection as it is *now* (`HasSeen`):
  of all logs, which are turned newest first, everything that was there when he
  began and is newer than the next page; of one agent's, the beginning of the
  selection up to the next page. Entries that arrive move the pages of the first
  kind and not of the second, hence the two halves. `PagesMakeTheSelected` is
  about the operators alone: for *any* logs, filter and page size the pages put
  together are the unpaged answer. Selecting is a choice of positions, and the
  lemmas `Ranks`, `KthOfRank` and `Pick...` say that it keeps order and forgets
  and repeats nothing. Putting pages together is a fold; instead of an induction
  `PagesOf` takes the least page after which the two would differ (`LeastBelow`,
  from the library's theorem that inclusion of finite sets is well-founded) and
  one step of the fold (`FlattenSteps`).

Model-checked only: liveness (`SilentGoesOffline`, `GreeterGoesOnline`,
`EveryCallReturns`, `EveryEventArrives`, `EveryAttemptEnds`, `LoadingEnds`),
since ENABLED and fairness are out of the prover's reach. Every invariant and
every refinement that a run checks is a theorem as well. The properties named
under "disagreements" have counterexamples, not proofs.

## 8 Assumptions and what is left out

- SQLite executes one statement at a time; a statement either happens or fails,
  and a query that happens may skip rows it cannot scan (ApiSessions).
- `CalmSpec` assumes that no registration is served before the status loop has
  loaded the table once after a start. The code does not see to it: until then
  `nextAgentID` is 1 (manager_agent.go:26), and a registration evicts the client
  with the lowest id.
- GenClientID returns a UUID that was not used before.
- TCP delivers what it delivers in order and without duplicates; a broken
  connection stays broken, since the client dials only at its start.
- Clients follow the client program; messages that it never sends, such as a
  registration with an invented id, are not explored.
- Codes of different time steps differ. Clocks: only the server's matters to
  the comparison; what the user reads is the code of some step.
- LogShipping and OtpLogon take the cipher to be ready (section 5,
  `RequestsReachServer`).
- LogonUI calls the provider from one thread and keeps the contract of
  credential providers: SetUserArray after a SetUsageScenario that succeeded,
  then GetCredentialCount, then GetCredentialAt; UnAdvise before a tile's last
  release. Its callback objects support ICredentialProviderCredentialEvents2
  wherever SetUserArray exists. `_fRecreateEnumeratedCredentials` is
  uninitialised after construction and starts with either value.
- `NULL` or `NONE` is none of the values it stands for the absence of, and the marks of a
  line's end, an error or an unfilled buffer are none of the values they appear
  among (`AccountAssumption`, `RowAssumption`, `NullAssumption`, `LogonAssumption`,
  `UnitAssumption`, `ShippingAssumption`).
- A request of the API, a login included, takes at most `MaxWait`; the server has
  no such limit, and without one nothing could be said of old claims.
- Tokens cannot be forged; the server keeps its secret for as long as it runs.
- Bounds (`Max...`) stop the counters that would make the models infinite; they
  are guards of the actions they limit and parameters of the theorems.
- Not modelled: the deprecated Agent.Send and Receive, WatchLogAndSend,
  slice expressions that panic on page numbers
  the dashboard does not send, password hashing, JSON and wording.

## 9 Plan

1. **Composition**: OtpLogon and LogShipping over RequestLoop (through
   SerialCalls) instead of their own abstraction of it, with the refinement
   proved.
2. **ApiSessions over the tables themselves**: `AccountsImplemented` and
   `DevicesImplemented` are proved, so what is left is the rule that lets
   `Elsewhere` be replaced by the two modules in one specification.
3. **Tile display**: only if LogonUI's calls turn out to overlap; joined with
   OtpLogon, whose `Submit` would then take what the field holds.
