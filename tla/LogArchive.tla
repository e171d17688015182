------------------------------ MODULE LogArchive ------------------------------
(***************************************************************************)
(* The server's archive of log messages: the log handlers of the TCP       *)
(* connections append to one file, the HTTP API loads the file and shows   *)
(* it page by page, and RotateLog replaces it.                             *)
(*                                                                         *)
(* A file is a sequence of units: an entry is the JSON text of one         *)
(* ArchiveLogEntry, [torn |-> e] a part of it, and EOL the newline, which  *)
(* the handler writes with a call of its own.  Files are kept by number,   *)
(* as an operating system keeps them behind their names: a handler goes on *)
(* writing to the file it opened after that file has been renamed.         *)
(***************************************************************************)
EXTENDS Integers, SequencesExt

CONSTANTS Conns,         \* TCP connections with a handler each
          AgentIDs,      \* agents that send log messages
          PageSize,      \* entries per page the reader asks for
          EOL,           \* the newline after an entry
          ERROR,         \* the result of a load or a page that fails
          NULL,          \* the absent value
          MaxEntries,    \* bound on the log messages received
          MaxFaults,     \* bound on failed or partial file operations
          MaxRotations,  \* bound on calls of RotateLog
          MaxRestarts    \* bound on restarts of the server

ASSUME ArchiveAssumption ==
    /\ PageSize \in Nat \ {0}
    /\ {MaxEntries, MaxFaults, MaxRotations, MaxRestarts} \subseteq Nat
    /\ NULL \notin AgentIDs \cup Nat

VARIABLES
    files,      \* the contents of the files, oldest first
    main,       \* the number of the file cfg.ArchiveFile names, or NULL
    old,        \* the number of the file <archive>.old names, or NULL
    pc,         \* where the log handler of each connection is
    entry,      \* the entry it archives
    fd,         \* the file it has open
    rotating,   \* where RotateLog is
    reader,     \* somebody who turns the pages of the archive
    received,   \* how many messages were received
    acked,      \* the entries answered with "log received"
    removed,    \* ghost: the .old files that RotateLog removed
    truncated,  \* ghost: entries in the file that RotateLog created
    faults, rotations, restarts

handlerVars == <<pc, entry, fd>>
rotateVars  == <<rotating, old, removed, truncated, rotations>>
ghostVars   == <<received, acked>>
vars == <<files, main, handlerVars, rotateVars, reader, ghostVars, faults, restarts>>

Entry  == [id : 1..MaxEntries, agent_id : AgentIDs]
Unit   == Entry \cup {EOL} \cup [torn : Entry]
Filter == AgentIDs \cup {NULL}
Idle   == [turning |-> FALSE]

ASSUME UnitAssumption ==
    {EOL, NULL} \cap (Entry \cup [torn : Entry]) = {} /\ ERROR \notin Seq(Entry)

TypeOK ==
    /\ files \in Seq(Seq(Unit)) /\ Len(files) <= 1 + MaxRotations
    /\ main \in DOMAIN files \cup {NULL}
    /\ old \in DOMAIN files \cup {NULL} /\ (old # NULL => old # main)
    /\ pc \in [Conns -> {"idle", "open", "entry", "newline", "answer"}]
    /\ entry \in [Conns -> Entry \cup {NULL}]
    /\ fd \in [Conns -> DOMAIN files \cup {NULL}]
    /\ \A c \in Conns : pc[c] \in {"entry", "newline"} => fd[c] # NULL
    /\ rotating \in {"no", "rename", "create"}
    /\ \/ reader = Idle
       \/ reader \in [turning : {TRUE}, filter : Filter, page : Nat,
                      shown : Seq(Entry), goal : SUBSET Entry, last : BOOLEAN]
    /\ received \in 0..MaxEntries
    /\ acked \subseteq Entry /\ removed \subseteq DOMAIN files /\ truncated \subseteq Entry
    /\ faults \in 0..MaxFaults
    /\ rotations \in 0..MaxRotations /\ restarts \in 0..MaxRestarts

Init ==
    /\ files = <<>>
    /\ main = NULL /\ old = NULL
    /\ pc = [c \in Conns |-> "idle"]
    /\ entry = [c \in Conns |-> NULL]
    /\ fd = [c \in Conns |-> NULL]
    /\ rotating = "no"
    /\ reader = Idle
    /\ received = 0
    /\ acked = {} /\ removed = {} /\ truncated = {}
    /\ faults = 0 /\ rotations = 0 /\ restarts = 0

-----------------------------------------------------------------------------
(* Reading: package logcollector and the log service. *)

\* The elements of s at the positions in S, in their order: the k-th of S is the
\* one up to which S has k elements.
Rank(S, i) == Cardinality({j \in S : j <= i})
Kth(S, k)  == CHOOSE i \in S : Rank(S, i) = k
Pick(s, S) == [k \in 1..Cardinality(S) |-> s[Kth(S, k)]]

EntriesIn(units) == Pick(units, {i \in DOMAIN units : units[i] \in Entry})

\* LoadArchiveLogs decodes one JSON value after the other, with or without
\* newlines between them; a value it cannot decode makes the whole load fail,
\* as does a file that is not there.
LoadArchiveLogs ==
    IF main = NULL \/ \E u \in Range(files[main]) : u \in [torn : Entry]
    THEN ERROR ELSE EntriesIn(files[main])

OfAgent(logs, agentID) == Pick(logs, {i \in DOMAIN logs : logs[i].agent_id = agentID})

\* LogService.GetAllLogs and GetLogsByAgentID, in the order of the file.
GetAllLogs(logs) == logs
GetLogsByAgentID(logs, agentID) == OfAgent(logs, agentID)

\* Variant for a mutation run: pages count from 0.
SliceFromZero(logs, page, pageSize) ==
    LET start == page * pageSize
    IN  IF start > Len(logs) THEN <<>>
        ELSE SubSeq(logs, start + 1, Min({start + pageSize, Len(logs)}))

\* logs[start:end] of the two paging functions.  A slice with a negative index
\* or with its bounds in the wrong order panics, and the request fails.
Slice(logs, page, pageSize) ==
    LET start == (page - 1) * pageSize
        end   == Min({start + pageSize, Len(logs)})
    IN  IF start > Len(logs) THEN <<>>
        ELSE IF start < 0 \/ end < start THEN ERROR
        ELSE SubSeq(logs, start + 1, end)

\* Variant for a mutation run: the slice is not reversed.
OldestFirst(logs, page, pageSize) == Slice(logs, page, pageSize)

\* GetLogsPaged: newest first.
GetLogsPaged(logs, page, pageSize) == Slice(Reverse(logs), page, pageSize)

\* GetLogsPagedByAgentID: not reversed.
GetLogsPagedByAgentID(logs, agentID, page, pageSize) ==
    Slice(OfAgent(logs, agentID), page, pageSize)

\* GetLogsPagedHandler: the query parameter agent chooses.
PageOf(logs, filter, page, pageSize) ==
    IF filter = NULL THEN GetLogsPaged(logs, page, pageSize)
    ELSE GetLogsPagedByAgentID(logs, filter, page, pageSize)

Selected(logs, filter) ==
    IF filter = NULL THEN GetAllLogs(logs) ELSE GetLogsByAgentID(logs, filter)

-----------------------------------------------------------------------------
(* The log handler: request type "log" of an agent that AgentExists knows.  *)

Write(f, units) == files' = [files EXCEPT ![f] = @ \o units]

Receive(c, a) ==
    /\ pc[c] = "idle"
    /\ received < MaxEntries
    /\ received' = received + 1
    /\ entry' = [entry EXCEPT ![c] = [id |-> received + 1, agent_id |-> a]]
    /\ pc' = [pc EXCEPT ![c] = "open"]
    /\ UNCHANGED <<files, main, fd, rotateVars, reader, acked, faults, restarts>>

\* os.OpenFile with O_CREATE: a missing file is created.
OpenArchive(c) ==
    /\ pc[c] = "open"
    /\ IF main = NULL
       THEN /\ files' = Append(files, <<>>)
            /\ main' = Len(files) + 1
       ELSE UNCHANGED <<files, main>>
    /\ fd' = [fd EXCEPT ![c] = main']
    /\ pc' = [pc EXCEPT ![c] = "entry"]
    /\ UNCHANGED <<entry, rotateVars, reader, ghostVars, faults, restarts>>

\* An error of OpenFile is dropped.
OpenFails(c) ==
    /\ pc[c] = "open"
    /\ faults < MaxFaults
    /\ faults' = faults + 1
    /\ pc' = [pc EXCEPT ![c] = "answer"]
    /\ UNCHANGED <<files, main, entry, fd, rotateVars, reader, ghostVars, restarts>>

\* Variant for a mutation run: the file is opened without O_APPEND, and a write
\* goes to its start.
WriteAtStart(c) ==
    /\ pc[c] = "entry"
    /\ files' = [files EXCEPT ![fd[c]] = IF @ = <<>> THEN <<entry[c]>>
                                         ELSE [@ EXCEPT ![1] = entry[c]]]
    /\ pc' = [pc EXCEPT ![c] = "newline"]
    /\ UNCHANGED <<main, entry, fd, rotateVars, reader, ghostVars, faults, restarts>>

\* f.Write(b): O_APPEND makes one call atomic against the other handlers.
WriteEntry(c) ==
    /\ pc[c] = "entry"
    /\ Write(fd[c], <<entry[c]>>)
    /\ pc' = [pc EXCEPT ![c] = "newline"]
    /\ UNCHANGED <<main, entry, fd, rotateVars, reader, ghostVars, faults, restarts>>

\* A full disk takes only a part of the entry; the error is dropped.
WriteEntryFails(c) ==
    /\ pc[c] = "entry"
    /\ faults < MaxFaults
    /\ faults' = faults + 1
    /\ Write(fd[c], <<[torn |-> entry[c]]>>)
    /\ pc' = [pc EXCEPT ![c] = "newline"]
    /\ UNCHANGED <<main, entry, fd, rotateVars, reader, ghostVars, restarts>>

\* f.Write("\n") and f.Close().
WriteNewline(c) ==
    /\ pc[c] = "newline"
    /\ Write(fd[c], <<EOL>>)
    /\ fd' = [fd EXCEPT ![c] = NULL]
    /\ pc' = [pc EXCEPT ![c] = "answer"]
    /\ UNCHANGED <<main, entry, rotateVars, reader, ghostVars, faults, restarts>>

\* Variant for a mutation run: the entry is cleared before it is used.
AnswerCleared(c) ==
    /\ pc[c] = "answer"
    /\ entry' = [entry EXCEPT ![c] = NULL]
    /\ acked' = acked \cup {entry'[c]}
    /\ pc' = [pc EXCEPT ![c] = "idle"]
    /\ UNCHANGED <<files, main, fd, rotateVars, reader, received, faults, restarts>>

\* The answer is "log received" in every case.
Answer(c) ==
    /\ pc[c] = "answer"
    /\ acked' = acked \cup {entry[c]}
    /\ entry' = [entry EXCEPT ![c] = NULL]
    /\ pc' = [pc EXCEPT ![c] = "idle"]
    /\ UNCHANGED <<files, main, fd, rotateVars, reader, received, faults, restarts>>

\* The server ends between any two steps and is started again.
RestartServer ==
    /\ restarts < MaxRestarts
    /\ restarts' = restarts + 1
    /\ pc' = [c \in Conns |-> "idle"]
    /\ entry' = [c \in Conns |-> NULL]
    /\ fd' = [c \in Conns |-> NULL]
    /\ rotating' = "no"
    /\ UNCHANGED <<files, main, old, removed, truncated, rotations, reader,
                   ghostVars, faults>>

-----------------------------------------------------------------------------
(* RotateLog, which nothing in the program calls yet.                       *)

StoredIn(f) == IF f = NULL THEN {} ELSE Range(EntriesIn(files[f]))

\* os.Remove(<archive>.old), whose error is dropped.
RotateRemove ==
    /\ rotating = "no"
    /\ rotations < MaxRotations
    /\ rotations' = rotations + 1
    /\ removed' = removed \cup ({old} \ {NULL})
    /\ old' = NULL
    /\ rotating' = "rename"
    /\ UNCHANGED <<files, main, handlerVars, truncated, reader, ghostVars,
                   faults, restarts>>

\* Variant for a mutation run: the archive is copied instead of renamed.
RotateByCopy ==
    /\ rotating = "rename"
    /\ main # NULL
    /\ files' = Append(files, files[main])
    /\ old' = Len(files) + 1
    /\ rotating' = "create"
    /\ UNCHANGED <<main, handlerVars, removed, truncated, rotations, reader,
                   ghostVars, faults, restarts>>

\* os.Rename fails when there is no archive, and on Windows while a handler has
\* it open; then RotateLog returns.
RotateRename ==
    /\ rotating = "rename"
    /\ \/ /\ main # NULL
          /\ old' = main
          /\ main' = NULL
          /\ rotating' = "create"
       \/ /\ main = NULL \/ \E c \in Conns : fd[c] = main
          /\ rotating' = "no"
          /\ UNCHANGED <<main, old>>
    /\ UNCHANGED <<files, handlerVars, removed, truncated, rotations, reader,
                   ghostVars, faults, restarts>>

\* os.Create truncates the file if a handler has created it in the meantime.
RotateCreate ==
    /\ rotating = "create"
    /\ truncated' = truncated \cup StoredIn(main)
    /\ IF main = NULL
       THEN /\ files' = Append(files, <<>>)
            /\ main' = Len(files) + 1
       ELSE /\ files' = [files EXCEPT ![main] = <<>>]
            /\ UNCHANGED main
    /\ rotating' = "no"
    /\ UNCHANGED <<handlerVars, old, removed, rotations, reader, ghostVars,
                   faults, restarts>>

-----------------------------------------------------------------------------
(* A reader who turns the pages of the archive forward, from page 1 until   *)
(* the answer says there are no more.                                       *)

Ask(filter) ==
    /\ reader = Idle
    /\ LoadArchiveLogs # ERROR
    /\ reader' = [turning |-> TRUE, filter |-> filter, page |-> 1, shown |-> <<>>,
                  goal |-> Range(Selected(LoadArchiveLogs, filter)), last |-> FALSE]
    /\ UNCHANGED <<files, main, handlerVars, rotateVars, ghostVars, faults, restarts>>

\* One request of GetLogsPagedHandler; the answer carries the page and the
\* total.  A load that fails is answered with an error, and the reader stays.
TurnPage ==
    /\ reader.turning /\ ~reader.last
    /\ LoadArchiveLogs # ERROR
    /\ LET total == Len(Selected(LoadArchiveLogs, reader.filter))
       IN  reader' = [reader EXCEPT
              !.shown = @ \o PageOf(LoadArchiveLogs, reader.filter, reader.page, PageSize),
              !.page = @ + 1,
              !.last = reader.page * PageSize >= total]
    /\ UNCHANGED <<files, main, handlerVars, rotateVars, ghostVars, faults, restarts>>

Close ==
    /\ reader.turning
    /\ reader' = Idle
    /\ UNCHANGED <<files, main, handlerVars, rotateVars, ghostVars, faults, restarts>>

-----------------------------------------------------------------------------
Next ==
    \/ \E c \in Conns :
        \/ \E a \in AgentIDs : Receive(c, a)
        \/ OpenArchive(c) \/ OpenFails(c)
        \/ WriteEntry(c) \/ WriteEntryFails(c)
        \/ WriteNewline(c)
        \/ Answer(c)
    \/ RestartServer
    \/ RotateRemove \/ RotateRename \/ RotateCreate
    \/ \E f \in Filter : Ask(f)
    \/ TurnPage
    \/ Close

Spec == Init /\ [][Next]_vars

-----------------------------------------------------------------------------
(* Properties. *)

\* The handlers' two writes may fall between each other and a crash may leave
\* the newline out: every entry that was answered is still decoded, once.
AnsweredIsReadable ==
    faults = 0 /\ rotations = 0 /\ main # NULL =>
        /\ LoadArchiveLogs # ERROR
        /\ acked \subseteq Range(LoadArchiveLogs)
        /\ IsInjective(LoadArchiveLogs)

\* While messages arrive, a reader who turns the pages to the end sees all that
\* was there when he began: entries move to later pages, never to earlier ones.
\* The pages of one agent, oldest first, do not even repeat an entry.
PagingSkipsNothing ==
    rotations = 0 /\ reader.turning =>
        /\ reader.last => reader.goal \subseteq Range(reader.shown)
        /\ reader.filter # NULL => IsInjective(reader.shown)

\* The pages 1, 2, ... of any size put together are the unpaged answer, in the
\* order of the file for one agent and in the opposite order for all.
PagesMakeTheWhole ==
    LoadArchiveLogs # ERROR =>
        \A filter \in Filter, pageSize \in 1..3 :
            LET whole == Selected(LoadArchiveLogs, filter)
                pages == [p \in 1..(Len(whole) + 1) |->
                            PageOf(LoadArchiveLogs, filter, p, pageSize)]
            IN  FlattenSeq(pages) = IF filter = NULL THEN Reverse(whole) ELSE whole

\* RotateLog and the handlers never put an entry into both files, and what is
\* in neither file is in an older .old file that was removed, perhaps while a
\* handler was writing to it, or was truncated by a rotation it overtook.
RotationAccounts ==
    /\ StoredIn(main) \cap StoredIn(old) = {}
    /\ faults = 0 =>
        acked \subseteq StoredIn(main) \cup StoredIn(old) \cup truncated
                          \cup UNION {StoredIn(f) : f \in removed}

(* Claims the code does not keep. *)

\* README.md:54 "Nhận log, lưu log": a message answered with "log received" is
\* saved.
ReceivedIsSaved == acked \subseteq StoredIn(main)

\* logcollector.go:15 "đọc toàn bộ log từ file archive.log": a load returns all
\* entries that the file holds.
LoadReadsAll ==
    main # NULL => LoadArchiveLogs = EntriesIn(files[main])

\* logcollector.go:59 "đổi tên file log hiện tại sang <log>.old, tạo file mới":
\* what was archived is in the renamed file or in the new one.
RotationKeepsEntries ==
    rotations <= 1 /\ restarts = 0 => acked \subseteq StoredIn(main) \cup StoredIn(old)
=============================================================================
