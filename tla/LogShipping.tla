----------------------------- MODULE LogShipping -----------------------------
(***************************************************************************)
(* How a logon event gets from the credential provider to the server's     *)
(* archive: LogEvent appends a line to the event log, the watcher          *)
(* goroutine of the client polls the file and sends what is new, one       *)
(* Agent.Request per line, and keeps its position in an offset file.       *)
(*                                                                         *)
(* The event log is a sequence of units: the number of an event stands for *)
(* its text and EOL for the end of the line.  A position or a size counts  *)
(* units.  The text of a line is a sequence of units without EOL.          *)
(*                                                                         *)
(* Of Agent.Request (module RequestLoop) this module keeps what the        *)
(* watcher can see: one request is on the wire at a time, a call returns   *)
(* when it is answered or earlier, after a timeout, and every call fails   *)
(* once the connection is broken, since the client never dials again.  The *)
(* cipher of the client is taken to be initialised.                        *)
(***************************************************************************)
EXTENDS Integers, SequencesExt

CONSTANTS EOL,             \* the end of a line
          NUL,             \* the zero bytes of a buffer that Read did not fill
          NULL,            \* no request, no readable offset
          MaxEvents,       \* bound on the events logged
          MaxTruncations,  \* bound on truncations of the event log
          MaxCrashes       \* bound on ends of the client process

ASSUME ShippingAssumption ==
    /\ MaxEvents \in Nat /\ MaxTruncations \in Nat /\ MaxCrashes \in Nat
    /\ EOL \notin Nat /\ NUL \notin Nat /\ EOL # NUL /\ NULL \notin Nat

VARIABLES
    eventLog,     \* cfg.EventLog
    offsetFile,   \* cfg.OffsetFile: a position, or NULL when missing or empty
    pc,           \* where the watcher is
    lastSize,     \* its position in the event log
    size,         \* stat.Size() of this round
    unsent,       \* what is left of the buffer of this round, from the first
                  \* line that is not done
    connected,    \* the connection of the running client works
    wire,         \* the line whose request is on that connection, or NULL
    orphans,      \* lines on the wires of connections that are given up, each
                  \* with the number of its client process
    registered,   \* the server still has a row for this agent
    archive,      \* the messages of this agent in archive.log
    logged,       \* how many events were logged
    lost,         \* ghost: events on the wire of a client when its host crashed
    broke,        \* ghost: a connection broke under a running client
    truncations,  \* how often the event log was truncated
    crashes       \* how often the client ended

clientVars == <<pc, lastSize, size, unsent, connected>>
serverVars == <<registered, archive>>
ghostVars  == <<logged, lost, broke, truncations, crashes>>
vars == <<eventLog, offsetFile, clientVars, wire, orphans, serverVars, ghostVars>>

Events == 1..MaxEvents
Unit   == Events \cup {EOL, NUL}
Line   == Seq(Events \cup {NUL})

ASSUME NullAssumption == NULL \notin Line

TypeOK ==
    /\ eventLog \in Seq(Events \cup {EOL})
    /\ offsetFile \in Nat \cup {NULL}
    /\ pc \in {"down", "stat", "read", "send", "wait", "save"}
    /\ lastSize \in Nat /\ size \in Nat
    /\ unsent \in Seq(Unit)
    /\ IF unsent = <<>> THEN pc # "wait" ELSE unsent[1] # EOL
    /\ connected \in BOOLEAN
    /\ wire = NULL \/ wire \in Line
    /\ orphans \subseteq [client : 0..MaxCrashes, line : Line]
    /\ registered \in BOOLEAN
    /\ archive \in Seq(Line)
    /\ logged \in 0..MaxEvents
    /\ lost \subseteq Events
    /\ broke \in BOOLEAN
    /\ truncations \in 0..MaxTruncations
    /\ crashes \in 0..MaxCrashes

Init ==
    /\ eventLog = <<>>
    /\ offsetFile = NULL
    /\ pc = "down"
    /\ lastSize = 0 /\ size = 0
    /\ unsent = <<>>
    /\ connected = FALSE
    /\ wire = NULL
    /\ orphans = {}
    /\ registered = TRUE
    /\ archive = <<>>
    /\ logged = 0
    /\ lost = {}
    /\ broke = FALSE
    /\ truncations = 0 /\ crashes = 0

-----------------------------------------------------------------------------
(* The event log. *)

\* LogEvent opens the file for appending and writes one line, which is flushed
\* by std::endl.  A message with a character that the stream's locale cannot
\* convert puts the stream into its error state: the line end is not written.
LogEvent ==
    LET n == logged + 1 IN
    /\ logged < MaxEvents
    /\ logged' = n
    /\ eventLog' \in {eventLog \o <<n, EOL>>, Append(eventLog, n)}
    /\ UNCHANGED <<offsetFile, clientVars, wire, orphans, serverVars,
                   lost, broke, truncations, crashes>>

\* Somebody clears the event log, which the watcher provides for.
Truncate ==
    /\ eventLog # <<>>
    /\ truncations < MaxTruncations
    /\ truncations' = truncations + 1
    /\ eventLog' = <<>>
    /\ UNCHANGED <<offsetFile, clientVars, wire, orphans, serverVars,
                   logged, lost, broke, crashes>>

-----------------------------------------------------------------------------
(* The watcher. *)

\* The process starts: it dials until it is connected and reads the offset
\* file; a file that is missing or empty leaves lastSize 0.
Start ==
    /\ pc = "down"
    /\ pc' = "stat"
    /\ connected' = TRUE
    /\ lastSize' = IF offsetFile = NULL THEN 0 ELSE offsetFile
    /\ UNCHANGED <<eventLog, offsetFile, size, unsent, wire, orphans,
                   serverVars, ghostVars>>

\* if stat.Size() < lastSize { lastSize = 0 }
Position(n) == IF n < lastSize THEN 0 ELSE lastSize

\* Open and Stat.  Nothing new: the watcher sleeps, and does not save a
\* position it has just reset.
Stat ==
    /\ pc = "stat"
    /\ size' = Len(eventLog)
    /\ lastSize' = Position(Len(eventLog))
    /\ pc' = IF size' > lastSize' THEN "read" ELSE "stat"
    /\ UNCHANGED <<eventLog, offsetFile, unsent, connected, wire, orphans,
                   serverVars, ghostVars>>

\* SplitLines cuts the buffer at its line ends.  A line is taken off when its
\* turn comes: the first one ends at the first line end, or with the buffer.
FirstEnd(buf)   == Min({i \in DOMAIN buf : buf[i] = EOL} \cup {Len(buf) + 1})
FirstLine(buf)  == SubSeq(buf, 1, FirstEnd(buf) - 1)
OtherLines(buf) == SubSeq(buf, FirstEnd(buf) + 1, Len(buf))

\* Variant for a mutation run: what follows the last line end is no line.
SkipUnterminated(buf) ==
    SubSeq(buf, Min({i \in DOMAIN buf : buf[i] # EOL} \cup {Len(buf) + 1}),
                Max({i \in DOMAIN buf : buf[i] = EOL} \cup {0}))

\* if line == "" { continue }
SkipEmpty(buf) ==
    SubSeq(buf, Min({i \in DOMAIN buf : buf[i] # EOL} \cup {Len(buf) + 1}), Len(buf))

\* make([]byte, stat.Size()-lastSize) and file.Read: what Read does not fill,
\* because the file has become shorter since Stat, stays zero.
Buffer ==
    LET filled == SubSeq(eventLog, lastSize + 1, Min({size, Len(eventLog)}))
    IN  filled \o [i \in 1..(size - lastSize - Len(filled)) |-> NUL]

\* Variant for a mutation run: empty lines are not skipped.
ReadEmptyLines ==
    /\ pc = "read"
    /\ pc' = "send"
    /\ unsent' = IF lastSize >= Len(eventLog) THEN <<>> ELSE Buffer
    /\ UNCHANGED <<eventLog, offsetFile, lastSize, size, connected, wire, orphans,
                   serverVars, ghostVars>>

\* At the end of the file Read returns io.EOF, and no line is sent.
Read ==
    /\ pc = "read"
    /\ pc' = "send"
    /\ unsent' = IF lastSize >= Len(eventLog) THEN <<>> ELSE SkipEmpty(Buffer)
    /\ UNCHANGED <<eventLog, offsetFile, lastSize, size, connected, wire, orphans,
                   serverVars, ghostVars>>

\* a.Request(msg): the request loop takes the request as soon as it is done
\* with the one before.
Send ==
    /\ pc = "send" /\ unsent # <<>>
    /\ connected /\ wire = NULL
    /\ wire' = FirstLine(unsent)
    /\ pc' = "wait"
    /\ UNCHANGED <<eventLog, offsetFile, lastSize, size, unsent, connected, orphans,
                   serverVars, ghostVars>>

\* Variant for a mutation run: the line is tried again after a timeout.
ReturnAndRetry ==
    /\ pc = "wait"
    /\ unsent' = IF wire = NULL THEN SkipEmpty(OtherLines(unsent)) ELSE unsent
    /\ pc' = "send"
    /\ UNCHANGED <<eventLog, offsetFile, lastSize, size, connected, wire, orphans,
                   serverVars, ghostVars>>

\* Request returns, with the answer or with a timeout, and its result is not
\* looked at.
Return ==
    /\ pc = "wait"
    /\ unsent' = SkipEmpty(OtherLines(unsent))
    /\ pc' = "send"
    /\ UNCHANGED <<eventLog, offsetFile, lastSize, size, connected, wire, orphans,
                   serverVars, ghostVars>>

\* Without a connection Request returns an error; so does the loop go on.
SendFails ==
    /\ pc = "send" /\ unsent # <<>>
    /\ ~connected
    /\ unsent' = SkipEmpty(OtherLines(unsent))
    /\ UNCHANGED <<eventLog, offsetFile, pc, lastSize, size, connected, wire,
                   orphans, serverVars, ghostVars>>

\* Variant for a mutation run: the position is advanced before all lines are
\* sent.
AdvanceEarly ==
    /\ pc = "send"
    /\ lastSize' = size
    /\ offsetFile' = NULL /\ pc' = "save"
    /\ UNCHANGED <<eventLog, size, unsent, connected, wire, orphans,
                   serverVars, ghostVars>>

\* All lines are done: lastSize = stat.Size(), and os.WriteFile truncates the
\* offset file first, unless it cannot open it.
AdvancePosition ==
    /\ pc = "send" /\ unsent = <<>>
    /\ lastSize' = size
    /\ \/ offsetFile' = NULL /\ pc' = "save"
       \/ UNCHANGED offsetFile /\ pc' = "stat"
    /\ UNCHANGED <<eventLog, size, unsent, connected, wire, orphans,
                   serverVars, ghostVars>>

SaveOffset ==
    /\ pc = "save"
    /\ offsetFile' = lastSize
    /\ pc' = "stat"
    /\ UNCHANGED <<eventLog, lastSize, size, unsent, connected, wire, orphans,
                   serverVars, ghostVars>>

-----------------------------------------------------------------------------
(* The connection and the server. *)

OnTheWire == IF wire = NULL THEN {} ELSE {[client |-> crashes, line |-> wire]}
EventsOf(line) == Range(line) \ {NUL}

\* The connection breaks: the server has received the request or it has not.
Break ==
    /\ pc # "down" /\ connected
    /\ connected' = FALSE
    /\ broke' = TRUE
    /\ wire' = NULL
    /\ \/ orphans' = orphans \cup OnTheWire
       \/ UNCHANGED orphans
    /\ UNCHANGED <<eventLog, offsetFile, pc, lastSize, size, unsent, serverVars,
                   logged, lost, truncations, crashes>>

\* The client process ends, at any point.  When only the process ends the
\* request it wrote still reaches the server; when the host fails it may not.
Crash ==
    /\ pc # "down"
    /\ crashes < MaxCrashes
    /\ crashes' = crashes + 1
    /\ pc' = "down"
    /\ connected' = FALSE
    /\ unsent' = <<>>
    /\ wire' = NULL
    /\ \/ orphans' = orphans \cup OnTheWire /\ UNCHANGED lost
       \/ /\ wire # NULL
          /\ lost' = lost \cup EventsOf(wire)
          /\ UNCHANGED orphans
    /\ UNCHANGED <<eventLog, offsetFile, lastSize, size, serverVars,
                   logged, broke, truncations>>

\* The log handler: a message of an agent without a row is refused, and the
\* client does not look at the answer.
Archived(line) == IF registered THEN Append(archive, line) ELSE archive

ServerLog ==
    /\ wire # NULL
    /\ archive' = Archived(wire)
    /\ wire' = NULL
    /\ UNCHANGED <<eventLog, offsetFile, clientVars, orphans, registered, ghostVars>>

\* The same handler, of a connection whose client is gone.
ServerLogOrphan ==
    \E o \in orphans :
        /\ archive' = Archived(o.line)
        /\ orphans' = orphans \ {o}
        /\ UNCHANGED <<eventLog, offsetFile, clientVars, wire, registered, ghostVars>>

\* An administrator deletes the client's row.
Deregister ==
    /\ registered
    /\ registered' = FALSE
    /\ UNCHANGED <<eventLog, offsetFile, clientVars, wire, orphans, archive, ghostVars>>

-----------------------------------------------------------------------------
Watcher ==
    \/ Start \/ Stat \/ Read
    \/ Send \/ Return \/ SendFails
    \/ AdvancePosition \/ SaveOffset

Server == ServerLog \/ ServerLogOrphan

Next ==
    \/ LogEvent \/ Truncate
    \/ Watcher
    \/ Break \/ Crash
    \/ Server
    \/ Deregister

Spec == Init /\ [][Next]_vars

\* The service is started with the system, its goroutine never stops, and a
\* server that has received a request handles it.
FairSpec == Spec /\ WF_vars(Watcher) /\ WF_vars(Server)

-----------------------------------------------------------------------------
(* Properties. *)

ArchivedEvents == UNION {EventsOf(archive[i]) : i \in DOMAIN archive}
InFlightEvents ==
    UNION {EventsOf(o.line) : o \in orphans \cup OnTheWire}

\* The units before position n of the event log that are events.
EventsBefore(n) == {eventLog[i] : i \in 1..n} \ {EOL}

\* What lies before the position in the offset file, or before the watcher's
\* own, has been sent: a crash at any point repeats lines but skips none.
PositionCovers ==
    truncations = 0 /\ ~broke /\ registered =>
        /\ offsetFile # NULL =>
            EventsBefore(offsetFile) \subseteq ArchivedEvents \cup InFlightEvents \cup lost
        /\ EventsBefore(lastSize) \subseteq ArchivedEvents \cup InFlightEvents \cup lost

\* Neither timeouts nor crashes multiply an event: it is archived at most once
\* for each run of the client, even when the requests of an earlier run are
\* still being handled.  Within the first run no line overtakes another.
OncePerRun ==
    truncations = 0 =>
        /\ \A n \in Events :
            Cardinality({i \in DOMAIN archive : n \in EventsOf(archive[i])}) <= crashes + 1
        /\ crashes = 0 =>
            \A i, j \in DOMAIN archive : i < j =>
                \A m \in EventsOf(archive[i]), n \in EventsOf(archive[j]) : m < n

\* Every logged event is archived in the end, unless the connection broke, the
\* event log was cleared, the client was deleted or its host failed.
EveryEventArrives ==
    \A n \in Events :
        n <= logged ~>
            n \in ArchivedEvents \cup lost \/ broke \/ truncations > 0 \/ ~registered

(* Claims the code does not keep. *)

\* README.md:46 "gửi dòng mới lên server": the lines before the position that
\* the client keeps have been sent, also when the connection broke.
NewLinesSent ==
    truncations = 0 /\ registered /\ offsetFile # NULL =>
        EventsBefore(offsetFile) \subseteq ArchivedEvents \cup InFlightEvents \cup lost

\* README.md:46 "Theo dõi file log, gửi dòng mới": what is sent are lines of
\* the event log.
OnlyLoggedText == \A i \in DOMAIN archive : NUL \notin Range(archive[i])
=============================================================================
