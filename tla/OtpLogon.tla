------------------------------- MODULE OtpLogon -------------------------------
(***************************************************************************)
(* A logon with a one-time code: the tile takes what the user typed,       *)
(* GetSerialization asks the client's named pipe for the secret, the       *)
(* client asks the server with Agent.Request, the server computes the TOTP *)
(* of its present time step, and the tile compares the first six           *)
(* characters typed with what came back.                                   *)
(*                                                                         *)
(* Several attempts run at once: every Windows session has a logon screen, *)
(* and other programs may use the pipe too.  All share the client's one    *)
(* connection with its hello and log requests.  The code of a time step is *)
(* the number of the step; the codes of different steps are taken to       *)
(* differ.  Of Agent.Request this module keeps what module RequestLoop     *)
(* shows of it: one request on the wire at a time, its answer given to the *)
(* call that asked or, after a timeout, to nobody.  The cipher of the      *)
(* client is taken to be initialised.                                      *)
(***************************************************************************)
EXTENDS Integers

CONSTANTS Attempts,    \* logon screens that submit, and callers of the pipe
          BACKGROUND,  \* the caller of a hello or log request
          WRONG,       \* six characters that are no code
          SHORT,       \* fewer than seven characters
          EMPTY,       \* the empty text
          ERROR,       \* a text "ERROR: ..." of handleIPCConnection
          NONE,        \* nothing
          MaxStep,     \* bound on the time steps of 30 s
          MaxClientCrashes  \* bound on ends of the client process

VARIABLES
    now,         \* the time step, on the server's clock
    pc,          \* where each attempt is; at its end, what the tile shows
    typed,       \* the code that was typed
    started,     \* the time step in which it was submitted
    reply,       \* the text the pipe returns
    link,        \* the client process and its connection to the server
    wire,        \* the request on that connection
    registered,  \* the server has a row for the client's agent id
    clientCrashes  \* how often the client process ended

attemptVars == <<pc, typed, started, reply>>
logonVars == <<now, attemptVars, link, wire, registered, clientCrashes>>

Steps    == 0..MaxStep
Inputs   == Steps \cup {WRONG, SHORT}
Answers  == Steps \cup {EMPTY}
Running  == {"connect", "asking", "waiting", "reply"}
Verdicts == {"accepted", "incorrect", "unreachable", "tooShort", "notPacked"}

\* caller: the attempt whose request it is; live: its call of Request still
\* waits; code: the server's answer, once there is one.
OnWire == [caller : Attempts \cup {BACKGROUND}, live : BOOLEAN, code : Answers \cup {NONE}]

ASSUME LogonAssumption ==
    /\ MaxStep \in Nat /\ MaxClientCrashes \in Nat
    /\ {WRONG, SHORT, EMPTY, ERROR, NONE} \cap Nat = {}
    /\ BACKGROUND \notin Attempts
    /\ NONE \notin {EMPTY, ERROR, WRONG, SHORT}
    /\ WRONG \notin {EMPTY, ERROR} /\ SHORT \notin {EMPTY, ERROR}
    /\ NONE \notin OnWire

LogonTypeOK ==
    /\ now \in Steps
    /\ pc \in [Attempts -> {"idle"} \cup Running \cup Verdicts]
    /\ typed \in [Attempts -> Inputs \cup {NONE}]
    /\ started \in [Attempts -> Steps]
    /\ reply \in [Attempts -> Answers \cup {ERROR, NONE}]
    /\ link \in {"down", "connected", "broken"}
    /\ wire \in OnWire \cup {NONE}
    /\ wire # NONE => link = "connected"
    /\ registered \in BOOLEAN
    /\ clientCrashes \in 0..MaxClientCrashes

LogonInit ==
    /\ now = 0
    /\ pc = [a \in Attempts |-> "idle"]
    /\ typed = [a \in Attempts |-> NONE]
    /\ started = [a \in Attempts |-> 0]
    /\ reply = [a \in Attempts |-> NONE]
    /\ link = "down"
    /\ wire = NONE
    /\ registered = TRUE
    /\ clientCrashes = 0

Tick ==
    /\ now < MaxStep
    /\ now' = now + 1
    /\ UNCHANGED <<attemptVars, link, wire, registered, clientCrashes>>

Goto(a, p) == pc' = [pc EXCEPT ![a] = p]
Returns(a, text) ==
    /\ Goto(a, "reply")
    /\ reply' = [reply EXCEPT ![a] = text]

-----------------------------------------------------------------------------
(* The credential provider: GetSerialization. *)

\* The user submits a code that he has read at some time until now, or
\* something else.  Too few characters end the attempt before the pipe is used.
Submit(a, t) ==
    /\ pc[a] \notin Running
    /\ t \in Nat => t <= now
    /\ Goto(a, IF t = SHORT THEN "tooShort" ELSE "connect")
    /\ typed' = [typed EXCEPT ![a] = t]
    /\ started' = [started EXCEPT ![a] = now]
    /\ reply' = [reply EXCEPT ![a] = NONE]
    /\ UNCHANGED <<now, link, wire, registered, clientCrashes>>

\* WaitNamedPipe, CreateFile and WriteFile, and in the client Accept and Read
\* of a handler of its own.
Connect(a) ==
    /\ pc[a] = "connect"
    /\ link # "down"
    /\ Goto(a, "asking")
    /\ UNCHANGED <<now, typed, started, reply, link, wire, registered, clientCrashes>>

\* There is no pipe, or no free instance of it, also when another caller was
\* faster between WaitNamedPipe and CreateFile.
ConnectFails(a) ==
    /\ pc[a] = "connect"
    /\ Goto(a, "unreachable")
    /\ UNCHANGED <<now, typed, started, reply, link, wire, registered, clientCrashes>>

\* The end of GetSerialization.  What ReadFile returns is the secret, also an
\* empty text or a text of an error; a write of no bytes may also end the pipe.
\* The rest of what was typed is packed for Windows, which may fail.
Compare(a) ==
    /\ pc[a] = "reply"
    /\ \/ reply[a] = typed[a] /\ (Goto(a, "accepted") \/ Goto(a, "notPacked"))
       \/ reply[a] # typed[a] /\ Goto(a, "incorrect")
       \/ reply[a] = EMPTY /\ Goto(a, "unreachable")
    /\ UNCHANGED <<now, typed, started, reply, link, wire, registered, clientCrashes>>

-----------------------------------------------------------------------------
(* The client: handleIPCConnection, the closure requestOTP, Agent.Request.   *)

\* The request loop takes a request when it is done with the one before; the
\* call waits for that without a timeout.
Take(a) ==
    /\ pc[a] = "asking"
    /\ link = "connected"
    /\ wire = NONE
    /\ wire' = [caller |-> a, live |-> TRUE, code |-> NONE]
    /\ Goto(a, "waiting")
    /\ UNCHANGED <<now, typed, started, reply, link, registered, clientCrashes>>

\* On a broken connection the loop returns an error.
TakeFails(a) ==
    /\ pc[a] = "asking"
    /\ link = "broken"
    /\ Returns(a, ERROR)
    /\ UNCHANGED <<now, typed, started, link, wire, registered, clientCrashes>>

\* A hello or a log line.
TakeBackground ==
    /\ link = "connected"
    /\ wire = NONE
    /\ wire' = [caller |-> BACKGROUND, live |-> FALSE, code |-> NONE]
    /\ UNCHANGED <<now, attemptVars, link, registered, clientCrashes>>

\* Variants for mutation runs: the late answer goes to the caller all the same;
\* the response channel has no buffer, and the loop waits for a receiver.
DeliverLate ==
    /\ wire # NONE /\ wire.code # NONE
    /\ wire' = NONE
    /\ IF wire.caller \in Attempts THEN Returns(wire.caller, wire.code)
       ELSE UNCHANGED <<pc, reply>>
    /\ UNCHANGED <<now, typed, started, link, registered, clientCrashes>>

DeliverUnbuffered ==
    /\ wire # NONE /\ wire.code # NONE
    /\ wire.live \/ wire.caller = BACKGROUND
    /\ wire' = NONE
    /\ IF wire.live THEN Returns(wire.caller, wire.code)
       ELSE UNCHANGED <<pc, reply>>
    /\ UNCHANGED <<now, typed, started, link, registered, clientCrashes>>

\* The loop reads the answer and hands it to the call, if that still waits.
Deliver ==
    /\ wire # NONE /\ wire.code # NONE
    /\ wire' = NONE
    /\ IF wire.live THEN Returns(wire.caller, wire.code)
       ELSE UNCHANGED <<pc, reply>>
    /\ UNCHANGED <<now, typed, started, link, registered, clientCrashes>>

\* Request gives up after 10 s; the loop goes on waiting for the answer.
TimeOut(a) ==
    /\ pc[a] = "waiting"
    /\ wire' = [wire EXCEPT !.live = FALSE]
    /\ Returns(a, ERROR)
    /\ UNCHANGED <<now, typed, started, link, registered, clientCrashes>>

\* The connection breaks: the request on it fails, and so will all others, as
\* the client dials only when its process starts.
Break ==
    /\ link = "connected"
    /\ link' = "broken"
    /\ wire' = NONE
    /\ IF wire # NONE /\ wire.live THEN Returns(wire.caller, ERROR)
       ELSE UNCHANGED <<pc, reply>>
    /\ UNCHANGED <<now, typed, started, registered, clientCrashes>>

\* The process ends, and with it the pipe.  A reply that is written may still
\* be read.
ClientCrash ==
    /\ link # "down"
    /\ clientCrashes < MaxClientCrashes
    /\ clientCrashes' = clientCrashes + 1
    /\ link' = "down"
    /\ wire' = NONE
    /\ \E unread \in SUBSET {a \in Attempts : pc[a] = "reply"} :
          pc' = [a \in Attempts |->
                    IF pc[a] \in {"asking", "waiting"} \/ a \in unread
                    THEN "unreachable" ELSE pc[a]]
    /\ UNCHANGED <<now, typed, started, reply, registered>>

\* The process dials until it is connected, then opens the pipe.
Start ==
    /\ link = "down"
    /\ link' = "connected"
    /\ UNCHANGED <<now, attemptVars, wire, registered, clientCrashes>>

-----------------------------------------------------------------------------
(* The server. *)

\* Variant for a mutation run: the code of the step before.
AnswerLastStep ==
    /\ wire # NONE /\ wire.code = NONE
    /\ wire' = [wire EXCEPT !.code = IF registered THEN now - 1 ELSE EMPTY]
    /\ UNCHANGED <<now, attemptVars, link, registered, clientCrashes>>

\* request_otp: the code of the present step for a client with a row, else an
\* empty one.
Answer ==
    /\ wire # NONE /\ wire.code = NONE
    /\ wire' = [wire EXCEPT !.code = IF registered THEN now ELSE EMPTY]
    /\ UNCHANGED <<now, attemptVars, link, registered, clientCrashes>>

\* An administrator deletes the client's row.
Deregister ==
    /\ registered
    /\ registered' = FALSE
    /\ UNCHANGED <<now, attemptVars, link, wire, clientCrashes>>

-----------------------------------------------------------------------------
LogonNext ==
    \/ Tick
    \/ \E a \in Attempts :
        \/ \E t \in Inputs : Submit(a, t)
        \/ Connect(a) \/ ConnectFails(a)
        \/ Take(a) \/ TakeFails(a) \/ TimeOut(a)
        \/ Compare(a)
    \/ TakeBackground \/ Deliver
    \/ Break \/ ClientCrash \/ Start
    \/ Answer \/ Deregister

LogonSpec == LogonInit /\ [][LogonNext]_logonVars

\* The threads of the tile and of the client run, and the loop's channel serves
\* blocked senders first come, first served.  Nothing is said of the server.
ClientFairness ==
    /\ WF_logonVars(Deliver)
    /\ \A a \in Attempts :
        /\ WF_logonVars(Connect(a) \/ ConnectFails(a))
        /\ SF_logonVars(Take(a)) /\ WF_logonVars(TakeFails(a))
        /\ WF_logonVars(TimeOut(a))
        /\ WF_logonVars(Compare(a))

SilentServerSpec == LogonSpec /\ ClientFairness

\* A live server answers.
FairSpec == SilentServerSpec /\ WF_logonVars(Answer)

-----------------------------------------------------------------------------
(* Properties. *)

\* A code is accepted only if the server computed it while the attempt ran: no
\* answer to an earlier attempt, of this screen or of another, is taken for it.
AcceptedIsFresh ==
    \A a \in Attempts : pc[a] = "accepted" =>
        typed[a] \in Steps /\ started[a] <= typed[a] /\ typed[a] <= now

\* A user who typed the code of the present step is refused only if no code
\* came back, because of a break, a timeout or a deletion.
CurrentCodeIsRight ==
    \A a \in Attempts :
        pc[a] = "incorrect" /\ typed[a] = started[a] /\ started[a] = now =>
            reply[a] \in {ERROR, EMPTY}

\* Every attempt ends, however the pipe's callers and the client's other
\* requests compete for the connection, if the server answers.
EveryAttemptEnds ==
    \A a \in Attempts : pc[a] \in Running ~> pc[a] \notin Running

\* The inductive invariant behind the first two.  An answer is as old as the
\* attempt that gets it, because a call waits only while its own request is on
\* the wire, and the request of a call that gave up is marked as such.
AnswersAreFresh ==
    \A a \in Attempts :
        /\ started[a] <= now
        /\ reply[a] \in Steps => started[a] <= reply[a] /\ reply[a] <= now

CallHasWire ==
    \A a \in Attempts : pc[a] = "waiting" => wire # NONE /\ wire.live /\ wire.caller = a

WireHasCall ==
    wire # NONE /\ wire.live =>
        /\ wire.caller \in Attempts /\ pc[wire.caller] = "waiting"
        /\ wire.code \in Steps => started[wire.caller] <= wire.code /\ wire.code <= now

VerdictFollowsReply ==
    \A a \in Attempts :
        /\ pc[a] \in Running => typed[a] \in Inputs
        /\ pc[a] = "reply" => reply[a] # NONE
        /\ pc[a] = "accepted" => typed[a] \in Inputs /\ reply[a] # NONE /\ reply[a] = typed[a]
        /\ pc[a] = "incorrect" => reply[a] # NONE /\ reply[a] # typed[a]

LogonInv ==
    /\ LogonTypeOK
    /\ AnswersAreFresh
    /\ CallHasWire
    /\ WireHasCall
    /\ VerdictFollowsReply

(* Claims the code does not keep. *)

\* CSampleCredential.cpp:551 "Incorrect secret code.": the tile says so only of
\* a code that is not the one of the present step.
IncorrectIsIncorrect ==
    \A a \in Attempts : pc[a] = "incorrect" =>
        ~(typed[a] = started[a] /\ started[a] = now)

\* ipc_windows.go:86 "ERROR: Timeout waiting for OTP from server": a caller of
\* the pipe gets an answer also when the server gives none.
PipeAnswersInTime == EveryAttemptEnds
=============================================================================
