---------------------------- MODULE RequestLoop ----------------------------
(***************************************************************************)
(* The client's connection to the server.  The goroutines of the client    *)
(* (hello, log watcher, one per pipe connection, registration) call        *)
(* Agent.Request, which hands the request to the one goroutine of          *)
(* StartRequestLoop over an unbuffered channel and waits for its reply on  *)
(* a channel of its own, at most for a timeout.  The loop writes a frame   *)
(* to the connection and reads one frame back; handleConn does the same at *)
(* the other end.  Neither end sets a deadline on the connection, and the  *)
(* client never dials again.                                               *)
(***************************************************************************)
EXTENDS Integers, Sequences

CONSTANTS Callers,      \* the client's goroutines
          MaxCalls,     \* bound on the calls of Agent.Request
          NULL          \* no request in a handler's hands

ASSUME LoopAssumption ==
    /\ MaxCalls \in Nat
    /\ NULL \notin Int

\* A response and an outcome are the number of the request that was answered,
\* or one of these.
Failed   == 0
TimedOut == -1
None     == -2

Requests == 1..MaxCalls

VARIABLES
    caller,    \* where each goroutine is in Agent.Request
    current,   \* the request each goroutine last made
    issued,    \* how many requests were made
    big,       \* the requests whose frame exceeds the server's 65536 bytes
    cipherReady, \* has InitCipher run in the client's process?
    loop,      \* where StartRequestLoop is
    loopReq,   \* the request it works on
    respChan,  \* the buffered channel of each request: its one value or None
    conn,      \* is the TCP connection up?
    toServer,  \* frames on their way to the server
    toClient,  \* answers on their way to the client
    server,    \* the request handleConn is working on
    accepted,  \* ghost: the requests in the order the loop took them
    served,    \* ghost: the requests the server acted on
    outcome    \* ghost: what each call returned

callVars  == <<caller, current, issued, big, cipherReady>>
loopVars  == <<loop, loopReq, respChan>>
wireVars  == <<conn, toServer, toClient>>
ghostVars == <<accepted, served, outcome>>
vars == <<callVars, loopVars, wireVars, server, ghostVars>>

TypeOK ==
    /\ caller \in [Callers -> {"idle", "offering", "waiting"}]
    /\ current \in [Callers -> 0..MaxCalls]
    /\ issued \in 0..MaxCalls
    /\ big \subseteq Requests
    /\ cipherReady \in BOOLEAN
    /\ loop \in {"recv", "write", "read"}
    /\ loopReq \in 0..MaxCalls
    /\ respChan \in [Requests -> {None, Failed} \cup Requests]
    /\ conn \in {"up", "down"}
    /\ toServer \in Seq(Requests)
    /\ toClient \in Seq(Requests)
    /\ server \in Requests \cup {NULL}
    /\ accepted \in Seq(Requests)
    /\ served \in Seq(Requests)
    /\ outcome \in [Requests -> {None, Failed, TimedOut} \cup Requests]

\* No client of this source runs InitCipher; both cases are modelled, and neither
\* changes while the process runs.
Init ==
    /\ caller = [c \in Callers |-> "idle"]
    /\ current = [c \in Callers |-> 0]
    /\ issued = 0
    /\ big = {}
    /\ cipherReady \in BOOLEAN
    /\ loop = "recv"
    /\ loopReq = 0
    /\ respChan = [r \in Requests |-> None]
    /\ conn = "up"
    /\ toServer = <<>>
    /\ toClient = <<>>
    /\ server = NULL
    /\ accepted = <<>>
    /\ served = <<>>
    /\ outcome = [r \in Requests |-> None]

-----------------------------------------------------------------------------
(* Agent.Request. *)

\* A goroutine makes a request and offers it on requestChan: the send blocks,
\* without a timeout, until the loop receives.
Call(c) ==
    /\ caller[c] = "idle"
    /\ issued < MaxCalls
    /\ issued' = issued + 1
    /\ current' = [current EXCEPT ![c] = issued + 1]
    /\ caller' = [caller EXCEPT ![c] = "offering"]
    /\ big' \in {big, big \cup {issued + 1}}
    /\ UNCHANGED <<cipherReady, loopVars, wireVars, server, ghostVars>>

\* The rendezvous of the sender with "for req := range a.requestChan".
Accept(c) ==
    /\ caller[c] = "offering"
    /\ loop = "recv"
    /\ loop' = "write"
    /\ loopReq' = current[c]
    /\ caller' = [caller EXCEPT ![c] = "waiting"]
    /\ accepted' = Append(accepted, current[c])
    /\ UNCHANGED <<current, issued, big, cipherReady, respChan, wireVars, server,
                   served, outcome>>

Finish(c, value) ==
    /\ outcome' = [outcome EXCEPT ![current[c]] = value]
    /\ caller' = [caller EXCEPT ![c] = "idle"]
    /\ UNCHANGED <<current, issued, big, cipherReady, loopVars, wireVars, server,
                   accepted, served>>

\* select: the response is there, or the time is up, whichever the goroutine
\* sees first.
Receive(c) ==
    /\ caller[c] = "waiting"
    /\ respChan[current[c]] # None
    /\ Finish(c, respChan[current[c]])

TimeOut(c) ==
    /\ caller[c] = "waiting"
    /\ Finish(c, TimedOut)

-----------------------------------------------------------------------------
(* StartRequestLoop. *)

\* req.RespChan <- response; the channel has room for it, so the loop goes on.
Respond(response) ==
    /\ respChan' = [respChan EXCEPT ![loopReq] = response]
    /\ loop' = "recv"
    /\ UNCHANGED loopReq

\* Variant of LoopWrite for a mutation run: the error of Encrypt is not looked at.
LoopWritePlain ==
    /\ loop = "write"
    /\ conn = "up"
    /\ toServer' = Append(toServer, loopReq)
    /\ loop' = "read"
    /\ UNCHANGED <<loopReq, respChan, callVars, conn, toClient, server, ghostVars>>

\* Encrypt and the two writes.  On a broken connection a write fails, or its
\* bytes are taken by the socket and never arrive.
LoopWrite ==
    /\ loop = "write"
    /\ \/ /\ ~cipherReady
          /\ Respond(Failed)
          /\ UNCHANGED toServer
       \/ /\ cipherReady /\ conn = "up"
          /\ toServer' = Append(toServer, loopReq)
          /\ loop' = "read"
          /\ UNCHANGED <<loopReq, respChan>>
       \/ /\ cipherReady /\ conn = "down"
          /\ \/ Respond(Failed)
             \/ loop' = "read" /\ UNCHANGED <<loopReq, respChan>>
          /\ UNCHANGED toServer
    /\ UNCHANGED <<callVars, conn, toClient, server, ghostVars>>

\* Variant of LoopRead for a mutation run: a read deadline lets the loop give up
\* on a live connection.
LoopReadDeadline ==
    /\ loop = "read"
    /\ \/ /\ toClient # <<>>
          /\ Respond(Head(toClient))
          /\ toClient' = Tail(toClient)
       \/ Respond(Failed) /\ UNCHANGED toClient
    /\ UNCHANGED <<callVars, conn, toServer, server, ghostVars>>

\* Variant of LoopRead for a mutation run: "return" for "continue" after an error.
LoopReadReturns ==
    /\ loop = "read"
    /\ \/ /\ toClient # <<>>
          /\ Respond(Head(toClient))
          /\ toClient' = Tail(toClient)
       \/ /\ conn = "down"
          /\ respChan' = [respChan EXCEPT ![loopReq] = Failed]
          /\ loop' = "returned"
          /\ toClient' = <<>>
          /\ UNCHANGED loopReq
    /\ UNCHANGED <<callVars, conn, toServer, server, ghostVars>>

\* The two reads block until a whole frame has come or the connection is
\* broken; what a broken connection still holds may be lost with it.
LoopRead ==
    /\ loop = "read"
    /\ \/ /\ toClient # <<>>
          /\ Respond(Head(toClient))
          /\ toClient' = Tail(toClient)
       \/ /\ conn = "down"
          /\ Respond(Failed)
          /\ toClient' = <<>>
    /\ UNCHANGED <<callVars, conn, toServer, server, ghostVars>>

-----------------------------------------------------------------------------
(* The network and handleConn. *)

\* The connection breaks: a network failure, or the server process ends.
Break ==
    /\ conn = "up"
    /\ conn' = "down"
    /\ toServer' \in {toServer, <<>>}
    /\ server' \in {server, NULL}
    /\ UNCHANGED <<callVars, loopVars, toClient, ghostVars>>

\* Variant of ServerRead for a mutation run: the frame stays in the stream.
ServerReadAgain ==
    /\ server = NULL
    /\ toServer # <<>>
    /\ server' = Head(toServer)
    /\ served' = Append(served, Head(toServer))
    /\ UNCHANGED <<callVars, loopVars, wireVars, accepted, outcome>>

\* A frame is read and its request is carried out; a frame that is too long
\* makes the server close the connection.
ServerRead ==
    /\ server = NULL
    /\ toServer # <<>>
    /\ IF Head(toServer) \in big
       THEN /\ conn' = "down"
            /\ toServer' = <<>>
            /\ UNCHANGED <<server, served>>
       ELSE /\ server' = Head(toServer)
            /\ served' = Append(served, Head(toServer))
            /\ toServer' = Tail(toServer)
            /\ UNCHANGED conn
    /\ UNCHANGED <<callVars, loopVars, toClient, accepted, outcome>>

\* The response is written; on a broken connection it is lost.
ServerAnswer ==
    /\ server # NULL
    /\ \/ conn = "up" /\ toClient' = Append(toClient, server)
       \/ conn = "down" /\ UNCHANGED toClient
    /\ server' = NULL
    /\ UNCHANGED <<callVars, loopVars, conn, toServer, ghostVars>>

-----------------------------------------------------------------------------
Loop   == LoopWrite \/ LoopRead
Server == ServerRead \/ ServerAnswer

Next ==
    \/ \E c \in Callers : Call(c) \/ Accept(c) \/ Receive(c) \/ TimeOut(c)
    \/ Loop
    \/ Break
    \/ Server

Spec == Init /\ [][Next]_vars

\* The goroutines of the client and of a live server keep running, and a
\* channel serves blocked senders first come, first served, so none is passed
\* over for ever.
FairSpec ==
    /\ Spec
    /\ WF_vars(Loop)
    /\ WF_vars(Server)
    /\ \A c \in Callers : SF_vars(Accept(c)) /\ WF_vars(Receive(c) \/ TimeOut(c))

-----------------------------------------------------------------------------
(* Properties. *)

\* Nobody gets an answer to another request, also not the late answer to a
\* request that timed out before it.
AnswerMatches ==
    \A r \in Requests : outcome[r] \in {None, Failed, TimedOut, r}

\* The stream carries at most one request or answer at a time, and none while
\* the loop is ready for the next request and the connection is up.
WireIsSerial ==
    /\ Len(toServer) + Len(toClient) + (IF server = NULL THEN 0 ELSE 1) <= 1
    /\ conn = "up" /\ loop # "read" =>
          toServer = <<>> /\ toClient = <<>> /\ server = NULL

\* agent.go:80-128: an error is final.  Whether the request could not be
\* encrypted (aes.go:22) or the connection broke (main.go:44-50 dials until it
\* has one, and never again), no call that is taken after the failed one is
\* answered: to try again is in vain until the client is started again.
ErrorIsFinal ==
    \A i, j \in 1..Len(accepted) :
        i < j /\ outcome[accepted[i]] = Failed =>
            outcome[accepted[j]] \in {None, Failed, TimedOut}

\* A client without its cipher sends nothing, encrypted or not: the loop gives
\* every request back before the first write.
SilentWithoutCipher ==
    ~cipherReady =>
        /\ toServer = <<>> /\ served = <<>>
        /\ \A r \in Requests : outcome[r] \in {None, Failed, TimedOut}

\* The calls of all goroutines are the serial calls Request promises.
Calls == INSTANCE SerialCalls
ImplementsSerialCalls == Calls!Spec

\* While the server is alive or the break of the connection is noticed, every
\* call returns, also one that is blocked where no timeout applies.
EveryCallReturns == \A c \in Callers : caller[c] # "idle" ~> caller[c] = "idle"

\* README.md:45 "Gửi device info lên server, nhận agentID/clientID" (the client
\* sends its device info to the server): what the loop takes reaches the server
\* unless the connection breaks.
IsAccepted(r) == \E i \in 1..Len(accepted) : accepted[i] = r
IsServed(r)   == \E k \in 1..Len(served) : served[k] = r

RequestsReachServer ==
    \A r \in Requests : IsAccepted(r) ~> IsServed(r) \/ conn = "down"

-----------------------------------------------------------------------------
(* The inductive invariants behind the safety properties. *)

\* Where a request is when its call is under way.
CallsInv ==
    /\ \A c \in Callers : caller[c] # "idle" => current[c] \in 1..issued
    /\ \A c, d \in Callers :
          c # d /\ caller[c] # "idle" /\ caller[d] # "idle" => current[c] # current[d]
    /\ \A c \in Callers : caller[c] # "idle" => outcome[current[c]] = None
    /\ \A i \in 1..Len(accepted) : accepted[i] \in 1..issued
    /\ \A c \in Callers : caller[c] = "offering" =>
          ~IsAccepted(current[c])
    /\ \A c \in Callers : caller[c] = "waiting" => IsAccepted(current[c])
    /\ \A i, j \in 1..Len(accepted) : accepted[i] = accepted[j] => i = j
    /\ \A r \in Requests : r > issued => outcome[r] = None

\* What is on the wire belongs to the request the loop reads an answer for.
WireInv ==
    /\ WireIsSerial
    /\ loop # "recv" => loopReq \in Requests
    /\ toClient # <<>> => loop = "read" /\ toClient[1] = loopReq
    /\ conn = "up" /\ toServer # <<>> => toServer[1] = loopReq
    /\ conn = "up" /\ server # NULL => server = loopReq

\* A channel holds nothing but the answer to its own request or the error; an
\* answer means that the server acted on the request.
AnswersInv ==
    /\ \A r \in Requests : respChan[r] \in {None, Failed, r}
    /\ \A r \in Requests : respChan[r] = r => IsServed(r)
    /\ server # NULL => IsServed(server)
    /\ toClient # <<>> => IsServed(toClient[1])

\* The server has not seen the request the loop is about to write, nor the one
\* on its way, nor any that was taken after it.
UnservedFrom(i) == \A j \in i..Len(accepted) : ~IsServed(accepted[j])

OrderInv ==
    /\ \A k \in 1..Len(served) : served[k] \in 1..issued
    /\ \A c \in Callers : caller[c] = "offering" => ~IsServed(current[c])
    /\ loop = "write" =>
          /\ Len(accepted) > 0
          /\ accepted[Len(accepted)] = loopReq
          /\ UnservedFrom(Len(accepted))
    /\ toServer # <<>> =>
          \E i \in 1..Len(accepted) :
            /\ accepted[i] = toServer[1]
            /\ UnservedFrom(i)
            /\ loop = "write" => i < Len(accepted)

LoopInv == TypeOK /\ CallsInv /\ WireInv /\ AnswersInv /\ OrderInv /\ AnswerMatches

\* Once a channel holds the error no answer is on its way and none can come;
\* what the loop works on was taken last, and its channel is still empty.
ErrorInv ==
    /\ loop # "recv" =>
          /\ Len(accepted) > 0 /\ accepted[Len(accepted)] = loopReq
          /\ respChan[loopReq] = None
    /\ \A r \in Requests : respChan[r] # None => IsAccepted(r)
    /\ \A r \in Requests : outcome[r] \in {None, TimedOut} \/ outcome[r] = respChan[r]
    /\ \A r \in Requests :
          respChan[r] = Failed => toClient = <<>> /\ (conn = "down" \/ ~cipherReady)
    /\ \A i, j \in 1..Len(accepted) :
          i < j /\ respChan[accepted[i]] = Failed => respChan[accepted[j]] \in {None, Failed}

\* A client without its cipher reads and writes nothing.
SilentInv ==
    ~cipherReady =>
        /\ loop # "read"
        /\ toServer = <<>> /\ toClient = <<>> /\ server = NULL /\ served = <<>>
=============================================================================
