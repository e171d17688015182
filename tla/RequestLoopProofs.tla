------------------------- MODULE RequestLoopProofs -------------------------
(***************************************************************************)
(* Proofs about RequestLoop for every set of goroutines, every number of   *)
(* requests and every choice of oversized frames, with the client's cipher *)
(* or without it: LoopInv is inductive, and from it follow that no call    *)
(* gets another call's answer, that the connection is used serially, that  *)
(* an error is final, and that the loop implements SerialCalls.            *)
(***************************************************************************)
EXTENDS RequestLoop, TLAPS

USE LoopAssumption DEF None, Failed, TimedOut

\* What the wire's two operations and the ghosts do to a sequence.
LEMMA SequenceFacts ==
    ASSUME NEW s \in Seq(Requests)
    PROVE  /\ <<>> \in Seq(Requests)
           /\ Len(s) \in Nat
           /\ s = <<>> <=> Len(s) = 0
           /\ s # <<>> => /\ Head(s) \in Requests /\ Head(s) = s[1]
                          /\ Tail(s) \in Seq(Requests) /\ Len(Tail(s)) = Len(s) - 1
           /\ \A i \in 1..Len(s) : s[i] \in Requests
           /\ \A e \in Requests : /\ Append(s, e) \in Seq(Requests)
                           /\ Len(Append(s, e)) = Len(s) + 1
                           /\ Append(s, e)[Len(s) + 1] = e
                           /\ \A i \in 1..Len(s) : Append(s, e)[i] = s[i]
OBVIOUS

LEMMA RequestFacts ==
    /\ Requests \subseteq Int
    /\ 0 \notin Requests /\ -1 \notin Requests /\ -2 \notin Requests
    /\ NULL \notin Requests
BY DEF Requests

-----------------------------------------------------------------------------
(* Type correctness. *)

LEMMA TypeStep ==
    ASSUME TypeOK, CallsInv, WireInv, [Next]_vars
    PROVE  TypeOK'
<1>0. /\ toServer \in Seq(Requests) /\ toClient \in Seq(Requests)
      /\ accepted \in Seq(Requests) /\ served \in Seq(Requests)
      /\ server \in Requests \cup {NULL}
  BY DEF TypeOK
<1> USE <1>0 DEF callVars, loopVars, wireVars, ghostVars
<1>1. ASSUME NEW c \in Callers, Call(c)  PROVE TypeOK'
  BY <1>1 DEF Requests, Call, TypeOK
<1>2. ASSUME NEW c \in Callers, Accept(c)  PROVE TypeOK'
  <2>1. current[c] \in Requests
    BY <1>2 DEF Accept, CallsInv, TypeOK, Requests
  <2>. QED  BY <1>2, <2>1 DEF Accept, TypeOK
<1>3. ASSUME NEW c \in Callers, Receive(c)  PROVE TypeOK'
  <2>1. current[c] \in Requests
    BY <1>3 DEF Receive, CallsInv, TypeOK, Requests
  <2>. QED  BY <1>3, <2>1 DEF Receive, Finish, TypeOK
<1>4. ASSUME NEW c \in Callers, TimeOut(c)  PROVE TypeOK'
  BY <1>4 DEF TimeOut, Finish, TypeOK
<1>5. CASE LoopWrite
  <2>1. loopReq \in Requests
    BY <1>5 DEF LoopWrite, WireInv
  <2>2. toServer' \in Seq(Requests)
    <3>1. toServer' = toServer \/ toServer' = Append(toServer, loopReq)
      BY <1>5 DEF LoopWrite
    <3>2. Append(toServer, loopReq) \in Seq(Requests)
      BY <2>1, SequenceFacts
    <3>. QED  BY <3>1, <3>2
  <2>3. respChan' \in [Requests -> {None, Failed} \cup Requests] /\ loop' \in {"recv", "read"}
    BY <1>5, <2>1 DEF LoopWrite, Respond, TypeOK
  <2>. QED  BY <1>5, <2>2, <2>3 DEF LoopWrite, Respond, TypeOK
<1>6. CASE LoopRead
  <2>1. toClient' \in Seq(Requests) /\ (toClient # <<>> => Head(toClient) \in Requests)
    BY <1>6, SequenceFacts DEF LoopRead
  <2>2. respChan' \in [Requests -> {None, Failed} \cup Requests]
    BY <1>6, <2>1 DEF LoopRead, Respond, TypeOK
  <2>. QED  BY <1>6, <2>1, <2>2 DEF LoopRead, Respond, TypeOK
<1>7. CASE Break
  <2>1. toServer' \in Seq(Requests)
    BY <1>7, SequenceFacts DEF Break
  <2>. QED  BY <1>7, <2>1 DEF Break, TypeOK
<1>8. CASE ServerRead
  <2>1. /\ Head(toServer) \in Requests
        /\ <<>> \in Seq(Requests) /\ Tail(toServer) \in Seq(Requests)
        /\ Append(served, Head(toServer)) \in Seq(Requests)
    BY <1>8, SequenceFacts DEF ServerRead
  <2>2. CASE Head(toServer) \in big
    BY <1>8, <2>1, <2>2 DEF ServerRead, TypeOK
  <2>3. CASE Head(toServer) \notin big
    BY <1>8, <2>1, <2>3 DEF ServerRead, TypeOK
  <2>. QED  BY <2>2, <2>3
<1>9. CASE ServerAnswer
  <2>1. toClient' \in Seq(Requests)
    BY <1>9, SequenceFacts DEF ServerAnswer
  <2>. QED  BY <1>9, <2>1 DEF ServerAnswer, TypeOK
<1>10. CASE UNCHANGED vars
  BY <1>10 DEF vars, TypeOK
<1>. QED  BY <1>1, <1>2, <1>3, <1>4, <1>5, <1>6, <1>7, <1>8, <1>9, <1>10
          DEF Next, Loop, Server

-----------------------------------------------------------------------------
(* The calls. *)

LEMMA CallsStep ==
    ASSUME TypeOK, CallsInv, TypeOK', [Next]_vars
    PROVE  CallsInv'
<1>0. accepted \in Seq(Requests)
  BY DEF TypeOK
<1> USE <1>0 DEF callVars, loopVars, wireVars, ghostVars, IsAccepted
<1>1. ASSUME NEW c \in Callers, Call(c)  PROVE CallsInv'
  <2>1. /\ issued' = issued + 1 /\ issued \in Nat /\ issued' \in Requests
        /\ accepted' = accepted /\ outcome' = outcome
        /\ \A d \in Callers : d # c => caller'[d] = caller[d] /\ current'[d] = current[d]
        /\ caller'[c] = "offering" /\ current'[c] = issued + 1
    BY <1>1 DEF Call, TypeOK, Requests
  <2>2. \A d \in Callers : caller[d] # "idle" => current[d] \in Int /\ current[d] # issued + 1
    BY <2>1 DEF CallsInv, TypeOK
  <2>3. outcome[issued + 1] = None
    BY <2>1 DEF CallsInv
  <2>4. \A i \in 1..Len(accepted) : accepted[i] \in 1..issued' /\ accepted[i] # issued + 1
    BY <2>1 DEF CallsInv
  <2>5. \A d \in Callers : caller'[d] # "idle" => current'[d] \in 1..issued'
    BY <2>1 DEF CallsInv
  <2>6. \A d, e \in Callers :
           d # e /\ caller'[d] # "idle" /\ caller'[e] # "idle" => current'[d] # current'[e]
    BY <2>1, <2>2 DEF CallsInv
  <2>7. \A d \in Callers : caller'[d] # "idle" => outcome'[current'[d]] = None
    BY <2>1, <2>3 DEF CallsInv
  <2>8. \A d \in Callers : caller'[d] = "offering" =>
           ~IsAccepted(current[d])'
    BY <2>1, <2>4 DEF CallsInv
  <2>9. \A d \in Callers : caller'[d] = "waiting" =>
           IsAccepted(current[d])'
    BY <2>1 DEF CallsInv
  <2>10. \A r \in Requests : r > issued' => outcome'[r] = None
    BY <2>1 DEF CallsInv, Requests
  <2>. QED  BY <2>1, <2>4, <2>5, <2>6, <2>7, <2>8, <2>9, <2>10 DEF CallsInv
<1>2. ASSUME NEW c \in Callers, Accept(c)  PROVE CallsInv'
  <2>1. current[c] \in Requests /\ current[c] \in 1..issued
    BY <1>2 DEF Accept, CallsInv, TypeOK, Requests
  <2>2. /\ Len(accepted') = Len(accepted) + 1
        /\ accepted'[Len(accepted) + 1] = current[c]
        /\ \A i \in 1..Len(accepted) : accepted'[i] = accepted[i]
        /\ Len(accepted) \in Nat
    BY <1>2, <2>1, SequenceFacts DEF Accept
  <2>3. /\ caller[c] = "offering" /\ caller'[c] = "waiting"
        /\ \A d \in Callers : d # c => caller'[d] = caller[d]
        /\ UNCHANGED <<current, issued, outcome>>
    BY <1>2 DEF Accept, TypeOK
  <2>4. \A i \in 1..Len(accepted') : accepted'[i] \in 1..issued'
    BY <2>1, <2>2, <2>3 DEF CallsInv
  <2>5. \A d \in Callers : caller'[d] = "offering" =>
           ~IsAccepted(current[d])'
    BY <2>2, <2>3 DEF CallsInv
  <2>6. \A d \in Callers : caller'[d] = "waiting" =>
           IsAccepted(current[d])'
    <3>1. ASSUME NEW d \in Callers, caller'[d] = "waiting", d # c
          PROVE  IsAccepted(current[d])'
      <4>1. PICK i \in 1..Len(accepted) : accepted[i] = current[d]
        BY <2>3, <3>1 DEF CallsInv
      <4>. QED  BY <4>1, <2>2, <2>3
    <3>. QED  BY <2>2, <2>3, <3>1
  <2>7. \A d \in Callers : caller'[d] # "idle" <=> caller[d] # "idle"
    BY <2>3
  <2>8. \A i, j \in 1..Len(accepted') : accepted'[i] = accepted'[j] => i = j
    BY <2>2, <2>3 DEF CallsInv
  <2>. QED  BY <2>3, <2>4, <2>5, <2>6, <2>7, <2>8 DEF CallsInv
<1>3. ASSUME NEW c \in Callers, Receive(c) \/ TimeOut(c)  PROVE CallsInv'
  <2>1. PICK value : Finish(c, value)
    BY <1>3 DEF Receive, TimeOut
  <2>2. /\ caller[c] = "waiting" /\ caller'[c] = "idle"
        /\ \A d \in Callers : d # c => caller'[d] = caller[d]
        /\ UNCHANGED <<current, issued, accepted>>
    BY <1>3, <2>1 DEF Receive, TimeOut, Finish, TypeOK
  <2>3. \A r \in Requests : r # current[c] => outcome'[r] = outcome[r]
    BY <2>1 DEF Finish, TypeOK
  <2>4. /\ current[c] \in 1..issued /\ issued \in Nat /\ issued \leq MaxCalls
        /\ \A d \in Callers : caller[d] # "idle" => current[d] \in Requests
    BY <2>2 DEF CallsInv, TypeOK, Requests
  <2>5. \A d \in Callers : caller'[d] # "idle" =>
           d # c /\ caller[d] # "idle" /\ current[d] # current[c]
    BY <2>2 DEF CallsInv
  <2>6. \A d \in Callers : caller'[d] # "idle" => outcome'[current'[d]] = None
    BY <2>2, <2>3, <2>4, <2>5 DEF CallsInv
  <2>7. \A r \in Requests : r > issued' => outcome'[r] = None
    <3>1. \A r \in Requests : r > issued => outcome[r] = None
      BY DEF CallsInv
    <3>2. \A r \in Requests : r > issued => r # current[c]
      BY <2>4 DEF Requests
    <3>. QED  BY <2>2, <2>3, <3>1, <3>2
  <2>. QED  BY <2>2, <2>5, <2>6, <2>7 DEF CallsInv
<1>4. CASE UNCHANGED <<callVars, accepted, outcome>>
  BY <1>4 DEF CallsInv
<1>. QED  BY <1>1, <1>2, <1>3, <1>4
          DEF Next, Loop, Server, LoopWrite, LoopRead, Break, ServerRead, ServerAnswer, vars

-----------------------------------------------------------------------------
(* The wire. *)

\* The wire carries a single frame, so taking it leaves the wire empty.
LEMMA OneFrame ==
    ASSUME TypeOK, WireInv
    PROVE  /\ toServer # <<>> =>
                /\ Len(toServer) = 1 /\ Tail(toServer) = <<>>
                /\ toClient = <<>> /\ server = NULL
           /\ toClient # <<>> =>
                /\ Len(toClient) = 1 /\ Tail(toClient) = <<>>
                /\ toServer = <<>> /\ server = NULL
           /\ server # NULL => toServer = <<>> /\ toClient = <<>>
<1>1. toServer \in Seq(Requests) /\ toClient \in Seq(Requests)
  BY DEF TypeOK
<1>2. /\ Len(toServer) \in Nat /\ (toServer = <<>> <=> Len(toServer) = 0)
      /\ Len(toClient) \in Nat /\ (toClient = <<>> <=> Len(toClient) = 0)
      /\ toServer # <<>> => Tail(toServer) \in Seq(Requests) /\ Len(Tail(toServer)) = Len(toServer) - 1
      /\ toClient # <<>> => Tail(toClient) \in Seq(Requests) /\ Len(Tail(toClient)) = Len(toClient) - 1
  BY <1>1, SequenceFacts
<1>3. /\ Len(toServer) + Len(toClient) <= 1
      /\ server # NULL => Len(toServer) + Len(toClient) = 0
  BY <1>2 DEF WireInv, WireIsSerial
<1>4. \A t \in Seq(Requests) : Len(t) = 0 => t = <<>>
  BY SequenceFacts
<1>5. ASSUME toServer # <<>>
      PROVE  Len(toServer) = 1 /\ Tail(toServer) = <<>> /\ toClient = <<>> /\ server = NULL
  <2>1. Len(toServer) # 0 /\ Len(toServer) \in Nat /\ Len(toClient) \in Nat
    BY <1>2, <1>5, Zenon
  <2>2. Len(toServer) = 1 /\ Len(toClient) = 0 /\ server = NULL
    <3>1. \A a, b \in Nat : a # 0 /\ a + b <= 1 => a = 1 /\ b = 0 /\ a + b # 0 /\ b + a # 0
      OBVIOUS
    <3>2. Len(toServer) + Len(toClient) <= 1
      BY <1>3, <2>1
    <3>. QED  BY <1>3, <2>1, <3>1, <3>2, Zenon
  <2>3. Tail(toServer) \in Seq(Requests) /\ Len(Tail(toServer)) = 0
    <3>1. Tail(toServer) \in Seq(Requests) /\ Len(Tail(toServer)) = Len(toServer) - 1
      BY <1>2, <1>5, Zenon
    <3>. QED  BY <2>2, <3>1
  <2>. QED  BY <1>2, <1>4, <2>2, <2>3, Zenon
<1>6. ASSUME toClient # <<>>
      PROVE  Len(toClient) = 1 /\ Tail(toClient) = <<>> /\ toServer = <<>> /\ server = NULL
  <2>1. Len(toClient) # 0 /\ Len(toClient) \in Nat /\ Len(toServer) \in Nat
    BY <1>2, <1>6, Zenon
  <2>2. Len(toClient) = 1 /\ Len(toServer) = 0 /\ server = NULL
    <3>1. \A a, b \in Nat : a # 0 /\ a + b <= 1 => a = 1 /\ b = 0 /\ a + b # 0 /\ b + a # 0
      OBVIOUS
    <3>2. Len(toClient) + Len(toServer) <= 1
      BY <1>3, <2>1
    <3>. QED  BY <1>3, <2>1, <3>1, <3>2, Zenon
  <2>3. Tail(toClient) \in Seq(Requests) /\ Len(Tail(toClient)) = 0
    <3>1. Tail(toClient) \in Seq(Requests) /\ Len(Tail(toClient)) = Len(toClient) - 1
      BY <1>2, <1>6, Zenon
    <3>. QED  BY <2>2, <3>1
  <2>. QED  BY <1>2, <1>4, <2>2, <2>3, Zenon
<1>. QED  BY <1>5, <1>6

LEMMA WireStep ==
    ASSUME TypeOK, CallsInv, WireInv, [Next]_vars
    PROVE  WireInv'
<1>0. /\ toServer \in Seq(Requests) /\ toClient \in Seq(Requests)
      /\ server \in Requests \cup {NULL}
      /\ Len(<<>>) = 0
  BY DEF TypeOK
<1> USE <1>0, OneFrame DEF callVars, loopVars, wireVars, ghostVars
<1>1. ASSUME NEW c \in Callers, Accept(c)  PROVE WireInv'
  <2>1. current[c] \in Requests
    BY <1>1 DEF Accept, CallsInv, TypeOK, Requests
  <2>. QED  BY <1>1, <2>1 DEF Accept, WireInv, WireIsSerial
<1>2. CASE LoopWrite
  <2>1. CASE conn = "up" /\ toServer' = Append(toServer, loopReq) /\ loop' = "read"
    <3>1. toServer = <<>> /\ toClient = <<>> /\ server = NULL /\ loopReq \in Requests
      BY <1>2, <2>1 DEF LoopWrite, WireInv, WireIsSerial
    <3>2. Len(toServer') = 1 /\ toServer'[1] = loopReq
      BY <2>1, <3>1, SequenceFacts
    <3>3. UNCHANGED <<conn, toClient, server, loopReq>>
      BY <1>2, <2>1 DEF LoopWrite, Respond
    <3>. QED  BY <2>1, <3>1, <3>2, <3>3 DEF WireInv, WireIsSerial
  <2>2. CASE /\ UNCHANGED <<toServer, toClient, server, conn, loopReq>>
             /\ \/ loop' = "recv"
                \/ loop' = "read" /\ conn = "down"
    <3>1. toClient = <<>> /\ loopReq \in Requests
      BY <1>2 DEF LoopWrite, WireInv
    <3>. QED  BY <1>2, <2>2, <3>1 DEF WireInv, WireIsSerial, LoopWrite
  <2>. QED  BY <1>2, <2>1, <2>2 DEF LoopWrite, Respond
<1>3. CASE LoopRead
  <2>1. toClient' = <<>> /\ loop' = "recv" /\ UNCHANGED <<conn, toServer, server, loopReq>>
    BY <1>3 DEF LoopRead, Respond
  <2>2. conn = "up" => toServer = <<>> /\ server = NULL
    BY <1>3 DEF LoopRead
  <2>3. Len(toServer) \in Nat /\ Len(toClient) \in Nat
    BY SequenceFacts
  <2>. QED  BY <1>3, <2>1, <2>2, <2>3 DEF WireInv, WireIsSerial, LoopRead
<1>4. CASE Break
  <2>1. /\ conn' = "down" /\ UNCHANGED <<toClient, loop, loopReq>>
        /\ toServer' \in {toServer, <<>>} /\ server' \in {server, NULL}
    BY <1>4 DEF Break
  <2>2. Len(toServer) \in Nat /\ Len(toClient) \in Nat
    BY SequenceFacts
  <2>. QED  BY <2>1, <2>2 DEF WireInv, WireIsSerial
<1>5. CASE ServerRead
  <2>1. /\ toServer' = <<>> /\ toClient = <<>> /\ UNCHANGED <<toClient, loop, loopReq>>
        /\ \/ conn' = "down" /\ server' = NULL
           \/ conn' = conn /\ server' = Head(toServer)
    BY <1>5 DEF ServerRead
  <2>2. Head(toServer) = toServer[1] /\ Head(toServer) \in Requests
    BY <1>5, SequenceFacts DEF ServerRead
  <2>3. conn = "up" => loop = "read"
    BY <1>5 DEF ServerRead, WireInv, WireIsSerial
  <2>. QED  BY <1>5, <2>1, <2>2, <2>3 DEF WireInv, WireIsSerial, ServerRead
<1>6. CASE ServerAnswer
  <2>1. /\ toServer = <<>> /\ toClient = <<>> /\ server' = NULL
        /\ UNCHANGED <<conn, toServer, loop, loopReq>>
        /\ \/ conn = "up" /\ toClient' = Append(toClient, server)
           \/ conn = "down" /\ toClient' = toClient
    BY <1>6 DEF ServerAnswer
  <2>2. CASE conn = "up" /\ toClient' = Append(toClient, server)
    <3>1. server = loopReq /\ loop = "read" /\ server \in Requests
      BY <1>6, <2>2 DEF ServerAnswer, WireInv, WireIsSerial
    <3>2. Len(toClient') = 1 /\ toClient'[1] = server
      BY <2>1, <2>2, <3>1, SequenceFacts
    <3>. QED  BY <2>1, <2>2, <3>1, <3>2 DEF WireInv, WireIsSerial
  <2>. QED  BY <2>1, <2>2 DEF WireInv, WireIsSerial
<1>7. CASE UNCHANGED <<loopVars, wireVars, server>>
  BY <1>7 DEF WireInv, WireIsSerial
<1>. QED  BY <1>1, <1>2, <1>3, <1>4, <1>5, <1>6, <1>7
          DEF Next, Loop, Server, Call, Receive, TimeOut, Finish, vars

-----------------------------------------------------------------------------
(* What the server has acted on. *)

\* A step of the server acts on the frame it takes; no other step changes what
\* was acted on.
LEMMA ServedStep ==
    ASSUME TypeOK, [Next]_vars
    PROVE  /\ \A r \in Requests : IsServed(r) => IsServed(r)'
           /\ ~ServerRead => served' = served
           /\ ServerRead => \/ served' = served /\ server' = NULL
                           \/ /\ served' = Append(served, Head(toServer))
                              /\ server' = Head(toServer)
                              /\ Head(toServer) \in Requests
                              /\ \A r \in Requests :
                                    IsServed(r)' <=> IsServed(r) \/ r = Head(toServer)
<1>0. served \in Seq(Requests) /\ toServer \in Seq(Requests)
  BY DEF TypeOK
<1>1. ~ServerRead => served' = served
  BY DEF Next, Loop, Server, Call, Accept, Receive, TimeOut, Finish, LoopWrite, LoopRead,
         Break, ServerAnswer, vars, ghostVars
<1>2. CASE ServerRead
  <2>1. CASE Head(toServer) \in big
    BY <1>2, <2>1 DEF ServerRead, IsServed
  <2>2. CASE Head(toServer) \notin big
    <3>1. /\ served' = Append(served, Head(toServer)) /\ server' = Head(toServer)
          /\ Head(toServer) \in Requests
      BY <1>0, <1>2, <2>2, SequenceFacts DEF ServerRead
    <3>2. /\ Len(served') = Len(served) + 1 /\ Len(served) \in Nat
          /\ served'[Len(served) + 1] = Head(toServer)
          /\ \A i \in 1..Len(served) : served'[i] = served[i]
      BY <1>0, <3>1, SequenceFacts
    <3>3. \A r \in Requests : IsServed(r)' <=> IsServed(r) \/ r = Head(toServer)
      BY <3>2 DEF IsServed
    <3>. QED  BY <1>2, <3>1, <3>3
  <2>. QED  BY <2>1, <2>2
<1>. QED  BY <1>1, <1>2 DEF IsServed

-----------------------------------------------------------------------------
(* The answers. *)

LEMMA AnswersStep ==
    ASSUME TypeOK, TypeOK', WireInv, WireInv', AnswersInv, [Next]_vars
    PROVE  AnswersInv'
<1>0. /\ toServer \in Seq(Requests) /\ toClient \in Seq(Requests)
      /\ server \in Requests \cup {NULL}
      /\ respChan \in [Requests -> {None, Failed} \cup Requests]
      /\ toClient' \in Seq(Requests)
      /\ server' \in Requests \cup {NULL}
  BY DEF TypeOK
<1>1. /\ toClient # <<>> => toClient[1] \in Requests /\ toClient[1] = Head(toClient)
      /\ toClient' # <<>> => toClient'[1] \in Requests
  <2>1. toClient # <<>> => Head(toClient) \in Requests /\ Head(toClient) = toClient[1]
    BY <1>0, SequenceFacts
  <2>2. toClient' # <<>> => Head(toClient') \in Requests /\ Head(toClient') = toClient'[1]
    BY <1>0, SequenceFacts
  <2>. QED  BY <2>1, <2>2
<1>2. \A r \in Requests : IsServed(r) => IsServed(r)'
  BY ServedStep
<1> USE <1>0, <1>1, <1>2, RequestFacts DEF callVars, loopVars, wireVars, ghostVars
<1>3. CASE LoopWrite
  <2>1. /\ loopReq \in Requests /\ toClient' = toClient /\ server' = server
        /\ \/ respChan' = respChan
           \/ respChan' = [respChan EXCEPT ![loopReq] = Failed]
    BY <1>3 DEF LoopWrite, Respond, WireInv
  <2>2. \A r \in Requests : respChan'[r] = respChan[r] \/ respChan'[r] = Failed
    BY <2>1
  <2>3. \A r \in Requests : respChan'[r] = r => IsServed(r)'
    BY <2>2 DEF AnswersInv
  <2>4. server' # NULL => IsServed(server)'
    BY <2>1 DEF AnswersInv, IsServed
  <2>5. toClient' # <<>> => IsServed(toClient[1])'
    BY <2>1 DEF AnswersInv, IsServed
  <2>6. \A r \in Requests : respChan'[r] \in {None, Failed, r}
    BY <2>2 DEF AnswersInv
  <2>. QED  BY <2>3, <2>4, <2>5, <2>6 DEF AnswersInv
<1>4. CASE LoopRead
  <2>1. loopReq \in Requests /\ toClient' = <<>> /\ server' = server
    BY <1>3, <1>4, OneFrame DEF LoopRead, WireInv
  <2>2. \A r \in Requests : r # loopReq => respChan'[r] = respChan[r]
    BY <1>4, <2>1 DEF LoopRead, Respond
  <2>3. \/ respChan'[loopReq] = Failed
        \/ respChan'[loopReq] = loopReq /\ IsServed(loopReq)
    BY <1>4, <2>1 DEF LoopRead, Respond, WireInv, AnswersInv
  <2>4. \A r \in Requests : respChan'[r] = r => IsServed(r)'
    BY <2>2, <2>3 DEF AnswersInv
  <2>5. server' # NULL => IsServed(server)'
    BY <2>1 DEF AnswersInv, IsServed
  <2>6. \A r \in Requests : respChan'[r] \in {None, Failed, r}
    BY <2>2, <2>3 DEF AnswersInv
  <2>. QED  BY <2>1, <2>4, <2>5, <2>6 DEF AnswersInv
<1>5. CASE Break
  BY <1>5 DEF Break, AnswersInv
<1>6. CASE ServerRead
  <2>1. respChan' = respChan /\ toClient' = toClient
    BY <1>6 DEF ServerRead
  <2>2. server' # NULL => IsServed(server)'
    BY <1>6, ServedStep DEF ServerRead, IsServed
  <2>. QED  BY <2>1, <2>2 DEF AnswersInv
<1>7. CASE ServerAnswer
  <2>1. /\ server \in Requests /\ server' = NULL /\ respChan' = respChan /\ toClient = <<>>
        /\ \/ toClient' = Append(toClient, server)
           \/ toClient' = toClient
    BY <1>7, OneFrame DEF ServerAnswer
  <2>2. Append(toClient, server)[1] = server
    BY <2>1
  <2>. QED  BY <2>1, <2>2 DEF AnswersInv
<1>8. CASE UNCHANGED <<respChan, toClient, server>>
  BY <1>8 DEF AnswersInv
<1>. QED  BY <1>3, <1>4, <1>5, <1>6, <1>7, <1>8
          DEF Next, Loop, Server, Call, Accept, Receive, TimeOut, Finish, vars

LEMMA OutcomeStep ==
    ASSUME TypeOK, CallsInv, AnswersInv, AnswerMatches, [Next]_vars
    PROVE  AnswerMatches'
<1>1. ASSUME NEW c \in Callers, Receive(c) \/ TimeOut(c)  PROVE AnswerMatches'
  <2>1. caller[c] = "waiting" /\ current[c] \in Requests
    BY <1>1 DEF Receive, TimeOut, CallsInv, TypeOK, Requests
  <2>2. PICK value \in {Failed, TimedOut, current[c]} :
            outcome' = [outcome EXCEPT ![current[c]] = value]
    BY <1>1, <2>1 DEF Receive, TimeOut, Finish, AnswersInv
  <2>. QED  BY <2>1, <2>2 DEF AnswerMatches, TypeOK
<1>2. CASE UNCHANGED outcome
  BY <1>2 DEF AnswerMatches
<1>. QED  BY <1>1, <1>2
          DEF Next, Loop, Server, Call, Accept, LoopWrite, LoopRead, Break,
              ServerRead, ServerAnswer, vars, ghostVars

-----------------------------------------------------------------------------
(* The order of what the server acts on. *)

LEMMA OrderStep ==
    ASSUME TypeOK, TypeOK', CallsInv, CallsInv', WireInv, OrderInv, [Next]_vars
    PROVE  OrderInv'
<1>0. /\ toServer \in Seq(Requests) /\ accepted \in Seq(Requests)
      /\ served \in Seq(Requests) /\ issued \in Nat /\ issued <= MaxCalls
      /\ Len(accepted) \in Nat
  BY SequenceFacts DEF TypeOK
<1>a. \A i \in 1..Len(accepted) : accepted[i] \in Requests
  BY <1>0, SequenceFacts
<1>b. toServer # <<>> => Head(toServer) = toServer[1] /\ Head(toServer) \in Requests
  BY <1>0, SequenceFacts
<1> USE <1>0, <1>a, <1>b DEF callVars, loopVars, wireVars, ghostVars
<1>1. ASSUME NEW c \in Callers, Call(c)  PROVE OrderInv'
  <2>1. /\ issued' = issued + 1 /\ current'[c] = issued + 1
        /\ UNCHANGED <<served, accepted, loop, loopReq, toServer>>
        /\ \A d \in Callers : d # c => caller'[d] = caller[d] /\ current'[d] = current[d]
    BY <1>1 DEF Call, TypeOK
  <2>2. \A k \in 1..Len(served') : served'[k] \in 1..issued'
    BY <2>1 DEF OrderInv
  <2>3. \A d \in Callers : caller'[d] = "offering" => ~IsServed(current[d])'
    <3>1. \A k \in 1..Len(served) : served[k] # issued + 1
      BY DEF OrderInv
    <3>2. \A d \in Callers : caller[d] = "offering" =>
             \A k \in 1..Len(served) : served[k] # current[d]
      BY DEF OrderInv, IsServed
    <3>3. \A d \in Callers : caller'[d] = "offering" =>
             \A k \in 1..Len(served) : served[k] # current'[d]
      BY <2>1, <3>1, <3>2
    <3>. QED  BY <2>1, <3>3 DEF IsServed
  <2>4. toServer' # <<>> =>
          \E i \in 1..Len(accepted') :
            /\ accepted'[i] = toServer'[1] /\ UnservedFrom(i)'
            /\ loop' = "write" => i < Len(accepted')
    BY <2>1 DEF OrderInv, UnservedFrom, IsServed
  <2>5. loop' = "write" =>
          /\ Len(accepted') > 0 /\ accepted'[Len(accepted')] = loopReq'
          /\ UnservedFrom(Len(accepted))'
    BY <2>1 DEF OrderInv, UnservedFrom, IsServed
  <2>. QED  BY <2>2, <2>3, <2>4, <2>5 DEF OrderInv
<1>2. ASSUME NEW c \in Callers, Accept(c)  PROVE OrderInv'
  <2>1. /\ caller[c] = "offering" /\ loop' = "write" /\ loopReq' = current[c]
        /\ UNCHANGED <<current, issued, served, toServer>>
        /\ \A d \in Callers : caller'[d] = "offering" => caller[d] = "offering"
        /\ current[c] \in Requests
    BY <1>2 DEF Accept, CallsInv, TypeOK, Requests
  <2>2. /\ Len(accepted') = Len(accepted) + 1
        /\ accepted'[Len(accepted) + 1] = current[c]
        /\ \A i \in 1..Len(accepted) : accepted'[i] = accepted[i]
    BY <1>2, <2>1, SequenceFacts DEF Accept
  <2>3. ~IsServed(current[c]) /\ (\A r \in Requests : IsServed(r)' <=> IsServed(r))
    BY <2>1 DEF OrderInv, IsServed
  <2>4. UnservedFrom(Len(accepted))'
    BY <2>1, <2>2, <2>3 DEF UnservedFrom, IsServed
  <2>5. ASSUME toServer # <<>>
        PROVE  \E i \in 1..Len(accepted') :
                 /\ accepted'[i] = toServer'[1] /\ UnservedFrom(i)' /\ i < Len(accepted')
    <3>1. PICK i \in 1..Len(accepted) : accepted[i] = toServer[1] /\ UnservedFrom(i)
      BY <2>5 DEF OrderInv
    <3>2. \A j \in i..Len(accepted') : ~IsServed(accepted'[j])
      <4>1. TAKE j \in i..Len(accepted')
      <4>2. CASE j = Len(accepted) + 1
        BY <2>2, <2>3, <4>2
      <4>3. CASE j # Len(accepted) + 1
        <5>1. j \in i..Len(accepted)
          BY <2>2, <3>1, <4>1, <4>3
        <5>. QED  BY <2>2, <3>1, <5>1 DEF UnservedFrom
      <4>. QED  BY <4>2, <4>3
    <3>3. UnservedFrom(i)'
      BY <3>2, <2>1 DEF UnservedFrom, IsServed
    <3>. QED  BY <2>1, <2>2, <3>1, <3>3
  <2>6. \A d \in Callers : caller'[d] = "offering" => ~IsServed(current[d])'
    BY <2>1 DEF OrderInv, IsServed
  <2>7. \A k \in 1..Len(served') : served'[k] \in 1..issued'
    BY <2>1 DEF OrderInv
  <2>. QED  BY <2>1, <2>2, <2>4, <2>5, <2>6, <2>7 DEF OrderInv
<1>3. CASE LoopWrite
  <2>1. /\ loop = "write" /\ loop' # "write"
        /\ UNCHANGED <<callVars, served, accepted>>
        /\ \/ toServer' = toServer
           \/ toServer' = Append(toServer, loopReq) /\ conn = "up"
    BY <1>3 DEF LoopWrite, Respond
  <2>2. CASE toServer' = toServer
    <3>1. toServer' # <<>> =>
            \E i \in 1..Len(accepted) : accepted[i] = toServer'[1] /\ UnservedFrom(i)
      BY <2>2 DEF OrderInv
    <3>2. toServer' # <<>> =>
            \E i \in 1..Len(accepted') : accepted'[i] = toServer'[1] /\ UnservedFrom(i)'
      BY <2>1, <3>1 DEF UnservedFrom, IsServed
    <3>3. /\ \A k \in 1..Len(served') : served'[k] \in 1..issued'
          /\ \A d \in Callers : caller'[d] = "offering" => ~IsServed(current[d])'
      BY <2>1 DEF OrderInv, IsServed
    <3>. QED  BY <2>1, <3>2, <3>3 DEF OrderInv
  <2>3. CASE toServer' = Append(toServer, loopReq) /\ conn = "up"
    <3>1. toServer = <<>> /\ loopReq \in Requests
      BY <2>1, <2>3 DEF WireInv, WireIsSerial
    <3>2. toServer'[1] = loopReq
      BY <2>3, <3>1
    <3>3. /\ Len(accepted) \in 1..Len(accepted) /\ accepted[Len(accepted)] = loopReq
          /\ UnservedFrom(Len(accepted))
      BY <2>1 DEF OrderInv
    <3>. QED  BY <2>1, <3>2, <3>3 DEF OrderInv, UnservedFrom, IsServed
  <2>. QED  BY <2>1, <2>2, <2>3
<1>4. CASE LoopRead \/ Break \/ ServerAnswer
  <2>1. /\ UNCHANGED <<callVars, served, accepted>>
        /\ toServer' \in {toServer, <<>>}
        /\ loop' = "write" => loop = "write" /\ loopReq' = loopReq
    BY <1>4 DEF LoopRead, Break, ServerAnswer, Respond
  <2>. QED  BY <2>1 DEF OrderInv, UnservedFrom, IsServed
<1>5. CASE ServerRead
  <2>1. /\ UNCHANGED <<callVars, loopVars, accepted>> /\ toServer # <<>>
        /\ toServer' = <<>>
    BY <1>5, OneFrame DEF ServerRead
  <2>2. PICK i \in 1..Len(accepted) :
            /\ accepted[i] = toServer[1]
            /\ UnservedFrom(i)
            /\ loop = "write" => i < Len(accepted)
    BY <2>1 DEF OrderInv
  <2>3. \A r \in Requests : IsServed(r)' => IsServed(r) \/ r = accepted[i]
    BY <1>5, <2>1, <2>2, ServedStep DEF IsServed
  <2>4. accepted[i] \in 1..issued
    BY <2>2 DEF CallsInv
  <2>5. \A k \in 1..Len(served') : served'[k] \in 1..issued'
    <3>1. \A k \in 1..Len(served') : served'[k] \in Requests
      BY SequenceFacts DEF TypeOK
    <3>2. \A r \in Requests : IsServed(r) => r \in 1..issued
      BY DEF OrderInv, IsServed
    <3>3. ASSUME NEW r \in Requests, NEW k \in 1..Len(served'), served'[k] = r
          PROVE  r \in 1..issued
      <4>1. IsServed(r)'
        BY <3>3 DEF IsServed
      <4>. QED  BY <2>3, <2>4, <3>2, <4>1
    <3>. QED  BY <2>1, <3>1, <3>3
  <2>6. \A d \in Callers : caller'[d] = "offering" => ~IsServed(current[d])'
    <3>1. \A d \in Callers : caller[d] = "offering" =>
             current[d] \in Requests /\ current[d] # accepted[i] /\ ~IsServed(current[d])
      <4>1. \A d \in Callers : caller[d] = "offering" => ~IsServed(current[d])
        BY DEF OrderInv
      <4>2. \A d \in Callers : caller[d] = "offering" =>
               current[d] \in 1..issued /\ ~IsAccepted(current[d])
        BY DEF CallsInv
      <4>3. \A r \in 1..issued : r \in Requests
        BY DEF Requests
      <4>4. \A d \in Callers : ~IsAccepted(current[d]) => current[d] # accepted[i]
        BY <2>2 DEF IsAccepted
      <4>. QED  BY <4>1, <4>2, <4>3, <4>4
    <3>. QED  BY <2>1, <2>3, <3>1 DEF IsServed
  <2>7. loop' = "write" =>
          /\ Len(accepted') > 0 /\ accepted'[Len(accepted')] = loopReq'
          /\ UnservedFrom(Len(accepted))'
    <3>1. SUFFICES ASSUME loop = "write"
                   PROVE  UnservedFrom(Len(accepted))'
      BY <2>1 DEF OrderInv
    <3>2. /\ Len(accepted) \in 1..Len(accepted) /\ ~IsServed(accepted[Len(accepted)])
          /\ accepted[Len(accepted)] # accepted[i]
      <4>1. Len(accepted) \in 1..Len(accepted) /\ UnservedFrom(Len(accepted))
        BY <3>1 DEF OrderInv
      <4>2. \A j, k \in 1..Len(accepted) : accepted[j] = accepted[k] => j = k
        BY DEF CallsInv
      <4>3. i < Len(accepted)
        BY <2>2, <3>1
      <4>. QED  BY <4>1, <4>2, <4>3, <2>2 DEF UnservedFrom
    <3>3. ~IsServed(accepted[Len(accepted)])'
      BY <2>1, <2>3, <3>2 DEF IsServed
    <3>. QED  BY <2>1, <3>3 DEF UnservedFrom
  <2>. QED  BY <2>1, <2>5, <2>6, <2>7 DEF OrderInv
<1>6. ASSUME NEW c \in Callers, Receive(c) \/ TimeOut(c)  PROVE OrderInv'
  <2>1. /\ UNCHANGED <<current, issued, served, accepted, loop, loopReq, toServer>>
        /\ \A d \in Callers : caller'[d] = "offering" => caller[d] = "offering"
    BY <1>6 DEF Receive, TimeOut, Finish, TypeOK
  <2>. QED  BY <2>1 DEF OrderInv, UnservedFrom, IsServed
<1>7. CASE UNCHANGED vars
  BY <1>7 DEF vars, OrderInv, UnservedFrom, IsServed
<1>. QED  BY <1>1, <1>2, <1>3, <1>4, <1>5, <1>6, <1>7 DEF Next, Loop, Server

-----------------------------------------------------------------------------
(* The theorems. *)

LEMMA LoopInvInductive ==
    /\ Init => LoopInv
    /\ LoopInv /\ [Next]_vars => LoopInv'
<1>1. Init => LoopInv
  <2>1. SUFFICES ASSUME Init PROVE LoopInv
    OBVIOUS
  <2>2. <<>> \in Seq(Requests) /\ Len(<<>>) = 0 /\ 1..0 = {}
    OBVIOUS
  <2>3. TypeOK
    BY <2>1, <2>2 DEF Init, TypeOK
  <2>. QED  BY <2>1, <2>2, <2>3, RequestFacts
            DEF Init, LoopInv, CallsInv, WireInv, WireIsSerial, AnswersInv, OrderInv,
                AnswerMatches, IsAccepted, IsServed
<1>2. LoopInv /\ [Next]_vars => LoopInv'
  BY TypeStep, CallsStep, WireStep, AnswersStep, OrderStep, OutcomeStep DEF LoopInv
<1>. QED  BY <1>1, <1>2

\* The loop and the connection keep to their invariant.
LEMMA LoopKeepsInv == Spec => []LoopInv
BY LoopInvInductive, PTL DEF Spec

\* Agent.Request and StartRequestLoop: the variables keep their types.
THEOREM TypeCorrect == Spec => []TypeOK
<1>1. LoopInv => TypeOK
  BY DEF LoopInv
<1>. QED  BY <1>1, LoopKeepsInv, PTL

\* agent.go:131-140: no goroutine gets the answer to another request, whatever
\* timeouts and breaks of the connection do.
THEOREM AnswersMatch == Spec => []AnswerMatches
<1>1. LoopInv => AnswerMatches
  BY DEF LoopInv
<1>. QED  BY <1>1, LoopKeepsInv, PTL

\* agent.go:80-129 and tcpserver.go:82-260: the stream never carries two
\* frames, and none between two requests.
THEOREM WireStaysSerial == Spec => []WireIsSerial
<1>1. LoopInv => WireIsSerial
  BY DEF LoopInv, WireInv
<1>. QED  BY <1>1, LoopKeepsInv, PTL

\* Nothing the client does while it runs gives it a cipher or takes it away.
LEMMA CipherStays == [Next]_vars => cipherReady' = cipherReady
BY DEF Next, Loop, Server, Call, Accept, Receive, TimeOut, Finish, LoopWrite, LoopRead,
       Break, ServerRead, ServerAnswer, callVars, vars

\* Without its cipher the loop never waits for an answer, and the server sees nothing.
LEMMA SilentStep ==
    ASSUME SilentInv, [Next]_vars
    PROVE  SilentInv'
<1> SUFFICES ASSUME ~cipherReady PROVE SilentInv'
  BY CipherStays DEF SilentInv
<1> USE DEF SilentInv, callVars, loopVars, wireVars, ghostVars
<1>1. ~LoopRead /\ ~ServerRead /\ ~ServerAnswer
  BY DEF LoopRead, ServerRead, ServerAnswer
<1>2. CASE LoopWrite
  BY <1>2 DEF LoopWrite, Respond
<1>3. CASE Break
  BY <1>3 DEF Break
<1>4. CASE UNCHANGED <<loop, wireVars, server, served>>
  BY <1>4
<1>5. ASSUME NEW c \in Callers, Accept(c)  PROVE SilentInv'
  BY <1>5 DEF Accept
<1>. QED  BY <1>1, <1>2, <1>3, <1>4, <1>5
          DEF Next, Loop, Server, Call, Receive, TimeOut, Finish, vars

\* What the loop puts into a channel: the request was taken last, its channel
\* was empty, and an answer finds no channel with an error in it.
LEMMA ErrorRespond ==
    ASSUME TypeOK, CallsInv, WireInv, ErrorInv,
           NEW v \in {Failed} \cup Requests,
           loop # "recv", respChan' = [respChan EXCEPT ![loopReq] = v],
           loop' = "recv", toClient' = <<>>,
           UNCHANGED <<callVars, conn, ghostVars>>,
           v # Failed => toClient # <<>>,
           v = Failed => conn = "down" \/ ~cipherReady
    PROVE  ErrorInv'
<1> USE DEF callVars, ghostVars
<1>0. /\ respChan \in [Requests -> {None, Failed} \cup Requests]
      /\ accepted \in Seq(Requests) /\ Len(accepted) \in Nat
      /\ \A i \in 1..Len(accepted) : accepted[i] \in Requests
      /\ loopReq \in Requests
  BY SequenceFacts DEF TypeOK, WireInv
<1>1. /\ Len(accepted) > 0 /\ accepted[Len(accepted)] = loopReq
      /\ respChan[loopReq] = None
  BY DEF ErrorInv
<1>2. /\ respChan'[loopReq] = v
      /\ \A r \in Requests : r # loopReq => respChan'[r] = respChan[r]
  BY <1>0
<1>3. \A r \in Requests : respChan'[r] # None => IsAccepted(r)'
  BY <1>0, <1>1, <1>2 DEF ErrorInv, IsAccepted
<1>4. \A r \in Requests : outcome'[r] \in {None, TimedOut} \/ outcome'[r] = respChan'[r]
  BY <1>1, <1>2 DEF ErrorInv
<1>5. \A r \in Requests :
        respChan'[r] = Failed => toClient' = <<>> /\ (conn' = "down" \/ ~cipherReady')
  BY <1>2 DEF ErrorInv
<1>6. ASSUME NEW i \in 1..Len(accepted), NEW j \in 1..Len(accepted),
             i < j, respChan'[accepted[i]] = Failed
      PROVE  respChan'[accepted[j]] \in {None, Failed}
  <2>1. accepted[i] # loopReq
    BY <1>0, <1>1, <1>6 DEF CallsInv
  <2>2. respChan[accepted[i]] = Failed
    BY <1>0, <1>2, <1>6, <2>1
  <2>3. v = Failed
    BY <1>0, <2>2 DEF ErrorInv
  <2>. QED  BY <1>0, <1>2, <1>6, <2>2, <2>3 DEF ErrorInv
<1>. QED  BY <1>3, <1>4, <1>5, <1>6 DEF ErrorInv

LEMMA ErrorStep ==
    ASSUME LoopInv, SilentInv, ErrorInv, [Next]_vars
    PROVE  ErrorInv'
<1> USE DEF callVars, loopVars, wireVars, ghostVars
<1>0. /\ TypeOK /\ CallsInv /\ WireInv
      /\ accepted \in Seq(Requests) /\ Len(accepted) \in Nat
      /\ \A i \in 1..Len(accepted) : accepted[i] \in Requests
      /\ outcome \in [Requests -> {None, Failed, TimedOut} \cup Requests]
      /\ cipherReady' = cipherReady
  BY SequenceFacts, CipherStays DEF LoopInv, TypeOK
<1>1. ASSUME NEW c \in Callers, Accept(c)  PROVE ErrorInv'
  <2>1. /\ current[c] \in Requests /\ ~IsAccepted(current[c])
        /\ loop' = "write" /\ loopReq' = current[c]
        /\ accepted' = Append(accepted, current[c])
        /\ UNCHANGED <<respChan, conn, toClient, outcome>>
    BY <1>0, <1>1 DEF Accept, CallsInv, TypeOK, Requests
  <2>2. /\ Len(accepted') = Len(accepted) + 1
        /\ accepted'[Len(accepted) + 1] = current[c]
        /\ \A i \in 1..Len(accepted) : accepted'[i] = accepted[i]
    BY <1>0, <2>1, SequenceFacts
  <2>3. respChan[current[c]] = None
    BY <2>1 DEF ErrorInv
  <2>4. \A r \in Requests : respChan'[r] # None => IsAccepted(r)'
    <3>1. SUFFICES ASSUME NEW r \in Requests, respChan[r] # None PROVE IsAccepted(r)'
      BY <2>1
    <3>2. PICK i \in 1..Len(accepted) : accepted[i] = r
      BY <3>1 DEF ErrorInv, IsAccepted
    <3>. QED  BY <1>0, <2>2, <3>2 DEF IsAccepted
  <2>5. ASSUME NEW i \in 1..Len(accepted'), NEW j \in 1..Len(accepted'),
               i < j, respChan'[accepted'[i]] = Failed
        PROVE  respChan'[accepted'[j]] \in {None, Failed}
    <3>1. CASE j = Len(accepted) + 1
      BY <2>1, <2>2, <2>3, <3>1
    <3>2. CASE j # Len(accepted) + 1
      <4>1. i \in 1..Len(accepted) /\ j \in 1..Len(accepted)
        BY <1>0, <2>2, <2>5, <3>2
      <4>. QED  BY <2>1, <2>2, <2>5, <4>1 DEF ErrorInv
    <3>. QED  BY <3>1, <3>2
  <2>6. /\ \A r \in Requests : outcome'[r] \in {None, TimedOut} \/ outcome'[r] = respChan'[r]
        /\ \A r \in Requests :
             respChan'[r] = Failed => toClient' = <<>> /\ (conn' = "down" \/ ~cipherReady')
    BY <1>0, <2>1 DEF ErrorInv
  <2>. QED  BY <1>0, <2>1, <2>2, <2>3, <2>4, <2>5, <2>6 DEF ErrorInv
<1>2. ASSUME NEW c \in Callers, Receive(c) \/ TimeOut(c)  PROVE ErrorInv'
  <2>1. /\ UNCHANGED <<loopVars, conn, toClient, accepted>>
        /\ outcome' = [outcome EXCEPT ![current[c]] = respChan[current[c]]]
             \/ outcome' = [outcome EXCEPT ![current[c]] = TimedOut]
    BY <1>2 DEF Receive, TimeOut, Finish
  <2>2. \A r \in Requests : outcome'[r] \in {None, TimedOut} \/ outcome'[r] = respChan'[r]
    BY <1>0, <2>1 DEF ErrorInv
  <2>. QED  BY <1>0, <2>1, <2>2 DEF ErrorInv, IsAccepted
<1>3. CASE LoopWrite
  <2>1. toClient = <<>>
    BY <1>0, <1>3 DEF LoopWrite, WireInv
  <2>2. CASE Respond(Failed)
    BY <1>0, <1>3, <2>1, <2>2, ErrorRespond DEF LoopWrite, Respond
  <2>3. CASE ~Respond(Failed)
    <3>1. /\ loop = "write" /\ loop' = "read"
          /\ UNCHANGED <<loopReq, respChan, callVars, conn, toClient, ghostVars>>
      BY <1>3, <2>3 DEF LoopWrite
    <3>. QED  BY <1>0, <3>1 DEF ErrorInv, IsAccepted
  <2>. QED  BY <2>2, <2>3
<1>4. CASE LoopRead
  <2>1. CASE toClient # <<>> /\ Respond(Head(toClient)) /\ toClient' = Tail(toClient)
    <3>1. Head(toClient) \in Requests /\ toClient' = <<>>
      BY <1>0, <2>1, OneFrame, SequenceFacts DEF TypeOK
    <3>2. Head(toClient) # Failed
      BY <3>1, RequestFacts
    <3>3. /\ loop = "read" /\ loop' = "recv"
          /\ respChan' = [respChan EXCEPT ![loopReq] = Head(toClient)]
          /\ UNCHANGED <<callVars, conn, ghostVars>>
      BY <1>4, <2>1 DEF LoopRead, Respond
    <3>. QED  BY <1>0, <2>1, <3>1, <3>2, <3>3, ErrorRespond
  <2>2. CASE conn = "down" /\ Respond(Failed) /\ toClient' = <<>>
    <3>1. /\ loop = "read" /\ loop' = "recv"
          /\ respChan' = [respChan EXCEPT ![loopReq] = Failed]
          /\ UNCHANGED <<callVars, conn, ghostVars>>
      BY <1>4, <2>2 DEF LoopRead, Respond
    <3>. QED  BY <1>0, <2>2, <3>1, ErrorRespond
  <2>. QED  BY <1>4, <2>1, <2>2 DEF LoopRead
<1>5. CASE ServerAnswer
  <2>1. UNCHANGED <<loopVars, conn, accepted, outcome>>
    BY <1>5 DEF ServerAnswer
  <2>2. ASSUME NEW r \in Requests, respChan[r] = Failed  PROVE toClient' = <<>>
    <3>1. conn = "down"
      BY <1>5, <2>2 DEF ErrorInv, SilentInv, ServerAnswer
    <3>. QED  BY <1>5, <2>2, <3>1 DEF ErrorInv, ServerAnswer
  <2>. QED  BY <1>0, <2>1, <2>2 DEF ErrorInv, IsAccepted
<1>6. CASE /\ UNCHANGED <<loopVars, toClient, accepted, outcome>>
           /\ conn' = conn \/ conn' = "down"
  BY <1>0, <1>6 DEF ErrorInv, IsAccepted
<1>. QED  BY <1>1, <1>2, <1>3, <1>4, <1>5, <1>6
          DEF Next, Loop, Server, Call, Break, ServerRead, vars

\* agent.go:80-129, aes.go:22, main.go:44-50: with its cipher or without it, a
\* client whose loop has reported an error gets no further request answered.
THEOREM ErrorsAreFinal == Spec => []ErrorIsFinal
<1> DEFINE Inv == LoopInv /\ SilentInv /\ ErrorInv
<1>1. Init => Inv
  BY LoopInvInductive, RequestFacts DEF Init, SilentInv, ErrorInv
<1>2. Inv /\ [Next]_vars => Inv'
  BY LoopInvInductive, SilentStep, ErrorStep
<1>3. Inv => ErrorIsFinal
  <2> SUFFICES ASSUME TypeOK, ErrorInv,
                      NEW i \in 1..Len(accepted), NEW j \in 1..Len(accepted),
                      i < j, outcome[accepted[i]] = Failed
               PROVE  outcome[accepted[j]] \in {None, Failed, TimedOut}
    BY DEF LoopInv, ErrorIsFinal
  <2>1. accepted[i] \in Requests /\ accepted[j] \in Requests
    BY SequenceFacts DEF TypeOK
  <2>2. respChan[accepted[i]] = Failed
    BY <2>1 DEF ErrorInv
  <2>3. respChan[accepted[j]] \in {None, Failed}
    BY <2>2 DEF ErrorInv
  <2>. QED  BY <2>1, <2>3 DEF ErrorInv
<1>. QED  BY <1>1, <1>2, <1>3, PTL DEF Spec

\* Without its cipher the client hands every request back before the first
\* write (aes.go:22-24, agent.go:88-92).
THEOREM SilentClient == Spec => []SilentWithoutCipher
<1> DEFINE Inv == LoopInv /\ SilentInv /\ SilentWithoutCipher
<1>1. Init => Inv
  BY LoopInvInductive, RequestFacts DEF Init, SilentInv, SilentWithoutCipher
<1>2. Inv /\ [Next]_vars => Inv'
  <2> SUFFICES ASSUME LoopInv, SilentInv, SilentWithoutCipher, ~cipherReady, [Next]_vars
               PROVE  /\ SilentInv'
                      /\ \A r \in Requests : outcome'[r] # r
    BY LoopInvInductive, CipherStays DEF SilentInv, SilentWithoutCipher, LoopInv, AnswerMatches
  <2> USE DEF SilentInv, callVars, loopVars, wireVars, ghostVars
  <2>1. ~LoopRead /\ ~ServerRead /\ ~ServerAnswer
    BY DEF LoopRead, ServerRead, ServerAnswer
  <2>2. \A r \in Requests : outcome[r] # r /\ respChan[r] # r
    BY RequestFacts DEF SilentWithoutCipher, LoopInv, AnswersInv, IsServed
  <2>3. SilentInv'
    BY SilentStep
  <2>4. \A r \in Requests : outcome'[r] # r
    <3>1. ASSUME NEW c \in Callers, Receive(c) \/ TimeOut(c)
          PROVE  \A r \in Requests : outcome'[r] # r
      <4>1. current[c] \in Requests
        BY <3>1 DEF Receive, TimeOut, LoopInv, CallsInv, TypeOK, Requests
      <4>2. PICK value : value # current[c] /\ outcome' = [outcome EXCEPT ![current[c]] = value]
        BY <2>2, <3>1, <4>1, RequestFacts DEF Receive, TimeOut, Finish
      <4>. QED  BY <2>2, <4>1, <4>2 DEF LoopInv, TypeOK
    <3>2. CASE UNCHANGED outcome
      BY <2>2, <3>2
    <3>. QED  BY <2>1, <3>1, <3>2
              DEF Next, Loop, Server, Call, Accept, LoopWrite, Break, vars
  <2>. QED  BY <2>3, <2>4
<1>3. Inv => SilentWithoutCipher
  OBVIOUS
<1>. QED  BY <1>1, <1>2, <1>3, PTL DEF Spec

-----------------------------------------------------------------------------
(* Refinement. *)

LEMMA InitIsSerial == Init => Calls!Init
BY DEF Init, Calls!Init

LEMMA StepIsSerial ==
    ASSUME LoopInv, [Next]_vars
    PROVE  [Calls!Next]_<<accepted, served, outcome>>
<1> USE DEF callVars, loopVars, wireVars, ghostVars
<1>0. /\ accepted \in Seq(Requests) /\ TypeOK /\ CallsInv /\ AnswersInv /\ OrderInv /\ WireInv
      /\ outcome \in [Requests -> {None, Failed, TimedOut} \cup Requests]
  BY DEF LoopInv, TypeOK
<1>1. ASSUME NEW c \in Callers, Accept(c)  PROVE Calls!Accept
  <2>1. current[c] \in Requests /\ ~IsAccepted(current[c])
    BY <1>0, <1>1 DEF Accept, CallsInv, TypeOK, Requests
  <2>2. accepted' = Append(accepted, current[c]) /\ UNCHANGED <<served, outcome>>
    BY <1>1 DEF Accept
  <2>3. Len(accepted') = Len(accepted) + 1 /\ accepted'[Len(accepted')] = current[c]
    BY <1>0, <2>1, <2>2, SequenceFacts
  <2>. QED  BY <2>1, <2>2, <2>3 DEF Calls!Accept, IsAccepted
<1>2. ASSUME NEW c \in Callers, Receive(c) \/ TimeOut(c)  PROVE Calls!Return
  <2>1. /\ caller[c] = "waiting" /\ current[c] \in Requests
        /\ IsAccepted(current[c]) /\ outcome[current[c]] = None
    BY <1>0, <1>2 DEF Receive, TimeOut, CallsInv, TypeOK, Requests
  <2>2. PICK i \in 1..Len(accepted) : accepted[i] = current[c]
    BY <2>1 DEF IsAccepted
  <2>3. PICK v \in {Failed, TimedOut, current[c]} :
            /\ v = current[c] => IsServed(current[c])
            /\ outcome' = [outcome EXCEPT ![current[c]] = v]
    <3>1. CASE Receive(c)
      <4>1. /\ respChan[current[c]] \in {Failed, current[c]}
            /\ respChan[current[c]] = current[c] => IsServed(current[c])
        BY <1>0, <2>1, <3>1 DEF Receive, AnswersInv
      <4>2. outcome' = [outcome EXCEPT ![current[c]] = respChan[current[c]]]
        BY <3>1 DEF Receive, Finish
      <4>. QED  BY <4>1, <4>2
    <3>2. CASE TimeOut(c)
      BY <2>1, <3>2, RequestFacts DEF TimeOut, Finish
    <3>. QED  BY <1>2, <3>1, <3>2
  <2>4. UNCHANGED <<accepted, served>>
    BY <1>2 DEF Receive, TimeOut, Finish
  <2>. QED  BY <2>1, <2>2, <2>3, <2>4 DEF Calls!Return, Calls!IsServed, IsServed
<1>3. CASE ServerRead
  <2>1. CASE served' = served
    BY <1>3, <2>1 DEF ServerRead
  <2>2. CASE served' = Append(served, Head(toServer))
    <3>1. toServer # <<>> /\ UNCHANGED <<accepted, outcome>>
      BY <1>3 DEF ServerRead
    <3>2. PICK i \in 1..Len(accepted) : accepted[i] = toServer[1] /\ UnservedFrom(i)
      BY <1>0, <3>1 DEF OrderInv
    <3>3. Head(toServer) = accepted[i]
      BY <3>1, <3>2, SequenceFacts, <1>0 DEF TypeOK
    <3>4. Calls!Serve
      BY <2>2, <3>1, <3>2, <3>3 DEF Calls!Serve, Calls!IsServed, UnservedFrom, IsServed
    <3>. QED  BY <3>4 DEF Calls!Next
  <2>. QED  BY <1>0, <1>3, <2>1, <2>2, ServedStep
<1>4. CASE UNCHANGED <<accepted, served, outcome>>
  BY <1>4
<1>. QED  BY <1>1, <1>2, <1>3, <1>4
          DEF Next, Loop, Server, Call, LoopWrite, LoopRead, Break, ServerAnswer, vars,
              Calls!Next

\* agent.go:142: the calls of all goroutines are serial calls, each acted on at
\* most once and in order, and each returns its own answer, an error or a
\* timeout.
THEOREM CallsAreSerial == Spec => ImplementsSerialCalls
<1>1. LoopInv /\ [Next]_vars => [Calls!Next]_<<accepted, served, outcome>>
  BY StepIsSerial
<1>. QED  BY InitIsSerial, <1>1, LoopKeepsInv, PTL
          DEF Spec, ImplementsSerialCalls, Calls!Spec, Calls!calls
=============================================================================
