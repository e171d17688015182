---------------------------- MODULE SerialCalls ----------------------------
(***************************************************************************)
(* What Agent.Request promises (agent.go:142 "để đảm bảo tuần tự và đúng   *)
(* response", sequential and with the right response): the calls of all    *)
(* goroutines reach the server one after another, each at most once, and a *)
(* call returns the answer to its own request, an error or a timeout.      *)
(***************************************************************************)
EXTENDS Integers, Sequences

CONSTANTS None,      \* a call that has not returned
          Failed,    \* a call that returned the loop's error
          TimedOut   \* a call that returned "request timeout"

VARIABLES accepted,  \* the requests in the order the loop took them
          served,    \* the requests the server acted on, in that order
          outcome    \* what each call returned

calls == <<accepted, served, outcome>>

Init ==
    /\ accepted = <<>>
    /\ served = <<>>
    /\ outcome = [r \in DOMAIN outcome |-> None]

Accept ==
    /\ Len(accepted') = Len(accepted) + 1
    /\ accepted' = Append(accepted, accepted'[Len(accepted')])
    /\ \A i \in 1..Len(accepted) : accepted[i] # accepted'[Len(accepted')]
    /\ UNCHANGED <<served, outcome>>

IsServed(r) == \E k \in 1..Len(served) : served[k] = r

\* The server acts on a request behind all those it acted on before.
Serve ==
    /\ \E i \in 1..Len(accepted) :
        /\ served' = Append(served, accepted[i])
        /\ \A j \in i..Len(accepted) : ~IsServed(accepted[j])
    /\ UNCHANGED <<accepted, outcome>>

Return ==
    /\ \E i \in 1..Len(accepted) :
        LET r == accepted[i] IN
        /\ outcome[r] = None
        /\ \E v \in {Failed, TimedOut, r} :
            /\ v = r => IsServed(r)
            /\ outcome' = [outcome EXCEPT ![r] = v]
    /\ UNCHANGED <<accepted, served>>

Next == Accept \/ Serve \/ Return

Spec == Init /\ [][Next]_calls
=============================================================================
