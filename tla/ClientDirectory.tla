-------------------------- MODULE ClientDirectory --------------------------
(***************************************************************************)
(* What registration promises of the bindings client_id <-> agent_id       *)
(* (README.md:49, :53) and the code keeps: a client id is given out once   *)
(* and never again, an agent id belongs to one client at a time, and no    *)
(* registration disturbs a client that is present.                         *)
(*                                                                         *)
(* The agent id of a client that was withdrawn may be given to another:    *)
(* LoadClients derives the next one from the rows that are left            *)
(* (manager_agent.go:48-60).  So the binding of an agent id to a client id *)
(* holds while the client is present and no longer.                        *)
(***************************************************************************)
VARIABLES dir,     \* the clients present
          given    \* the client ids that were ever given out

bindings == <<dir, given>>

Init == dir = {} /\ given = {}

\* A client is added under a client id that nobody had before and an agent id
\* that nobody has now.
Enrol ==
    \E r \in dir' \ dir :
        /\ r.client_id \notin given
        /\ \A s \in dir : s.agent_id # r.agent_id
        /\ dir' = dir \cup {r}
        /\ given' = given \cup {r.client_id}

\* A client is removed; its client id stays used up.
Withdraw ==
    /\ \E r \in dir : dir' = dir \ {r}
    /\ UNCHANGED given

Next == Enrol \/ Withdraw

Spec == Init /\ [][Next]_bindings
=============================================================================
