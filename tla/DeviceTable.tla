------------------------------ MODULE DeviceTable ------------------------------
(***************************************************************************)
(* What the table managed_clients is to a user of the API: which client    *)
(* has which agent id, and to whom it is assigned.  The requests and the   *)
(* status loop of ClientStatus implement it; ApiSessions is built on it.   *)
(***************************************************************************)
EXTENDS Naturals

CONSTANTS AgentIDs, Usernames,
          NULL      \* assigned to nobody

VARIABLES devices,  \* the rows, without what the status loop writes
          enrolled  \* how many client ids were given out

table == <<devices, enrolled>>

Device == [client_id : Nat, agent_id : AgentIDs, user_name : Usernames \cup {NULL}]

Init ==
    /\ devices = {}
    /\ enrolled = 0

\* A registration: INSERT OR REPLACE with a new client id.
Enrol(a) ==
    /\ devices' = {d \in devices : d.agent_id # a}
                  \cup {[client_id |-> enrolled + 1, agent_id |-> a, user_name |-> NULL]}
    /\ enrolled' = enrolled + 1

\* The UPDATE of an assign request, when its row still exists.
Assign(d, u) ==
    /\ devices' = (devices \ {d}) \cup {[d EXCEPT !.user_name = u]}
    /\ UNCHANGED enrolled

\* A DELETE request.
Remove(d) ==
    /\ devices' = devices \ {d}
    /\ UNCHANGED enrolled

Next ==
    \/ \E a \in AgentIDs : Enrol(a)
    \/ \E d \in devices :
        \/ \E u \in Usernames : Assign(d, u)
        \/ Remove(d)

Spec == Init /\ [][Next]_table
=============================================================================
