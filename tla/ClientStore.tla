---------------------------- MODULE ClientStore ----------------------------
(***************************************************************************)
(* The table managed_clients of the server's SQLite database and the      *)
(* statements the program runs on it.  A table is a set of rows (records); *)
(* every operator is one SQL statement, which SQLite executes atomically.  *)
(*                                                                         *)
(* A row has at least the columns client_id, agent_id and hardware_id; a   *)
(* module that needs user_name, last_seen and online adds these columns.   *)
(*                                                                         *)
(* An agent_id is the number that GenAgentID formats with "%03d".  The     *)
(* formatting is injective and Atoi is its inverse, so all that the code   *)
(* can tell apart of the text is whether it has three characters: it has   *)
(* when the number is at most ThreeDigitMax (999 in the program).          *)
(***************************************************************************)
EXTENDS Integers, FiniteSets

CONSTANTS ThreeDigitMax,   \* the largest number "%03d" writes in three digits
          NULL             \* the absent value: a nil pointer, an empty string

ASSUME ThreeDigitMaxAssumption == ThreeDigitMax \in Nat

AgentIdsOf(rows)  == {r.agent_id : r \in rows}
ClientIdsOf(rows) == {r.client_id : r \in rows}

\* The columns CREATE TABLE gives managed_clients.
ManagedClientColumns ==
    {"client_id", "agent_id", "hardware_id", "host_name", "ip_address",
     "mac_address", "user_name", "last_seen", "online"}

\* The columns the SELECT of FindClientByDevice names.
FindByDeviceColumns == {"client_id", "agent_id", "user_id", "last_seen", "online"}

-----------------------------------------------------------------------------
(* Queries.  A query by QueryRow returns one of the matching rows or NULL:  *)
(* the operator is the set of the possible results.                         *)

OneOf(rows) == IF rows = {} THEN {NULL} ELSE rows

\* A SELECT that names a column the table lacks fails, and the only caller
\* drops the error: it sees nil, as it does when no row matches.
FindClientByDevice(rows, hardwareID) ==
    IF FindByDeviceColumns \subseteq ManagedClientColumns
    THEN OneOf({r \in rows : r.hardware_id = hardwareID})
    ELSE {NULL}

\* Variant for a mutation run: the WHERE clause, or the comparison in the loop
\* of handleConn, is forgotten.
FindAnyByAgentID(rows, agentID) == OneOf(rows)

FindByAgentID(rows, agentID)   == OneOf({r \in rows : r.agent_id = agentID})
FindByClientID(rows, clientID) == OneOf({r \in rows : r.client_id = clientID})

AgentExists(rows, agentID) == agentID \in AgentIdsOf(rows)

\* Variants for mutation runs: next = n instead of n + 1; COUNT instead of the
\* maximum.
IsAtLeastThreeDigitIds(rows, n) ==
    \A id \in AgentIdsOf(rows) : id <= ThreeDigitMax => id <= n
NextByCount(rows) == Cardinality(rows) + 1

\* The value LoadClients leaves in nextAgentID: one above the largest agent_id
\* of three characters, written as the least number above all of them.
IsAboveThreeDigitIds(rows, n) ==
    \A id \in AgentIdsOf(rows) : id <= ThreeDigitMax => id < n

NextAfter(rows) ==
    CHOOSE n \in 1..(ThreeDigitMax + 1) :
        /\ IsAboveThreeDigitIds(rows, n)
        /\ \A m \in 1..(ThreeDigitMax + 1) : IsAboveThreeDigitIds(rows, m) => n <= m

-----------------------------------------------------------------------------
(* Updates. *)

\* Variant for a mutation run: hardware_id is declared UNIQUE, too.
ReplaceByDevice(rows, new) ==
    {r \in rows : /\ r.client_id # new.client_id
                  /\ r.agent_id # new.agent_id
                  /\ r.hardware_id # new.hardware_id} \cup {new}

\* INSERT OR REPLACE: client_id is the primary key and agent_id is UNIQUE, so
\* every row that agrees with the new one on either column is removed first.
InsertOrReplace(rows, new) ==
    {r \in rows : r.client_id # new.client_id /\ r.agent_id # new.agent_id}
        \cup {new}

DeleteByID(rows, clientID) == {r \in rows : r.client_id # clientID}

\* UPDATE ... SET online, last_seen WHERE agent_id.
UpdateClientStatus(rows, agentID, online, lastSeen) ==
    {IF r.agent_id = agentID
     THEN [r EXCEPT !.online = online, !.last_seen = lastSeen]
     ELSE r : r \in rows}

\* The keys the schema declares: no two rows share a client_id or an agent_id.
UniqueKeys(rows) ==
    \A r, s \in rows :
        (r.client_id = s.client_id \/ r.agent_id = s.agent_id) => r = s
=============================================================================
