---------------------------- MODULE MCApiSessions ----------------------------
(* Symmetry and a constraint for the runs of ApiSessions.                    *)
EXTENDS ApiSessions, TLC

Symmetry == Permutations(AgentIDs)

\* A request reads the account of its own user name only: the other names are
\* there for devices to be assigned to.
OneAccount == \A u \in Usernames \ {Admin} : accounts[u] = NULL

\* An answer is taken at once: what is said of it depends on nothing else.
TakenAtOnce ==
    \A s \in Sessions : call[s].phase \in {"answered", "refused"} => call'[s] = Idle
=============================================================================
