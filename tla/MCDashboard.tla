----------------------------- MODULE MCDashboard -----------------------------
(* Constraints for the run of Dashboard.                                     *)
EXTENDS Dashboard

\* The log table and the other tables share nothing but the count of calls: a run
\* turns to one of them, and to the other tables when the first log is shown.
Apart ==
    \/ page = "user"
    \/ asked = [agent |-> ALL, page |-> 1] /\ (started > 2 => AtRest("log"))
    \/ /\ table["devices"].says = "nothing"
       /\ Loads("change", calls) = {} /\ \A k \in Tables : version[k] = 0

\* The last call is kept for the load that follows a change, so that the devices
\* are shown, assigned and loaded again.  Only clicks are cut off by this, never
\* an answer or what it sets off.
LastCallReloads == started = MaxCalls => \E k \in Tables : acked[k] > 0
=============================================================================
