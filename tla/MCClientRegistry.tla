-------------------------- MODULE MCClientRegistry --------------------------
(* Model values, symmetry and a state constraint for the runs of           *)
(* ClientRegistry.                                                         *)
EXTENDS ClientRegistry, TLC

Symmetry == Permutations(Conns) \cup Permutations(Devices)

\* A statement fails or the server is restarted, not both.
OneDisturbance == faults + restarts <= 1
=============================================================================
