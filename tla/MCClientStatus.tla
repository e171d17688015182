--------------------------- MODULE MCClientStatus ---------------------------
(* Model values and symmetry for the runs of ClientStatus. *)
EXTENDS ClientStatus, TLC

Symmetry == Permutations(Users)
=============================================================================
