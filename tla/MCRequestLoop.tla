--------------------------- MODULE MCRequestLoop ---------------------------
(* Symmetry for the runs of RequestLoop. *)
EXTENDS RequestLoop, TLC

Symmetry == Permutations(Callers)
=============================================================================
