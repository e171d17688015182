------------------------------ MODULE MCOtpLogon ------------------------------
(* Symmetry for the safety runs of OtpLogon: attempts are interchangeable.   *)
EXTENDS OtpLogon, TLC

Symmetry == Permutations(Attempts)
=============================================================================
