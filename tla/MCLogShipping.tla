---------------------------- MODULE MCLogShipping ----------------------------
(* The instance of LogShipping that TLC checks; EOL, NUL and NULL are model  *)
(* values.                                                                   *)
EXTENDS LogShipping
=============================================================================
