---------------------------- MODULE MCValidators ----------------------------
(* One validator whose stake falls below the minimum at the second slash. *)
EXTENDS Validators
=============================================================================
