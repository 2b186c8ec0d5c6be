---------------------------- MODULE MCStakePool ----------------------------
(* Small networks of stake pools for TLC. *)
EXTENDS StakePool, TLC

CONSTANTS v1, m1, r1
============================================================================
