----------------------------- MODULE MCChainSync -----------------------------
(* A peer a few blocks ahead. *)
EXTENDS ChainSync, TLC
============================================================================
