---------------------------- MODULE MCNodeStart ----------------------------
(* A node of any role, two boot nodes and two other nodes. *)
EXTENDS NodeStart

CONSTANTS b1, b2, t1, t2, none
=============================================================================
