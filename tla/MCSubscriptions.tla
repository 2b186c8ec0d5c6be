-------------------------- MODULE MCSubscriptions --------------------------
(* Two connections with a subscription each, or one after the other. *)
EXTENDS Subscriptions, TLC

CONSTANTS c1, c2, s1, s2

\* Every connection has an address of its own: the port is part of it.
OwnAddress == [c \in Conns |-> c]

\* Connections are alike, and so are IDs.
Alike == Permutations({c1, c2}) \cup Permutations({s1, s2})
============================================================================
