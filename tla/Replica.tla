------------------------------ MODULE Replica ------------------------------
(***************************************************************************)
(* What chain synchronisation promises, without its messages: a node's     *)
(* chain is only ever extended, with blocks that the peer has; the blocks  *)
(* of one synchronisation come in the order of their numbers and lie above *)
(* the height it started from, or at the genesis block when that was 0;    *)
(* the others were announced by the peer and follow one the node has.  It  *)
(* does not promise that none is missing.                                  *)
(***************************************************************************)
EXTENDS Integers, Sequences

CONSTANTS Numbers       \* block numbers, 0 is the genesis block

VARIABLES
    peerHas,        \* the numbers of the peer's blocks
    chain,          \* the numbers of the node's blocks
    cursor          \* the last one synchronised, or where synchronisation starts

vars == <<peerHas, chain, cursor>>

Init ==
    /\ peerHas \in SUBSET Numbers
    /\ chain \in {<<>>, <<0>>}
    /\ cursor = -1

\* The peer mines a block.
Grow(n) ==
    /\ n \notin peerHas
    /\ peerHas' = peerHas \cup {n}
    /\ UNCHANGED <<chain, cursor>>

\* A new synchronisation.
Restart(from) == cursor' = from /\ UNCHANGED <<peerHas, chain>>

\* The next block of a synchronisation; it may skip some.
Fetch(n) ==
    /\ n \in peerHas /\ n > cursor
    /\ chain' = Append(chain, n) /\ cursor' = n
    /\ UNCHANGED peerHas

\* A block the peer has announced, the successor of one the node has.
Announced(n) ==
    /\ n \in peerHas
    /\ \E k \in DOMAIN chain : chain[k] = n - 1
    /\ chain' = Append(chain, n)
    /\ UNCHANGED <<peerHas, cursor>>

Next ==
    \/ \E n \in Numbers : Grow(n) \/ Fetch(n) \/ Announced(n)
    \/ \E from \in Numbers \cup {-1} : Restart(from)

Spec == Init /\ [][Next]_vars
============================================================================
