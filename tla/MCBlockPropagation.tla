------------------------ MODULE MCBlockPropagation ------------------------
(* Small networks for TLC. *)
EXTENDS BlockPropagation, TLC

CONSTANTS v1, v2, v3, m1, m2, b1, b2, b3, none

\* Two rival miners and the validator both ask.
RivalNodes == {v1, m1, m2}
\* Hashes are interchangeable, and so are two miners that are not validators.
RivalSymmetry == Permutations({b1, b2, b3}) \cup Permutations({m1, m2})

\* One miner among three validators, of which two must approve.
SingleNodes == {v1, v2, v3, m1}
===========================================================================
