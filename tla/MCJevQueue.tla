----------------------------- MODULE MCJevQueue -----------------------------
(* Instances of JevQueue for TLC. *)
EXTENDS JevQueue, TLC

CONSTANTS w1, w2, w3

Symmetry == Permutations(Slots)
=============================================================================
