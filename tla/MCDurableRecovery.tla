------------------------- MODULE MCDurableRecovery -------------------------
(* Instances of DurableRecovery for TLC. *)
EXTENDS DurableRecovery, TLC

CONSTANTS c1, c2, o1, o2, r1, r2, r3, k1, k2, t1, t2, t3

\* Two cases that share k2, with an original each.
PairCaseOf == o1 :> c1 @@ o2 :> c2
PairOriginalOf == r1 :> o1 @@ r2 :> o2
PairKeysOf == c1 :> {k1, k2} @@ c2 :> {k2}
PairFoundKeys == c1 :> {} @@ c2 :> {k1}

\* One case of two originals; the first can be repaired twice.
SoloCaseOf == o1 :> c1 @@ o2 :> c1
SoloOriginalOf == r1 :> o1 @@ r2 :> o2 @@ r3 :> o1
SoloKeysOf == c1 :> {k1}
SoloFoundKeys == c1 :> {}

Symmetry == Permutations(Tokens)
=============================================================================
