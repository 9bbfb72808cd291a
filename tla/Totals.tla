------------------------------- MODULE Totals -------------------------------
(***************************************************************************)
(* Totals of amounts kept one by one: calls, reservations, charges.  A     *)
(* total is the number of its units, each numbered within the amount it    *)
(* belongs to.  Counted so, without a recursion over the set, it can be    *)
(* reasoned about with the laws of finite sets (Totals_proofs).            *)
(***************************************************************************)
EXTENDS Naturals, FiniteSets

Units(f, set) == UNION {{x} \X (1 .. f[x]) : x \in set}

\* The sum of f[x] over the members x of set.
SumOf(f, set) == Cardinality(Units(f, set))
=============================================================================
