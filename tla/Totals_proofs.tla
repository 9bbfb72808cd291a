--------------------------- MODULE Totals_proofs ----------------------------
(* The laws of sums that the proofs about budgets use, for amounts in Nat. *)
EXTENDS Totals, Integers, FiniteSetTheorems, TLAPS

\* The units of finitely many amounts are finitely many.
LEMMA UnitsFinite ==
  ASSUME NEW S, IsFiniteSet(S), NEW f, \A x \in S : f[x] \in Nat
  PROVE  IsFiniteSet(Units(f, S))
<1> DEFINE piles == {{x} \X (1 .. f[x]) : x \in S}
           pile == [x \in S |-> {x} \X (1 .. f[x])]
<1>1. pile \in Surjection(S, piles)
  BY DEF Surjection
<1>2. IsFiniteSet(piles)
  BY <1>1, FS_Surjection
<1>3. ASSUME NEW x \in S PROVE IsFiniteSet({x} \X (1 .. f[x]))
  <2>1. IsFiniteSet({x})
    BY FS_Singleton
  <2>2. IsFiniteSet(1 .. f[x])
    BY FS_Interval
  <2> QED
    BY <2>1, <2>2, FS_Product
<1>4. \A p \in piles : IsFiniteSet(p)
  BY <1>3
<1>5. IsFiniteSet(UNION piles)
  <2> HIDE DEF piles
  <2> QED
    BY <1>2, <1>4, FS_UNION
<1> QED
  BY <1>5 DEF Units

LEMMA SumType ==
  ASSUME NEW S, IsFiniteSet(S), NEW f, \A x \in S : f[x] \in Nat
  PROVE  SumOf(f, S) \in Nat
  BY UnitsFinite, FS_CardinalityType DEF SumOf

LEMMA SumEmpty ==
  ASSUME NEW f
  PROVE  SumOf(f, {}) = 0
<1>1. Units(f, {}) = {}
  BY DEF Units
<1> QED
  BY <1>1, FS_EmptySet DEF SumOf

LEMMA SumOne ==
  ASSUME NEW x, NEW f, f[x] \in Nat
  PROVE  SumOf(f, {x}) = f[x]
<1>1. Units(f, {x}) = {x} \X (1 .. f[x])
  BY DEF Units
<1>2. IsFiniteSet({x}) /\ Cardinality({x}) = 1
  BY FS_Singleton
<1>3. IsFiniteSet(1 .. f[x]) /\ Cardinality(1 .. f[x]) = f[x]
  BY FS_Interval
<1>4. Cardinality({x} \X (1 .. f[x])) = Cardinality({x}) * Cardinality(1 .. f[x])
  BY <1>2, <1>3, FS_Product
<1>5. 1 * f[x] = f[x]
  OBVIOUS
<1>6. SumOf(f, {x}) = Cardinality({x} \X (1 .. f[x]))
  BY <1>1 DEF SumOf
<1> QED
  BY <1>2, <1>3, <1>4, <1>5, <1>6

\* A total can be taken in two parts.
LEMMA SumUnion ==
  ASSUME NEW S, NEW T, IsFiniteSet(S), IsFiniteSet(T), S \cap T = {},
         NEW f, \A x \in S \cup T : f[x] \in Nat
  PROVE  SumOf(f, S \cup T) = SumOf(f, S) + SumOf(f, T)
<1>1. Units(f, S \cup T) = Units(f, S) \cup Units(f, T)
  BY DEF Units
<1>2. Units(f, S) \cap Units(f, T) = {}
  <2>1. \A u \in Units(f, S) : \E x \in S : u \in {x} \X (1 .. f[x])
    BY DEF Units
  <2>2. \A u \in Units(f, T) : \E x \in T : u \in {x} \X (1 .. f[x])
    BY DEF Units
  <2>3. ASSUME NEW u, u \in Units(f, S), u \in Units(f, T) PROVE FALSE
    <3>1. PICK x \in S : u \in {x} \X (1 .. f[x])
      BY <2>1, <2>3
    <3>2. PICK y \in T : u \in {y} \X (1 .. f[y])
      BY <2>2, <2>3
    <3>3. u[1] = x /\ u[1] = y
      BY <3>1, <3>2
    <3> QED
      BY <3>3
  <2> QED
    BY <2>3
<1>3. IsFiniteSet(Units(f, S)) /\ IsFiniteSet(Units(f, T))
  BY UnitsFinite
<1>4. SumOf(f, S) \in Nat /\ SumOf(f, T) \in Nat
  BY SumType
<1>5. Cardinality(Units(f, S) \cap Units(f, T)) = 0
  BY <1>2, FS_EmptySet
<1>6. Cardinality(Units(f, S) \cup Units(f, T)) = SumOf(f, S) + SumOf(f, T) - Cardinality(Units(f, S) \cap Units(f, T))
  BY <1>3, FS_Union DEF SumOf
<1>7. SumOf(f, S \cup T) = SumOf(f, S) + SumOf(f, T) - 0
  BY <1>1, <1>5, <1>6 DEF SumOf
<1> QED
  BY <1>4, <1>7

\* Another amount adds to the total.
LEMMA SumAdd ==
  ASSUME NEW S, IsFiniteSet(S), NEW x, x \notin S, NEW f, \A y \in S \cup {x} : f[y] \in Nat
  PROVE  SumOf(f, S \cup {x}) = SumOf(f, S) + f[x]
<1>1. IsFiniteSet({x}) /\ S \cap {x} = {}
  BY FS_Singleton
<1>2. SumOf(f, S \cup {x}) = SumOf(f, S) + SumOf(f, {x})
  BY <1>1, SumUnion
<1> QED
  BY <1>2, SumOne

\* Larger amounts have a larger total.
LEMMA SumMonotone ==
  ASSUME NEW S, NEW T, IsFiniteSet(T), S \subseteq T,
         NEW f, NEW g, \A x \in S : f[x] \in Nat, \A x \in T : g[x] \in Nat, \A x \in S : f[x] <= g[x]
  PROVE  SumOf(f, S) <= SumOf(g, T)
<1>1. ASSUME NEW x \in S PROVE {x} \X (1 .. f[x]) \subseteq Units(g, T)
  <2>1. 1 .. f[x] \subseteq 1 .. g[x]
    OBVIOUS
  <2>2. {x} \X (1 .. f[x]) \subseteq {x} \X (1 .. g[x])
    BY <2>1
  <2> QED
    BY <2>2 DEF Units
<1>2. Units(f, S) \subseteq Units(g, T)
  BY <1>1 DEF Units
<1> QED
  BY <1>2, UnitsFinite, FS_Subset DEF SumOf

\* The same amounts have the same total.
LEMMA SumSame ==
  ASSUME NEW S, NEW f, NEW g, \A x \in S : f[x] = g[x]
  PROVE  SumOf(f, S) = SumOf(g, S)
<1>1. {{x} \X (1 .. f[x]) : x \in S} = {{x} \X (1 .. g[x]) : x \in S}
  OBVIOUS
<1> QED
  BY <1>1 DEF SumOf, Units

\* Zeros come to zero.
LEMMA SumZero ==
  ASSUME NEW S, NEW f, \A x \in S : f[x] = 0
  PROVE  SumOf(f, S) = 0
<1>1. \A x \in S : {x} \X (1 .. f[x]) = {}
  OBVIOUS
<1>2. Units(f, S) = {}
  BY <1>1 DEF Units
<1> QED
  BY <1>2, FS_EmptySet DEF SumOf
=============================================================================
