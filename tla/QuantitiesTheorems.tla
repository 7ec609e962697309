------------------------- MODULE QuantitiesTheorems -------------------------
(***************************************************************************)
(* The laws of Total that the proofs about stock and refunds need.         *)
(***************************************************************************)
EXTENDS Quantities, Integers, FiniteSetTheorems, TLAPS

\* The first n naturals: n of them.
LEMMA FirstN ==
    ASSUME NEW n \in Nat
    PROVE  IsFiniteSet(1..n) /\ Cardinality(1..n) = n
<1>1. 1 \in Int /\ n \in Int
  OBVIOUS
<1>2. /\ IsFiniteSet(1..n)
      /\ Cardinality(1..n) = IF 1 > n THEN 0 ELSE n - 1 + 1
  BY <1>1, FS_Interval
<1>3. QED
  BY <1>2

\* The units of a finite set of rows are finite, so their total is a number.
LEMMA TotalType ==
    ASSUME NEW S, IsFiniteSet(S), NEW q, \A x \in S : q[x] \in Nat
    PROVE  IsFiniteSet(Units(q, S)) /\ Total(q, S) \in Nat
<1> DEFINE f == [x \in S |-> {x} \X (1..q[x])]
           F == {{x} \X (1..q[x]) : x \in S}
<1>1. f \in Surjection(S, F)
  BY DEF Surjection
<1>2. IsFiniteSet(F)
  BY <1>1, FS_Surjection
<1>3. ASSUME NEW T \in F PROVE IsFiniteSet(T)
  <2>1. PICK x \in S : T = {x} \X (1..q[x])
    OBVIOUS
  <2>2. IsFiniteSet(1..q[x])
    BY FirstN
  <2>3. IsFiniteSet({x})
    BY FS_Singleton
  <2>4. QED
    BY <2>1, <2>2, <2>3, FS_Product
<1>4. IsFiniteSet(UNION F)
  BY <1>2, <1>3, FS_UNION
<1>5. QED
  BY <1>4, FS_CardinalityType DEF Units, Total

\* The total of one row is its quantity.
LEMMA TotalSingleton ==
    ASSUME NEW x, NEW q, q[x] \in Nat
    PROVE  Total(q, {x}) = q[x]
<1>1. Units(q, {x}) = {x} \X (1..q[x])
  BY DEF Units
<1>2. IsFiniteSet({x}) /\ Cardinality({x}) = 1
  BY FS_Singleton
<1>3. IsFiniteSet(1..q[x]) /\ Cardinality(1..q[x]) = q[x]
  BY FirstN
<1>4. Cardinality({x} \X (1..q[x])) = Cardinality({x}) * Cardinality(1..q[x])
  BY <1>2, <1>3, FS_Product
<1>5. Total(q, {x}) = 1 * q[x]
  BY <1>1, <1>2, <1>3, <1>4 DEF Total
<1>6. QED
  BY <1>5

\* Disjoint sets of rows: the total of the union is the sum of the totals.
LEMMA TotalUnion ==
    ASSUME NEW S, IsFiniteSet(S), NEW T, IsFiniteSet(T), S \cap T = {},
           NEW q, \A x \in S \cup T : q[x] \in Nat
    PROVE  Total(q, S \cup T) = Total(q, S) + Total(q, T)
<1>1. Units(q, S \cup T) = Units(q, S) \cup Units(q, T)
  BY DEF Units
<1>2. Units(q, S) \cap Units(q, T) = {}
  BY DEF Units
<1>3. IsFiniteSet(Units(q, S)) /\ Total(q, S) \in Nat
  BY TotalType
<1>4. IsFiniteSet(Units(q, T)) /\ Total(q, T) \in Nat
  BY TotalType
<1>5. Total(q, S \cup T) = Total(q, S) + Total(q, T)
                            - Cardinality(Units(q, S) \cap Units(q, T))
  BY <1>1, <1>3, <1>4, FS_Union DEF Total
<1>6. Cardinality(Units(q, S) \cap Units(q, T)) = 0
  BY <1>2, FS_EmptySet
<1>7. QED
  BY <1>3, <1>4, <1>5, <1>6

\* Taking rows away from a set takes their total away from its total.
LEMMA TotalDifference ==
    ASSUME NEW S, IsFiniteSet(S), NEW T \in SUBSET S,
           NEW q, \A x \in S : q[x] \in Nat
    PROVE  Total(q, S \ T) = Total(q, S) - Total(q, T)
<1>1. IsFiniteSet(T) /\ IsFiniteSet(S \ T)
  BY FS_Subset, FS_Difference
<1>2. S = (S \ T) \cup T /\ (S \ T) \cap T = {}
  OBVIOUS
<1>3. Total(q, (S \ T) \cup T) = Total(q, S \ T) + Total(q, T)
  BY <1>1, <1>2, TotalUnion
<1>4. /\ Total(q, S \ T) \in Nat /\ Total(q, T) \in Nat
      /\ Total(q, S) = Total(q, S \ T) + Total(q, T)
  BY <1>1, <1>2, <1>3, TotalType
<1>5. QED
  BY <1>4

\* Only the quantities of the rows in the set matter.
LEMMA TotalAgree ==
    ASSUME NEW S, NEW q, NEW r, \A x \in S : q[x] = r[x]
    PROVE  Total(q, S) = Total(r, S)
<1>1. Units(q, S) = Units(r, S)
  BY DEF Units
<1>2. QED
  BY <1>1 DEF Total

\* Rows of quantity zero add nothing.
LEMMA TotalZero ==
    ASSUME NEW S, NEW q, \A x \in S : q[x] = 0
    PROVE  Total(q, S) = 0
<1>1. Units(q, S) = {}
  BY DEF Units
<1>2. QED
  BY <1>1, FS_EmptySet DEF Total

\* One more row.
LEMMA TotalAdd ==
    ASSUME NEW S, IsFiniteSet(S), NEW x, x \notin S,
           NEW q, \A y \in S \cup {x} : q[y] \in Nat
    PROVE  Total(q, S \cup {x}) = Total(q, S) + q[x]
<1>1. IsFiniteSet({x}) /\ S \cap {x} = {}
  BY FS_Singleton
<1>2. QED
  BY <1>1, TotalUnion, TotalSingleton
=============================================================================
