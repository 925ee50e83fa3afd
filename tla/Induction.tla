----------------------------- MODULE Induction -----------------------------
(***************************************************************************)
(* Induction over the natural numbers without an operator parameter: a     *)
(* nonempty set of numbers has a least element, so that a claim about all  *)
(* numbers is proved by refuting the least counterexample.  And the        *)
(* numbers of a finite set, counted in order by their ranks.               *)
(***************************************************************************)
EXTENDS Integers, FiniteSets, FiniteSetTheorems, Functions, WellFoundedInduction, TLAPS

(* A nonempty set of natural numbers has a least element.                   *)
LEMMA NatMin ==
  ASSUME NEW T \in SUBSET Nat, T # {}
  PROVE  \E n \in T : \A m \in T : n <= m
<1> DEFINE R == OpToRel(<, Nat)
<1>1. \A x, y \in Nat : <<x, y>> \in R <=> x < y
  BY DEF OpToRel
<1>2. IsWellFoundedOn(R, Nat)
  BY NatLessThanWellFounded
<1> HIDE DEF R
<1>3. PICK n \in T : \A m \in T : <<m, n>> \notin R
  BY <1>2, WFMin
<1>4. ASSUME NEW m \in T
      PROVE  n <= m
  <2>1. n \in Nat /\ m \in Nat /\ <<m, n>> \notin R
    BY <1>3
  <2>2. ~(m < n)
    BY <1>1, <2>1
  <2> QED
    BY <2>1, <2>2
<1> QED
  BY <1>4

(* A nonempty set of numbers up to k has a greatest element.                *)
LEMMA NatMax ==
  ASSUME NEW k \in Nat, NEW S \in SUBSET (1 .. k), S # {}
  PROVE  \E j \in S : \A i \in S : i <= j
<1> DEFINE T == {k - i : i \in S}
<1>1. T \in SUBSET Nat /\ T # {}
  <2>1. \A i \in S : k - i \in Nat
    OBVIOUS
  <2> QED
    BY <2>1, Zenon
<1> HIDE DEF T
<1>2. PICK n \in T : \A m \in T : n <= m
  BY <1>1, NatMin
<1>3. PICK j \in S : n = k - j
  BY DEF T
<1>4. ASSUME NEW i \in S
      PROVE  i <= j
  <2>1. k - i \in T
    BY DEF T
  <2>2. n <= k - i
    BY <1>2, <2>1
  <2> QED
    BY <1>3, <2>2
<1> QED
  BY <1>4

LEMMA FiniteNumbers ==
  ASSUME NEW n \in Nat, NEW P \in SUBSET (1 .. n)
  PROVE  IsFiniteSet(P) /\ Cardinality(P) \in Nat /\ \A p \in P : p \in Nat
<1>1. IsFiniteSet(1 .. n)
  BY FS_Interval
<1>2. IsFiniteSet(P)
  BY <1>1, FS_Subset
<1> QED
  BY <1>2, FS_CardinalityType

(* The rank of a number among those of a set is the number of those that    *)
(* are not greater: it grows with the number, and each rank has a number.   *)
Rank(P, p) == Cardinality({q \in P : q <= p})

LEMMA RankBound ==
  ASSUME NEW n \in Nat, NEW P \in SUBSET (1 .. n), NEW p \in P
  PROVE  /\ IsFiniteSet(P) /\ Cardinality(P) \in Nat
         /\ Rank(P, p) \in 1 .. Cardinality(P)
<1> DEFINE U == {q \in P : q <= p}
<1>1. IsFiniteSet(P) /\ \A x \in P : x \in Nat
  BY FiniteNumbers
<1>2. U \in SUBSET P /\ p \in U
  BY <1>1
<1> HIDE DEF U
<1>3. IsFiniteSet(U) /\ Cardinality(U) <= Cardinality(P)
  BY <1>1, <1>2, FS_Subset
<1>4. Cardinality(U) \in Nat /\ Cardinality(P) \in Nat
  BY <1>1, <1>3, FS_CardinalityType
<1>5. Cardinality(U) # 0
  BY <1>2, <1>3, FS_EmptySet
<1> QED
  BY <1>1, <1>3, <1>4, <1>5 DEF Rank, U

LEMMA RankGrows ==
  ASSUME NEW n \in Nat, NEW P \in SUBSET (1 .. n), NEW p \in P, NEW q \in P, p < q
  PROVE  Rank(P, p) < Rank(P, q)
<1> DEFINE U == {x \in P : x <= p}
           V == {x \in P : x <= q}
<1>0. IsFiniteSet(P) /\ \A x \in P : x \in Nat
  BY FiniteNumbers
<1>1. U \in SUBSET V /\ V \in SUBSET P /\ q \in V /\ q \notin U
  <2>1. p \in Nat /\ q \in Nat
    BY <1>0
  <2>2. ASSUME NEW x \in P, x <= p
        PROVE  x <= q
    <3>1. x \in Nat
      BY <1>0
    <3> QED
      BY <2>1, <2>2, <3>1
  <2>3. q <= q /\ ~(q <= p)
    BY <2>1
  <2> QED
    BY <2>2, <2>3, Zenon
<1>2. IsFiniteSet(P) /\ Rank(P, p) \in Nat /\ Rank(P, q) \in Nat
  <2>1. Rank(P, p) \in 1 .. Cardinality(P) /\ Rank(P, q) \in 1 .. Cardinality(P)
    BY RankBound
  <2> QED
    BY <1>0, <2>1
<1> HIDE DEF U, V
<1>3. IsFiniteSet(V)
  BY <1>1, <1>2, FS_Subset
<1>4. Cardinality(U) <= Cardinality(V) /\ Cardinality(U) # Cardinality(V)
  BY <1>1, <1>3, FS_Subset
<1>5. Rank(P, p) = Cardinality(U) /\ Rank(P, q) = Cardinality(V)
  BY DEF Rank, U, V
<1> QED
  BY <1>2, <1>4, <1>5

LEMMA RankOnto ==
  ASSUME NEW n \in Nat, NEW P \in SUBSET (1 .. n), NEW i \in 1 .. Cardinality(P)
  PROVE  \E p \in P : Rank(P, p) = i
<1> DEFINE C == 1 .. Cardinality(P)
           f == [p \in P |-> Rank(P, p)]
<1>1. CASE P = {}
  BY <1>1, FS_EmptySet
<1>2. CASE P # {}
  <2>1. IsFiniteSet(P) /\ Cardinality(P) \in Nat /\ \A p \in P : Rank(P, p) \in C
    BY <1>2, RankBound
  <2>2. \A p, q \in P : Rank(P, p) = Rank(P, q) => p = q
    <3> SUFFICES ASSUME NEW p \in P, NEW q \in P, p # q
                 PROVE  Rank(P, p) # Rank(P, q)
      OBVIOUS
    <3>1. Rank(P, p) \in Nat /\ Rank(P, q) \in Nat
      BY <2>1
    <3>2. p < q \/ q < p
      BY FiniteNumbers
    <3>3. p < q => Rank(P, p) < Rank(P, q)
      BY RankGrows
    <3>4. q < p => Rank(P, q) < Rank(P, p)
      BY RankGrows
    <3> HIDE DEF C
    <3> QED
      BY <3>1, <3>2, <3>3, <3>4
  <2>3. IsFiniteSet(C) /\ Cardinality(C) = Cardinality(P)
    BY <2>1, FS_Interval
  <2>4. f \in [P -> C] /\ \A p \in P : f[p] = Rank(P, p)
    BY <2>1
  <2> HIDE DEF f, C
  <2>5. f \in Injection(P, C)
    BY <2>2, <2>4 DEF Injection, IsInjective
  <2>6. f \in Surjection(P, C)
    BY <2>3, <2>5, FS_Injection
  <2>7. i \in C
    BY DEF C
  <2> QED
    BY <2>4, <2>6, <2>7 DEF Surjection
<1> QED
  BY <1>1, <1>2

(* The numbers of a set in their order.                                     *)
LEMMA Enumerated ==
  ASSUME NEW n \in Nat, NEW P \in SUBSET (1 .. n)
  PROVE  LET c == Cardinality(P)
             g == [i \in 1 .. c |-> CHOOSE p \in P : Rank(P, p) = i]
         IN  /\ c \in Nat /\ g \in [1 .. c -> P]
             /\ \A i, j \in 1 .. c : i < j => g[i] < g[j]
             /\ \A p \in P : \E i \in 1 .. c : g[i] = p
<1> DEFINE c == Cardinality(P)
           g == [i \in 1 .. c |-> CHOOSE p \in P : Rank(P, p) = i]
<1>1. c \in Nat /\ \A p \in P : p \in Nat
  BY FiniteNumbers
<1>2. \A i \in 1 .. c : g[i] \in P /\ Rank(P, g[i]) = i
  BY RankOnto
<1> HIDE DEF c, g
<1>3. \A p \in P : Rank(P, p) \in 1 .. c
  BY RankBound DEF c
<1>4. ASSUME NEW i \in 1 .. c, NEW j \in 1 .. c, i < j
      PROVE  g[i] < g[j]
  <2>1. g[i] \in P /\ g[j] \in P /\ Rank(P, g[i]) < Rank(P, g[j])
    BY <1>2, <1>4
  <2>2. ~(g[j] < g[i])
    <3>1. SUFFICES ASSUME g[j] < g[i] PROVE FALSE
      OBVIOUS
    <3>2. Rank(P, g[j]) < Rank(P, g[i])
      BY <2>1, <3>1, RankGrows
    <3> QED
      BY <1>2, <1>4, <3>2
  <2>3. g[i] # g[j]
    BY <1>2, <1>4
  <2>4. g[i] \in Nat /\ g[j] \in Nat
    BY <1>1, <2>1, Zenon
  <2> QED
    BY <2>2, <2>3, <2>4
<1>5. ASSUME NEW p \in P
      PROVE  \E i \in 1 .. c : g[i] = p
  <2> DEFINE i == Rank(P, p)
  <2>1. i \in 1 .. c /\ g[i] \in P /\ Rank(P, g[i]) = Rank(P, p)
    BY <1>2, <1>3
  <2>2. Rank(P, p) \in Nat
    BY <1>1, <2>1
  <2>3. ~(g[i] < p) /\ ~(p < g[i])
    <3>1. g[i] < p => Rank(P, g[i]) < Rank(P, p)
      BY <2>1, RankGrows
    <3>2. p < g[i] => Rank(P, p) < Rank(P, g[i])
      BY <2>1, RankGrows
    <3> QED
      BY <2>1, <2>2, <3>1, <3>2
  <2> HIDE DEF i
  <2>4. g[i] \in Nat /\ p \in Nat
    BY <1>1, <2>1, Zenon
  <2>5. g[i] = p
    BY <2>3, <2>4
  <2> QED
    BY <2>1, <2>5
<1>6. g \in [1 .. c -> P]
  BY <1>2 DEF g
<1> QED
  BY <1>1, <1>4, <1>5, <1>6 DEF c, g
=============================================================================
