--------------------------- MODULE PipelineProofs ---------------------------
(***************************************************************************)
(* Proofs about the registry of pipeline.py, for every set of names and    *)
(* every declaration: run() hands out a topological order of the steps     *)
(* that are registered, rejects as cyclic only what is, and ends.          *)
(***************************************************************************)
EXTENDS Pipeline, FiniteSetTheorems, TLAPS

USE NamesAssumption

NoDup(seq) == \A i, j \in DOMAIN seq : seq[i] = seq[j] => i = j

DepsFirst(seq) ==
  \A i \in DOMAIN seq : \A d \in deps[seq[i]] : \E j \in DOMAIN seq : j < i /\ seq[j] = d

-----------------------------------------------------------------------------
(* Sequences without repetition.                                           *)

(* A sequence without repetition has as many elements as its set.           *)
LEMMA NoDupCardinality ==
  ASSUME NEW S, NEW s \in Seq(S), NoDup(s)
  PROVE  IsFiniteSet(SetOf(s)) /\ Cardinality(SetOf(s)) = Len(s)
<1>1. Len(s) \in Nat /\ DOMAIN s = 1 .. Len(s)
  OBVIOUS
<1>2. IsFiniteSet(1 .. Len(s)) /\ Cardinality(1 .. Len(s)) = Len(s)
  BY <1>1, FS_Interval
<1>3. s \in Bijection(1 .. Len(s), SetOf(s))
  <2>1. s \in [1 .. Len(s) -> SetOf(s)]
    BY <1>1 DEF SetOf
  <2>2. \A t \in SetOf(s) : \E i \in 1 .. Len(s) : s[i] = t
    BY <1>1 DEF SetOf
  <2>3. \A i, j \in 1 .. Len(s) : s[i] = s[j] => i = j
    BY <1>1 DEF NoDup
  <2> QED
    BY <1>1, <2>1, <2>2, <2>3 DEF Bijection, Injection, Surjection, IsInjective
<1>4. ExistsBijection(1 .. Len(s), SetOf(s))
  BY <1>3 DEF ExistsBijection
<1> QED
  BY <1>2, <1>4, FS_Bijection

(* Append adds its element to the set.                                      *)
LEMMA SetOfAppend ==
  ASSUME NEW S, NEW s \in Seq(S), NEW e \in S
  PROVE  /\ Append(s, e) \in Seq(S)
         /\ SetOf(Append(s, e)) = SetOf(s) \cup {e}
         /\ e \notin SetOf(s) /\ NoDup(s) => NoDup(Append(s, e))
<1>1. /\ Len(s) \in Nat /\ DOMAIN s = 1 .. Len(s)
      /\ DOMAIN Append(s, e) = 1 .. Len(s) + 1
      /\ \A i \in 1 .. Len(s) : Append(s, e)[i] = s[i]
      /\ Append(s, e)[Len(s) + 1] = e
  OBVIOUS
<1>2. Append(s, e) \in Seq(S)
  OBVIOUS
<1>3. SetOf(Append(s, e)) = SetOf(s) \cup {e}
  <2>1. SUFFICES ASSUME NEW x
                 PROVE  x \in SetOf(Append(s, e)) <=> x \in SetOf(s) \cup {e}
    OBVIOUS
  <2>2. 1 .. Len(s) + 1 = (1 .. Len(s)) \cup {Len(s) + 1}
    BY <1>1
  <2> QED
    BY <1>1, <2>2 DEF SetOf
<1>4. ASSUME e \notin SetOf(s), NoDup(s) PROVE NoDup(Append(s, e))
  BY <1>1, <1>4 DEF NoDup, SetOf
<1> QED
  BY <1>2, <1>3, <1>4

(* The head of a sequence without repetition is not in its tail.            *)
LEMMA SetOfTail ==
  ASSUME NEW S, NEW s \in Seq(S), s # <<>>
  PROVE  /\ Head(s) \in S /\ Tail(s) \in Seq(S)
         /\ SetOf(s) = {Head(s)} \cup SetOf(Tail(s))
         /\ NoDup(s) => NoDup(Tail(s)) /\ Head(s) \notin SetOf(Tail(s))
<1>1. /\ Len(s) \in Nat /\ Len(s) # 0 /\ DOMAIN s = 1 .. Len(s)
      /\ DOMAIN Tail(s) = 1 .. Len(s) - 1
      /\ \A i \in 1 .. Len(s) - 1 : Tail(s)[i] = s[i + 1]
      /\ Head(s) = s[1]
  OBVIOUS
<1>2. Head(s) \in S /\ Tail(s) \in Seq(S)
  OBVIOUS
<1>3. SetOf(s) = {Head(s)} \cup SetOf(Tail(s))
  <2>1. ASSUME NEW i \in 1 .. Len(s)
        PROVE  s[i] \in {Head(s)} \cup SetOf(Tail(s))
    <3>1. CASE i = 1
      BY <1>1, <3>1
    <3>2. CASE i # 1
      <4>1. i - 1 \in 1 .. Len(s) - 1 /\ Tail(s)[i - 1] = s[i]
        BY <1>1, <3>2
      <4> QED
        BY <1>1, <4>1 DEF SetOf
    <3> QED
      BY <3>1, <3>2
  <2>2. ASSUME NEW i \in 1 .. Len(s) - 1
        PROVE  Tail(s)[i] \in SetOf(s)
    <3>1. i + 1 \in 1 .. Len(s)
      BY <1>1
    <3> QED
      BY <1>1, <3>1 DEF SetOf
  <2>3. Head(s) \in SetOf(s)
    BY <1>1 DEF SetOf
  <2> QED
    BY <1>1, <2>1, <2>2, <2>3 DEF SetOf
<1>4. ASSUME NoDup(s) PROVE NoDup(Tail(s)) /\ Head(s) \notin SetOf(Tail(s))
  <2>1. ASSUME NEW i \in 1 .. Len(s) - 1, NEW j \in 1 .. Len(s) - 1, Tail(s)[i] = Tail(s)[j]
        PROVE  i = j
    <3>1. i + 1 \in 1 .. Len(s) /\ j + 1 \in 1 .. Len(s) /\ s[i + 1] = s[j + 1]
      BY <1>1, <2>1
    <3> QED
      BY <1>1, <1>4, <3>1 DEF NoDup
  <2>2. ASSUME NEW i \in 1 .. Len(s) - 1 PROVE Tail(s)[i] # Head(s)
    <3>1. i + 1 \in 1 .. Len(s) /\ 1 \in 1 .. Len(s) /\ i + 1 # 1
      BY <1>1
    <3> QED
      BY <1>1, <1>4, <3>1 DEF NoDup
  <2> QED
    BY <1>1, <2>1, <2>2 DEF NoDup, SetOf
<1> QED
  BY <1>2, <1>3, <1>4

(* Two sequences that share nothing, one after the other.                   *)
LEMMA SetOfConcat ==
  ASSUME NEW S, NEW s \in Seq(S), NEW t \in Seq(S)
  PROVE  /\ s \o t \in Seq(S)
         /\ SetOf(s \o t) = SetOf(s) \cup SetOf(t)
         /\ NoDup(s) /\ NoDup(t) /\ SetOf(s) \cap SetOf(t) = {} => NoDup(s \o t)
<1>1. /\ Len(s) \in Nat /\ DOMAIN s = 1 .. Len(s)
      /\ Len(t) \in Nat /\ DOMAIN t = 1 .. Len(t)
      /\ DOMAIN (s \o t) = 1 .. Len(s) + Len(t)
      /\ \A i \in 1 .. Len(s) : (s \o t)[i] = s[i]
      /\ \A i \in 1 .. Len(t) : (s \o t)[Len(s) + i] = t[i]
  OBVIOUS
<1>2. s \o t \in Seq(S)
  OBVIOUS
<1>3. ASSUME NEW i \in 1 .. Len(s) + Len(t)
      PROVE  \/ i \in 1 .. Len(s) /\ (s \o t)[i] = s[i]
             \/ i - Len(s) \in 1 .. Len(t) /\ (s \o t)[i] = t[i - Len(s)]
  <2>1. CASE i <= Len(s)
    BY <1>1, <2>1
  <2>2. CASE i > Len(s)
    <3>1. i - Len(s) \in 1 .. Len(t) /\ i = Len(s) + (i - Len(s))
      BY <1>1, <2>2
    <3> QED
      BY <1>1, <3>1
  <2> QED
    BY <1>1, <2>1, <2>2
<1>4. SetOf(s \o t) = SetOf(s) \cup SetOf(t)
  <2>1. \A i \in 1 .. Len(s) : i \in 1 .. Len(s) + Len(t)
    BY <1>1
  <2>2. \A i \in 1 .. Len(t) : Len(s) + i \in 1 .. Len(s) + Len(t)
    BY <1>1
  <2>3. SetOf(s \o t) \subseteq SetOf(s) \cup SetOf(t)
    BY <1>1, <1>3 DEF SetOf
  <2>4. SetOf(s) \subseteq SetOf(s \o t)
    <3>1. ASSUME NEW i \in 1 .. Len(s) PROVE s[i] \in SetOf(s \o t)
      BY <1>1, <2>1 DEF SetOf
    <3> QED
      BY <1>1, <3>1 DEF SetOf
  <2>5. SetOf(t) \subseteq SetOf(s \o t)
    <3>1. ASSUME NEW i \in 1 .. Len(t) PROVE t[i] \in SetOf(s \o t)
      BY <1>1, <2>2 DEF SetOf
    <3> QED
      BY <1>1, <3>1 DEF SetOf
  <2> QED
    BY <2>3, <2>4, <2>5
<1>5. ASSUME NoDup(s), NoDup(t), SetOf(s) \cap SetOf(t) = {} PROVE NoDup(s \o t)
  <2>1. SUFFICES ASSUME NEW i \in 1 .. Len(s) + Len(t), NEW j \in 1 .. Len(s) + Len(t),
                        (s \o t)[i] = (s \o t)[j]
                 PROVE  i = j
    BY <1>1 DEF NoDup
  <2>2. \A k \in 1 .. Len(s) : \A l \in 1 .. Len(t) : s[k] # t[l]
    BY <1>1, <1>5 DEF SetOf
  <2>3. CASE i \in 1 .. Len(s) /\ j \in 1 .. Len(s)
    BY <1>1, <1>5, <2>1, <2>3 DEF NoDup
  <2>4. CASE i - Len(s) \in 1 .. Len(t) /\ j - Len(s) \in 1 .. Len(t)
    <3>1. t[i - Len(s)] = t[j - Len(s)]
      BY <1>1, <1>3, <2>1, <2>4
    <3>2. i - Len(s) = j - Len(s)
      BY <1>1, <1>5, <2>4, <3>1 DEF NoDup
    <3> QED
      BY <1>1, <3>2
  <2> QED
    BY <1>1, <1>3, <2>1, <2>2, <2>3, <2>4
<1> QED
  BY <1>2, <1>4, <1>5

(* Arranged gives sequences without repetition of exactly the elements.     *)
LEMMA ArrangedType ==
  ASSUME NEW S \in SUBSET Names, NEW place, \A e \in S : place[e] \in Int,
         NEW seq \in Arranged(S, place)
  PROVE  seq \in Seq(Names) /\ SetOf(seq) = S /\ NoDup(seq)
<1>1. IsFiniteSet(S)
  BY FS_Subset
<1>2. Cardinality(S) \in Nat
  BY <1>1, FS_CardinalityType
<1>3. seq \in [1 .. Cardinality(S) -> S]
  BY DEF Arranged
<1>4. seq \in Seq(Names)
  BY <1>2, <1>3
<1>5. NoDup(seq)
  <2>1. SUFFICES ASSUME NEW i \in DOMAIN seq, NEW j \in DOMAIN seq, seq[i] = seq[j], i # j
                 PROVE  FALSE
    BY DEF NoDup
  <2>2. i \in Nat /\ j \in Nat /\ seq[i] \in S
    BY <1>2, <1>3
  <2>3. i < j \/ j < i
    BY <2>1, <2>2
  <2>4. place[seq[i]] < place[seq[j]] \/ place[seq[j]] < place[seq[i]]
    BY <2>3 DEF Arranged
  <2>5. place[seq[i]] \in Int
    BY <2>2
  <2> QED
    BY <2>1, <2>4, <2>5
<1> QED
  BY <1>4, <1>5 DEF Arranged

-----------------------------------------------------------------------------
(* The inductive invariant. While run() sorts, in_degree counts what a step *)
(* still waits for, and a step is ready or ordered just when that is        *)
(* nothing. Between calls the sort has left nothing behind.                 *)

Degrees ==
  \A n \in Known : inDegree[n] = Cardinality(deps[n] \ SetOf(ordered))

Released ==
  \A n \in Known :
    deps[n] \subseteq SetOf(ordered) <=> n \in SetOf(ordered) \cup SetOf(ready)

SortInv ==
  /\ \A n \in Known : deps[n] \subseteq Known
  /\ Degrees
  /\ Released
  /\ SetOf(ordered) \cup SetOf(ready) \subseteq Known
  /\ SetOf(ordered) \cap SetOf(ready) = {}
  /\ NoDup(ordered) /\ NoDup(ready)
  /\ DepsFirst(ordered)

IdleInv == ready = <<>> /\ ordered = <<>>

IInv ==
  /\ TypeOK
  /\ NoDup(registered)
  /\ IF sorting THEN SortInv ELSE IdleInv
  /\ result = "sorting" <=> sorting
  /\ OrderIsFresh
  /\ CycleIsReal
  /\ NoEntryMeansEmpty

LEMMA InitIInv == Init => IInv
<1> SUFFICES ASSUME Init PROVE IInv
  OBVIOUS
<1>1. TypeOK
  <2>1. deps \in [Names -> SUBSET Refs] /\ inDegree \in [Names -> Nat]
    BY DEF Init
  <2>2. <<>> \in Seq(Names)
    OBVIOUS
  <2> QED
    BY <2>1, <2>2 DEF Init, TypeOK
<1>2. NoDup(registered)
  BY DEF Init, NoDup
<1> QED
  BY <1>1, <1>2 DEF Init, IInv, IdleInv, OrderIsFresh, CycleIsReal, NoEntryMeansEmpty

(* What is known of the sets the sort works with.                           *)
LEMMA KnownFinite ==
  ASSUME TypeOK
  PROVE  /\ Known \subseteq Names /\ IsFiniteSet(Known)
         /\ IsFiniteSet(Names)
         /\ \A n \in Names : IsFiniteSet(deps[n])
<1>1. IsFiniteSet(Names)
  BY FS_Subset
<1>2. Known \subseteq Names
  BY DEF TypeOK, Known, SetOf
<1>3. \A n \in Names : deps[n] \in SUBSET Refs
  BY DEF TypeOK
<1> QED
  BY <1>1, <1>2, <1>3, FS_Subset

LEMMA RegisterIInv ==
  ASSUME IInv, NEW n \in Names, NEW needs \in Declared[n], Register(n, needs)
  PROVE  IInv'
<1> USE DEF Register
<1>1. TypeOK'
  <2>1. needs \in SUBSET Refs
    OBVIOUS
  <2> QED
    BY <2>1 DEF IInv, TypeOK, sortVars, Invalidate
<1>2. NoDup(registered)'
  BY SetOfAppend DEF IInv, TypeOK, Known
<1>3. ~sorting' /\ IdleInv'
  BY DEF IInv, IdleInv, sortVars
<1> QED
  BY <1>1, <1>2, <1>3 DEF IInv, Invalidate, OrderIsFresh, CycleIsReal, NoEntryMeansEmpty

(* A call that changes nothing but the result.                              *)
LEMMA AnswerIInv ==
  ASSUME IInv, ~sorting, UNCHANGED <<registered, deps, dagOrder, sorting, sortVars>>,
         result' \in {"taken", "unknown", "order"}
  PROVE  IInv'
<1>1. TypeOK'
  BY DEF IInv, TypeOK, sortVars
<1>2. NoDup(registered)' /\ IdleInv' /\ ~sorting'
  BY DEF IInv, IdleInv, NoDup, sortVars
<1>3. Known' = Known
  BY DEF Known, SetOf
<1>4. OrderIsFresh'
  BY <1>3 DEF IInv, OrderIsFresh, Topological, SetOf
<1>5. CycleIsReal' /\ NoEntryMeansEmpty'
  BY DEF CycleIsReal, NoEntryMeansEmpty
<1>6. result' # "sorting"
  OBVIOUS
<1> QED
  BY <1>1, <1>2, <1>4, <1>5, <1>6 DEF IInv

LEMMA RunSortIInv ==
  ASSUME IInv, RunSort
  PROVE  IInv'
<1> DEFINE place == [n \in Known |-> CHOOSE i \in DOMAIN registered : registered[i] = n]
<1>1. TypeOK /\ Known \subseteq Names /\ \A n \in Names : IsFiniteSet(deps[n])
  BY KnownFinite DEF IInv
<1>2. \A n \in Entries : place[n] \in Int
  <2>1. SUFFICES ASSUME NEW n \in Known PROVE place[n] \in Int
    BY DEF Entries
  <2>2. \E i \in DOMAIN registered : registered[i] = n
    BY DEF Known, SetOf
  <2>3. place[n] \in DOMAIN registered
    BY <2>2
  <2> QED
    BY <1>1, <2>3 DEF TypeOK
<1>3. ready' \in Seq(Names) /\ SetOf(ready') = Entries /\ NoDup(ready')
  <2>1. ready' \in Arranged(Entries, place)
    BY DEF RunSort
  <2>2. Entries \in SUBSET Names
    BY <1>1 DEF Entries
  <2> HIDE DEF place
  <2> QED
    BY <1>2, <2>1, <2>2, ArrangedType
<1>4. UNCHANGED <<registered, deps, dagOrder>> /\ Known' = Known /\ Entries' = Entries
  BY DEF RunSort, Known, SetOf, Entries
<1>5. ordered' = <<>> /\ SetOf(ordered') = {}
  BY DEF RunSort, SetOf
<1>6. inDegree' = [n \in Names |-> Cardinality(deps[n])]
  BY DEF RunSort
<1>7. TypeOK'
  <2>1. inDegree' \in [Names -> Nat]
    BY <1>1, <1>6, FS_CardinalityType
  <2>2. ordered' \in Seq(Names)
    BY <1>5
  <2> QED
    BY <1>1, <1>3, <1>4, <2>1, <2>2 DEF TypeOK, RunSort
<1>8. SortInv'
  <2>1. \A n \in Known : deps[n] \subseteq Known
    BY DEF RunSort
  <2>2. Degrees'
    <3>1. ASSUME NEW n \in Known PROVE inDegree'[n] = Cardinality(deps[n] \ {})
      <4>1. deps[n] \ {} = deps[n]
        OBVIOUS
      <4> QED
        BY <1>1, <1>6, <4>1
    <3> QED
      BY <1>4, <1>5, <3>1 DEF Degrees
  <2>3. Released'
    BY <1>3, <1>4, <1>5 DEF Released, Entries
  <2>4. NoDup(ordered') /\ DepsFirst(ordered)'
    BY <1>5 DEF NoDup, DepsFirst
  <2> QED
    BY <1>3, <1>4, <1>5, <2>1, <2>2, <2>3, <2>4 DEF SortInv, Entries
<1>9. OrderIsFresh' /\ CycleIsReal' /\ NoEntryMeansEmpty'
  BY DEF RunSort, OrderIsFresh, CycleIsReal, NoEntryMeansEmpty
<1>10. NoDup(registered)' /\ sorting' /\ result' = "sorting"
  BY <1>4 DEF IInv, RunSort, NoDup
<1> QED
  BY <1>7, <1>8, <1>9, <1>10 DEF IInv

(* A turn of the loop: n leaves `ready` for the order, and with it every    *)
(* step that waited for nothing else becomes ready.                         *)
LEMMA PopIInv ==
  ASSUME IInv, Pop
  PROVE  IInv'
<1> DEFINE n == Head(ready)
           Done == SetOf(ordered)
           Waiting == SetOf(Tail(ready))
<1>1. TypeOK /\ SortInv /\ sorting
  BY DEF IInv, Pop
<1>2. Known \subseteq Names /\ \A d \in Names : IsFiniteSet(deps[d])
  BY <1>1, KnownFinite
<1>3. /\ n \in Names /\ Tail(ready) \in Seq(Names) /\ NoDup(Tail(ready))
      /\ SetOf(ready) = {n} \cup Waiting /\ n \notin Waiting
  BY <1>1, SetOfTail DEF TypeOK, SortInv, Pop
<1>4. n \in Known /\ n \notin Done /\ Waiting \subseteq Known /\ Waiting \cap Done = {}
  BY <1>1, <1>3 DEF SortInv
<1>5. UNCHANGED <<registered, deps, dagOrder, sorting, result>> /\ Known' = Known
  BY DEF Pop, Known, SetOf
<1>6. /\ ordered' \in Seq(Names) /\ SetOf(ordered') = Done \cup {n} /\ NoDup(ordered')
  <2>1. ordered' = Append(ordered, n)
    BY DEF Pop
  <2>2. ordered \in Seq(Names) /\ NoDup(ordered)
    BY <1>1 DEF TypeOK, SortInv
  <2> HIDE DEF n
  <2> QED
    BY <1>3, <1>4, <2>1, <2>2, SetOfAppend
<1>7. ASSUME NEW d \in Known
      PROVE  /\ inDegree'[d] = Cardinality(deps[d] \ (Done \cup {n}))
             /\ inDegree'[d] \in Nat
             /\ d \in Freed(n) <=> n \in deps[d] /\ deps[d] \subseteq Done \cup {n}
  <2>1. IsFiniteSet(deps[d] \ Done) /\ Cardinality(deps[d] \ Done) \in Nat
    BY <1>2, FS_Subset, FS_CardinalityType
  <2>2. (deps[d] \ Done) \ {n} = deps[d] \ (Done \cup {n})
    OBVIOUS
  <2>3. /\ IsFiniteSet(deps[d] \ (Done \cup {n}))
        /\ Cardinality(deps[d] \ (Done \cup {n})) \in Nat
        /\ Cardinality(deps[d] \ (Done \cup {n})) =
             IF n \in deps[d] THEN Cardinality(deps[d] \ Done) - 1
                              ELSE Cardinality(deps[d] \ Done)
    <3>1. n \in deps[d] \ Done <=> n \in deps[d]
      BY <1>4
    <3> HIDE DEF n, Done
    <3>2. /\ IsFiniteSet((deps[d] \ Done) \ {n})
          /\ Cardinality((deps[d] \ Done) \ {n}) =
               IF n \in deps[d] \ Done THEN Cardinality(deps[d] \ Done) - 1
                                       ELSE Cardinality(deps[d] \ Done)
      BY <2>1, FS_RemoveElement
    <3>3. Cardinality((deps[d] \ Done) \ {n}) \in Nat
      BY <3>2, FS_CardinalityType
    <3> QED
      BY <2>2, <3>1, <3>2, <3>3
  <2>4. inDegree[d] = Cardinality(deps[d] \ Done)
    BY <1>1 DEF SortInv, Degrees
  <2>5. inDegree'[d] = IF n \in deps[d] THEN inDegree[d] - 1 ELSE inDegree[d]
    BY <1>2 DEF Pop, Dependents
  <2>6. Cardinality(deps[d] \ (Done \cup {n})) = 0 <=> deps[d] \subseteq Done \cup {n}
    <3>1. deps[d] \ (Done \cup {n}) = {} <=> deps[d] \subseteq Done \cup {n}
      OBVIOUS
    <3> QED
      BY <2>3, <3>1, FS_EmptySet
  <2>7. d \in Freed(n) <=> n \in deps[d] /\ inDegree[d] = 1
    BY DEF Freed, Dependents
  <2> HIDE DEF n, Done
  <2> QED
    BY <2>1, <2>3, <2>4, <2>5, <2>6, <2>7
<1>8. Freed(n) \subseteq Known /\ Freed(n) \cap (Done \cup SetOf(ready)) = {}
  <2>1. ASSUME NEW d \in Freed(n) PROVE d \in Known /\ d \notin Done \cup SetOf(ready)
    <3>1. d \in Known /\ n \in deps[d]
      BY DEF Freed, Dependents
    <3>2. ~(deps[d] \subseteq Done)
      BY <1>4, <3>1
    <3> QED
      BY <1>1, <3>1, <3>2 DEF SortInv, Released
  <2> QED
    BY <2>1
<1>9. /\ ready' \in Seq(Names) /\ NoDup(ready')
      /\ SetOf(ready') = Waiting \cup Freed(n)
  <2>1. PICK seq \in Arranged(Freed(n), Rank) : ready' = Tail(ready) \o seq
    BY DEF Pop, Rest
  <2>2. Freed(n) \in SUBSET Names /\ \A d \in Freed(n) : Rank[d] \in Int
    BY <1>2, <1>8
  <2>3. seq \in Seq(Names) /\ SetOf(seq) = Freed(n) /\ NoDup(seq)
    BY <2>1, <2>2, ArrangedType
  <2>4. SetOf(Tail(ready)) \cap SetOf(seq) = {}
    BY <1>3, <1>8, <2>3
  <2>5. SetOf(ready') = SetOf(Tail(ready)) \cup SetOf(seq)
    <3>1. Tail(ready) \in Seq(Names) /\ seq \in Seq(Names)
      BY <1>3, <2>3
    <3>2. ASSUME NEW s \in Seq(Names), NEW t \in Seq(Names)
          PROVE  SetOf(s \o t) = SetOf(s) \cup SetOf(t)
      BY SetOfConcat
    <3> QED
      BY <2>1, <3>1, <3>2
  <2>6. ready' \in Seq(Names)
    BY <1>3, <2>1, <2>3, SetOfConcat
  <2>7. NoDup(ready')
    BY <1>3, <2>1, <2>3, <2>4, SetOfConcat
  <2> QED
    BY <2>3, <2>5, <2>6, <2>7
<1>10. TypeOK'
  <2>1. inDegree' \in [Names -> Nat]
    <3>1. ASSUME NEW d \in Names \ Known PROVE inDegree'[d] = inDegree[d]
      BY DEF Pop, Dependents
    <3>2. inDegree' = [d \in Names |-> inDegree'[d]]
      BY DEF Pop
    <3> QED
      BY <1>1, <1>7, <3>1, <3>2 DEF TypeOK
  <2> QED
    BY <1>1, <1>5, <1>6, <1>9, <2>1 DEF TypeOK
<1>11. SortInv'
  <2> HIDE DEF n, Done, Waiting
  <2>1. \A d \in Known : deps[d] \subseteq Known
    BY <1>1 DEF SortInv
  <2>2. Degrees'
    BY <1>5, <1>6, <1>7 DEF Degrees
  <2>3. Released'
    <3>1. SUFFICES ASSUME NEW d \in Known
                   PROVE  deps[d] \subseteq Done \cup {n} <=>
                          d \in Done \cup {n} \cup Waiting \cup Freed(n)
      BY <1>5, <1>6, <1>9 DEF Released
    <3>2. deps[d] \subseteq Done <=> d \in Done \cup {n} \cup Waiting
      BY <1>1, <1>3 DEF SortInv, Released, Done
    <3>3. CASE n \in deps[d]
      BY <1>4, <1>7, <3>2, <3>3
    <3>4. CASE n \notin deps[d]
      BY <1>7, <3>2, <3>4
    <3> QED
      BY <3>3, <3>4
  <2>4. DepsFirst(ordered)'
    <3>1. deps[n] \subseteq Done
      BY <1>1, <1>3, <1>4 DEF SortInv, Released, Done
    <3>2. /\ Len(ordered) \in Nat /\ DOMAIN ordered = 1 .. Len(ordered)
          /\ DOMAIN ordered' = 1 .. Len(ordered) + 1
          /\ \A i \in 1 .. Len(ordered) : ordered'[i] = ordered[i]
          /\ ordered'[Len(ordered) + 1] = n
      BY <1>1, <1>3 DEF TypeOK, Pop, n
    <3>3. SUFFICES ASSUME NEW i \in 1 .. Len(ordered) + 1, NEW d \in deps[ordered'[i]]
                   PROVE  \E j \in 1 .. Len(ordered) : j < i /\ ordered[j] = d
      BY <1>5, <3>2 DEF DepsFirst
    <3>4. CASE i = Len(ordered) + 1
      <4>1. d \in Done
        BY <3>1, <3>2, <3>3, <3>4
      <4>2. PICK j \in 1 .. Len(ordered) : ordered[j] = d
        BY <3>2, <4>1 DEF Done, SetOf
      <4> QED
        BY <3>2, <3>4, <4>2
    <3>5. CASE i # Len(ordered) + 1
      <4>1. i \in 1 .. Len(ordered) /\ d \in deps[ordered[i]]
        BY <3>2, <3>3, <3>5
      <4> QED
        BY <1>1, <3>2, <4>1 DEF SortInv, DepsFirst
    <3> QED
      BY <3>4, <3>5
  <2>5. SetOf(ordered') \cup SetOf(ready') \subseteq Known
    BY <1>1, <1>4, <1>6, <1>8, <1>9 DEF SortInv, Done
  <2>6. SetOf(ordered') \cap SetOf(ready') = {}
    BY <1>3, <1>4, <1>6, <1>8, <1>9
  <2> QED
    BY <1>5, <1>6, <1>9, <2>1, <2>2, <2>3, <2>4, <2>5, <2>6 DEF SortInv
<1>12. OrderIsFresh' /\ CycleIsReal' /\ NoEntryMeansEmpty' /\ NoDup(registered)'
  BY <1>5 DEF IInv, OrderIsFresh, Topological, CycleIsReal, NoEntryMeansEmpty, NoDup
<1> QED
  BY <1>1, <1>5, <1>10, <1>11, <1>12 DEF IInv

(* The loop has ended. If not every step was ordered, those that were not   *)
(* all wait for one another; if every step was, the order is topological,   *)
(* and its first step is an entry.                                          *)
LEMMA FinishIInv ==
  ASSUME IInv, Finish
  PROVE  IInv'
<1> DEFINE Done == SetOf(ordered)
           Left == Known \ Done
<1>1. TypeOK /\ SortInv /\ ready = <<>> /\ NoDup(registered)
  BY DEF IInv, Finish
<1>2. UNCHANGED <<registered, deps, ready>> /\ Known' = Known
  BY DEF Finish, Known, SetOf
<1>3. Done \subseteq Known
  BY <1>1 DEF SortInv
<1>4. Len(ordered) = Len(registered) <=> Done = Known
  <2>1. IsFiniteSet(Done) /\ Cardinality(Done) = Len(ordered)
    BY <1>1, NoDupCardinality DEF TypeOK, SortInv
  <2>2. IsFiniteSet(Known) /\ Cardinality(Known) = Len(registered)
    BY <1>1, NoDupCardinality DEF TypeOK, Known
  <2> HIDE DEF Done
  <2> QED
    BY <1>3, <2>1, <2>2, FS_Subset
<1>5. ASSUME Done # Known
      PROVE  Left # {} /\ \A n \in Left : deps[n] \cap Left # {}
  <2>1. Left # {}
    BY <1>3, <1>5
  <2>2. ASSUME NEW n \in Left PROVE deps[n] \cap Left # {}
    <3>1. SetOf(ready) = {}
      BY <1>1 DEF SetOf
    <3>2. ~(deps[n] \subseteq Done)
      BY <1>1, <2>2, <3>1 DEF SortInv, Released
    <3>3. deps[n] \subseteq Known
      BY <1>1, <2>2 DEF SortInv
    <3> QED
      BY <3>2, <3>3
  <2> QED
    BY <2>1, <2>2
<1>6. ASSUME Done = Known PROVE Topological(ordered)
  BY <1>1, <1>6 DEF Topological, SortInv, NoDup, DepsFirst
<1>7. ASSUME Done = Known, registered # <<>> PROVE Entries # {}
  <2>1. registered[1] \in Known
    BY <1>1, <1>7 DEF TypeOK, Known, SetOf
  <2>2. Len(ordered) \in Nat /\ DOMAIN ordered = 1 .. Len(ordered) /\ 1 \in DOMAIN ordered
    BY <1>1, <1>7, <2>1 DEF TypeOK, SetOf
  <2>3. deps[ordered[1]] = {}
    BY <1>1, <2>2 DEF SortInv, DepsFirst
  <2>4. ordered[1] \in Known
    BY <1>7, <2>2 DEF SetOf
  <2> QED
    BY <2>3, <2>4 DEF Entries
<1>8. TypeOK'
  <2>1. ordered' \in Seq(Names) /\ inDegree' \in [Names -> Nat]
    BY DEF Finish
  <2>2. dagOrder' \in Seq(Names)
    BY <1>1 DEF Finish, TypeOK
  <2>3. result' \in {"cycle", "noentry", "order"} /\ sorting' = FALSE
    BY DEF Finish, Verdict
  <2> QED
    BY <1>1, <1>2, <2>1, <2>2, <2>3 DEF TypeOK
<1>9. OrderIsFresh'
  <2>1. CASE Verdict = "order"
    <3>1. Done = Known /\ dagOrder' = ordered
      BY <1>4, <2>1 DEF Verdict, Finish
    <3> QED
      BY <1>2, <1>6, <3>1 DEF OrderIsFresh, Topological
  <2>2. CASE Verdict # "order"
    <3>1. dagOrder' = dagOrder
      BY <2>2 DEF Finish
    <3> QED
      BY <1>2, <3>1 DEF IInv, OrderIsFresh, Topological
  <2> QED
    BY <2>1, <2>2
<1>10. CycleIsReal'
  <2>1. SUFFICES ASSUME Verdict = "cycle"
                 PROVE  \E S \in SUBSET Known : S # {} /\ \A n \in S : deps[n] \cap S # {}
    BY <1>2 DEF CycleIsReal, Finish
  <2>2. Done # Known
    BY <1>4, <2>1 DEF Verdict
  <2>3. Left \in SUBSET Known /\ Left # {} /\ \A n \in Left : deps[n] \cap Left # {}
    BY <1>5, <2>2
  <2> QED
    BY <2>3
<1>11. NoEntryMeansEmpty'
  <2>1. SUFFICES ASSUME Verdict = "noentry" PROVE registered = <<>>
    BY <1>2 DEF NoEntryMeansEmpty, Finish
  <2>2. Done = Known /\ Entries = {}
    BY <1>4, <2>1 DEF Verdict
  <2> QED
    BY <1>7, <2>2
<1>12. ~sorting' /\ IdleInv' /\ result' # "sorting" /\ NoDup(registered)'
  BY <1>1, <1>2 DEF Finish, IdleInv, Verdict, NoDup
<1> QED
  BY <1>8, <1>9, <1>10, <1>11, <1>12 DEF IInv

(* The invariant is inductive.                                              *)
LEMMA NextIInv == IInv /\ [Next]_vars => IInv'
<1> SUFFICES ASSUME IInv, [Next]_vars PROVE IInv'
  OBVIOUS
<1>1. ASSUME NEW n \in Names, RegisterTaken(n) PROVE IInv'
  BY <1>1, AnswerIInv DEF RegisterTaken
<1>2. ASSUME NEW n \in Names, NEW needs \in Declared[n], Register(n, needs) PROVE IInv'
  BY <1>2, RegisterIInv
<1>3. CASE RunCached
  BY <1>3, AnswerIInv DEF RunCached
<1>4. CASE RunUnknown
  BY <1>4, AnswerIInv DEF RunUnknown
<1>5. CASE RunSort
  BY <1>5, RunSortIInv
<1>6. CASE Pop
  BY <1>6, PopIInv
<1>7. CASE Finish
  BY <1>7, FinishIInv
<1>8. CASE UNCHANGED vars
  <2>1. UNCHANGED <<registered, deps, dagOrder, sorting, inDegree, ready, ordered, result>>
    BY <1>8 DEF vars, sortVars
  <2>2. Known' = Known /\ SetOf(ordered') = SetOf(ordered) /\ SetOf(ready') = SetOf(ready)
    BY <2>1 DEF Known, SetOf
  <2>3. TypeOK'
    BY <2>1 DEF IInv, TypeOK
  <2>4. (SortInv => SortInv') /\ (IdleInv => IdleInv')
    BY <2>1, <2>2 DEF SortInv, Degrees, Released, NoDup, DepsFirst, IdleInv
  <2>5. OrderIsFresh' /\ CycleIsReal' /\ NoEntryMeansEmpty'
    BY <2>1, <2>2 DEF IInv, OrderIsFresh, Topological, CycleIsReal, NoEntryMeansEmpty
  <2>6. NoDup(registered)'
    BY <2>1 DEF IInv, NoDup
  <2> QED
    BY <2>1, <2>3, <2>4, <2>5, <2>6 DEF IInv
<1> QED
  BY <1>1, <1>2, <1>3, <1>4, <1>5, <1>6, <1>7, <1>8 DEF Next

-----------------------------------------------------------------------------
(* Whatever steps are registered in whatever order, and whenever run() is   *)
(* called, the order the Scheduler gets lists every registered step once    *)
(* and after its dependencies; a cycle is reported only if there is one;    *)
(* and only the empty pipeline is asked for an entry.                       *)
THEOREM OrderCorrect == Spec => [](TypeOK /\ OrderIsFresh /\ CycleIsReal /\ NoEntryMeansEmpty)
<1>1. IInv => TypeOK /\ OrderIsFresh /\ CycleIsReal /\ NoEntryMeansEmpty
  BY DEF IInv
<1> QED
  BY <1>1, InitIInv, NextIInv, PTL DEF Spec

(* The loop of run() ends: it never has more steps ordered and ready than   *)
(* are registered, and each turn orders one.                                *)
THEOREM LoopBounded == Spec => []LoopEnds
<1>1. ASSUME IInv PROVE LoopEnds
  <2>1. TypeOK /\ Len(registered) \in Nat /\ Len(ordered) \in Nat /\ Len(ready) \in Nat
    BY <1>1 DEF IInv, TypeOK
  <2>2. CASE ~sorting
    BY <1>1, <2>1, <2>2 DEF IInv, IdleInv, LoopEnds
  <2>3. CASE sorting
    <3>1. SortInv /\ NoDup(registered)
      BY <1>1, <2>3 DEF IInv
    <3>2. /\ IsFiniteSet(SetOf(ordered)) /\ Cardinality(SetOf(ordered)) = Len(ordered)
          /\ IsFiniteSet(SetOf(ready)) /\ Cardinality(SetOf(ready)) = Len(ready)
          /\ IsFiniteSet(Known) /\ Cardinality(Known) = Len(registered)
      BY <2>1, <3>1, NoDupCardinality DEF TypeOK, SortInv, Known
    <3>3. Cardinality(SetOf(ordered) \cup SetOf(ready)) = Len(ordered) + Len(ready)
      <4>1. SetOf(ordered) \cap SetOf(ready) = {} /\ Cardinality({}) = 0
        BY <3>1, FS_EmptySet DEF SortInv
      <4>2. Cardinality(SetOf(ordered) \cup SetOf(ready)) =
              Cardinality(SetOf(ordered)) + Cardinality(SetOf(ready))
                - Cardinality(SetOf(ordered) \cap SetOf(ready))
        BY <3>2, FS_Union
      <4> QED
        <5>1. Cardinality(SetOf(ordered) \cap SetOf(ready)) = 0
          BY <4>1
        <5> QED
          BY <2>1, <3>2, <4>2, <5>1
    <3>4. Cardinality(SetOf(ordered) \cup SetOf(ready)) <= Len(registered)
      BY <3>1, <3>2, FS_Subset DEF SortInv
    <3> QED
      BY <3>3, <3>4 DEF LoopEnds
  <2> QED
    BY <2>2, <2>3
<1>2. IInv => LoopEnds
  BY <1>1
<1> QED
  BY <1>2, InitIInv, NextIInv, PTL DEF Spec

(* What Scheduler.tla assumes of its constant Pos: the places in an order   *)
(* run() hands out are distinct, and every step has its place after the     *)
(* steps it depends on.                                                     *)
THEOREM OrderGivesPos ==
  ASSUME TypeOK, OrderIsFresh, dagOrder # <<>>,
         NEW Pos, Pos = [n \in Known |-> CHOOSE i \in DOMAIN dagOrder : dagOrder[i] = n]
  PROVE  /\ Pos \in [Known -> Nat]
         /\ \A s, t \in Known : Pos[s] = Pos[t] => s = t
         /\ \A s \in Known : \A u \in deps[s] : u \in Known /\ Pos[u] < Pos[s]
<1>1. Topological(dagOrder)
  BY DEF OrderIsFresh
<1>2. ASSUME NEW n \in Known
      PROVE  Pos[n] \in DOMAIN dagOrder /\ dagOrder[Pos[n]] = n
  <2>1. \E i \in DOMAIN dagOrder : dagOrder[i] = n
    BY <1>1 DEF Topological, SetOf
  <2> QED
    BY <2>1
<1>3. DOMAIN dagOrder = 1 .. Len(dagOrder) /\ Len(dagOrder) \in Nat
  BY DEF TypeOK
<1>4. Pos \in [Known -> Nat]
  BY <1>2, <1>3
<1>5. ASSUME NEW s \in Known, NEW u \in deps[s]
      PROVE  u \in Known /\ Pos[u] < Pos[s]
  <2>1. PICK j \in DOMAIN dagOrder : j < Pos[s] /\ dagOrder[j] = u
    BY <1>1, <1>2 DEF Topological
  <2>2. u \in Known
    BY <1>1, <2>1 DEF Topological, SetOf
  <2>3. Pos[u] = j
    BY <1>1, <1>2, <2>1, <2>2 DEF Topological
  <2> QED
    BY <2>1, <2>2, <2>3
<1> QED
  BY <1>2, <1>4, <1>5
=============================================================================
