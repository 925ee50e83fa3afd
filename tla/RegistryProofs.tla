--------------------------- MODULE RegistryProofs ---------------------------
(***************************************************************************)
(* Proofs about the provider registry, for any number of providers,        *)
(* instances and overlapping aclose() calls.                               *)
(***************************************************************************)
EXTENDS Registry, TLAPS

(* The inductive invariant: what an aclose() read and has not closed is     *)
(* still on its list, and so is everything that is open and was not created *)
(* behind the back of some aclose().                                        *)
ListInv ==
  \A t \in Tasks :
    /\ \A i \in seen[t] : client[i] # "none"
    /\ closer[t] = "awaiting" =>
         /\ \A i \in seen[t] : client[i] = "closed" \/ i \in SetOf(todo[t])
         /\ \A i \in Instances : client[i] = "open" => i \in late \cup SetOf(todo[t])

CacheInv == \A i \in Cached : client[i] # "none"

IInv ==
  /\ TypeOK
  /\ CacheInv
  /\ ListInv
  /\ ReturnedHasClosed
  /\ ClosedOnlyBecauseOfAclose
  /\ LeaksOnlyLate

LEMMA InitIInv == Init => IInv
<1> SUFFICES ASSUME Init PROVE IInv
  OBVIOUS
<1>1. Cached = {}
  BY DEF Init, Cached, SetOf
<1>2. TypeOK
  <2>1. <<>> \in Seq(Instances)
    OBVIOUS
  <2> QED
    BY <2>1 DEF Init, TypeOK
<1>3. CacheInv /\ ListInv
  BY <1>1 DEF Init, CacheInv, ListInv
<1> QED
  BY <1>1, <1>2, <1>3 DEF Init, IInv, ReturnedHasClosed, ClosedOnlyBecauseOfAclose, LeaksOnlyLate

LEMMA GetProviderIInv ==
  ASSUME IInv, NEW i \in Instances, GetProvider(i)
  PROVE  IInv'
<1> USE DEF GetProvider
<1>1. TypeOK
  BY DEF IInv
<1>2. /\ Len(cache) \in Nat /\ DOMAIN cache = 1 .. Len(cache)
      /\ DOMAIN cache' = 1 .. Len(cache) + 1
      /\ \A j \in 1 .. Len(cache) : cache'[j] = cache[j]
      /\ cache'[Len(cache) + 1] = i
  BY <1>1 DEF TypeOK
<1>3. Cached' = Cached \cup {i}
  <2>1. 1 .. Len(cache) + 1 = (1 .. Len(cache)) \cup {Len(cache) + 1}
    BY <1>2
  <2>2. \A x : x \in Cached' <=> x \in Cached \cup {i}
    BY <1>2, <2>1 DEF Cached, SetOf
  <2> QED
    BY <2>2
<1>4. client' = [client EXCEPT ![i] = "open"] /\ client[i] = "none"
  OBVIOUS
<1>5. TypeOK'
  BY <1>1 DEF TypeOK
<1>6. CacheInv'
  BY <1>1, <1>3, <1>4 DEF IInv, CacheInv, TypeOK, Cached, SetOf
<1>7. ListInv'
  <2>1. SUFFICES ASSUME NEW t \in Tasks
                 PROVE  /\ \A x \in seen[t] : client'[x] # "none"
                        /\ closer[t] = "awaiting" =>
                             /\ \A x \in seen[t] : client'[x] = "closed" \/ x \in SetOf(todo[t])
                             /\ \A x \in Instances : client'[x] = "open" =>
                                                        x \in late' \cup SetOf(todo[t])
    BY DEF ListInv, SetOf
  <2>2. \A x \in seen[t] : x # i
    BY <1>4 DEF IInv, ListInv
  <2>3. closer[t] = "awaiting" => i \in late'
    BY DEF Awaiting
  <2>4. late \subseteq late'
    OBVIOUS
  <2>5. seen[t] \subseteq Instances
    BY <1>1 DEF TypeOK
  <2> QED
    BY <1>1, <1>4, <2>2, <2>3, <2>4, <2>5 DEF IInv, ListInv, TypeOK
<1>8. ReturnedHasClosed'
  BY <1>1, <1>4 DEF IInv, ReturnedHasClosed, TypeOK
<1>9. ClosedOnlyBecauseOfAclose'
  BY <1>1, <1>3, <1>4 DEF IInv, ClosedOnlyBecauseOfAclose, TypeOK, Cached, SetOf
<1>10. LeaksOnlyLate'
  BY <1>1, <1>3, <1>4 DEF IInv, LeaksOnlyLate, TypeOK
<1> QED
  BY <1>5, <1>6, <1>7, <1>8, <1>9, <1>10 DEF IInv

(* One stretch of an aclose() between two suspensions, when the list it     *)
(* works on has whatever must still be closed.                              *)
LEMMA GoOnIInv ==
  ASSUME IInv, NEW t \in Tasks, NEW list \in Seq(Instances), GoOn(t, list),
         NEW read \in SUBSET Instances,
         \A i \in read : client[i] # "none" /\ (client[i] = "closed" \/ i \in SetOf(list)),
         \A i \in Instances : client[i] = "open" => i \in late \cup SetOf(list),
         seen' = [seen EXCEPT ![t] = read], late' = late
  PROVE  IInv'
<1>1. TypeOK
  BY DEF IInv
<1>2. \A u \in Tasks : u # t => seen'[u] = seen[u]
  BY <1>1 DEF TypeOK
<1>3. seen'[t] = read
  BY <1>1 DEF TypeOK
<1>4. CASE /\ NoneOpen(list)
           /\ closer' = [closer EXCEPT ![t] = "returned"]
           /\ todo' = [todo EXCEPT ![t] = <<>>]
           /\ cache' = <<>>
           /\ UNCHANGED client
  <2>1. \A i \in SetOf(list) : client[i] # "open"
    BY <1>4 DEF NoneOpen, SetOf
  <2>2. Cached' = {}
    BY <1>4 DEF Cached, SetOf
  <2>3. TypeOK'
    <3>1. <<>> \in Seq(Instances)
      OBVIOUS
    <3> QED
      BY <1>1, <1>4, <3>1 DEF TypeOK
  <2>4. \A u \in Tasks : u # t => closer'[u] = closer[u] /\ todo'[u] = todo[u]
    BY <1>1, <1>4 DEF TypeOK
  <2>5. closer'[t] = "returned"
    BY <1>1, <1>4 DEF TypeOK
  <2>6. ListInv'
    <3>1. SUFFICES ASSUME NEW u \in Tasks
                   PROVE  /\ \A i \in seen'[u] : client[i] # "none"
                          /\ closer'[u] = "awaiting" =>
                               /\ \A i \in seen'[u] : client[i] = "closed" \/ i \in SetOf(todo'[u])
                               /\ \A i \in Instances : client[i] = "open" =>
                                                        i \in late \cup SetOf(todo'[u])
      BY <1>4 DEF ListInv, SetOf
    <3>2. CASE u = t
      BY <1>3, <2>5, <3>2
    <3>3. CASE u # t
      BY <1>2, <2>4, <3>3 DEF IInv, ListInv
    <3> QED
      BY <3>2, <3>3
  <2>7. ReturnedHasClosed'
    <3>1. \A i \in read : client[i] = "closed"
      BY <1>1, <2>1 DEF TypeOK
    <3>2. SUFFICES ASSUME NEW u \in Tasks, closer'[u] = "returned"
                   PROVE  \A i \in seen'[u] : client[i] = "closed"
      BY <1>4 DEF ReturnedHasClosed
    <3>3. CASE u = t
      BY <1>3, <3>1, <3>3
    <3>4. CASE u # t
      BY <1>2, <2>4, <3>2, <3>4 DEF IInv, ReturnedHasClosed
    <3> QED
      BY <3>3, <3>4
  <2>8. LeaksOnlyLate'
    BY <1>4, <2>1 DEF LeaksOnlyLate
  <2> QED
    BY <2>2, <2>3, <2>6, <2>7, <2>8 DEF IInv, CacheInv, ClosedOnlyBecauseOfAclose
<1>5. CASE \E j \in DOMAIN list :
             /\ NextOpen(list, j)
             /\ closer' = [closer EXCEPT ![t] = "awaiting"]
             /\ todo' = [todo EXCEPT ![t] = SubSeq(list, j + 1, Len(list))]
             /\ client' = [client EXCEPT ![list[j]] = "closed"]
             /\ cache' = cache
  <2>1. PICK j \in DOMAIN list :
             /\ NextOpen(list, j)
             /\ closer' = [closer EXCEPT ![t] = "awaiting"]
             /\ todo' = [todo EXCEPT ![t] = SubSeq(list, j + 1, Len(list))]
             /\ client' = [client EXCEPT ![list[j]] = "closed"]
             /\ cache' = cache
    BY <1>5
  <2> DEFINE rest == SubSeq(list, j + 1, Len(list))
  <2>2. Len(list) \in Nat /\ DOMAIN list = 1 .. Len(list) /\ list[j] \in Instances
    OBVIOUS
  <2>3. /\ rest \in Seq(Instances) /\ DOMAIN rest = 1 .. Len(list) - j
        /\ \A k \in 1 .. Len(list) - j : rest[k] = list[j + k]
    BY <2>2
  <2>4. \A k \in 1 .. Len(list) : k > j => list[k] \in SetOf(rest)
    <3>1. SUFFICES ASSUME NEW k \in 1 .. Len(list), k > j PROVE list[k] \in SetOf(rest)
      OBVIOUS
    <3>2. k - j \in 1 .. Len(list) - j /\ k = j + (k - j)
      BY <2>2, <3>1
    <3>3. rest[k - j] = list[k]
      BY <2>3, <3>2
    <3> HIDE DEF rest
    <3> QED
      BY <2>3, <3>2, <3>3 DEF SetOf
  <2>5. \A i \in SetOf(list) : client[i] = "open" => i = list[j] \/ i \in SetOf(rest)
    <3>1. SUFFICES ASSUME NEW k \in 1 .. Len(list), client[list[k]] = "open"
                   PROVE  list[k] = list[j] \/ list[k] \in SetOf(rest)
      BY <2>2 DEF SetOf
    <3>2. ~(k < j)
      BY <2>1, <2>2, <3>1 DEF NextOpen
    <3> HIDE DEF rest
    <3> QED
      BY <2>2, <2>4, <3>2
  <2> HIDE DEF rest
  <2>6. /\ \A i \in Instances : i # list[j] => client'[i] = client[i]
        /\ client'[list[j]] = "closed"
    BY <1>1, <2>1, <2>2 DEF TypeOK
  <2>7. /\ \A u \in Tasks : u # t => closer'[u] = closer[u] /\ todo'[u] = todo[u]
        /\ closer'[t] = "awaiting" /\ todo'[t] = rest
    BY <1>1, <2>1 DEF TypeOK, rest
  <2>8. TypeOK'
    BY <1>1, <2>1, <2>2, <2>3 DEF TypeOK, rest
  <2>9. Cached' = Cached /\ Cached \subseteq Instances
    BY <1>1, <2>1 DEF TypeOK, Cached, SetOf
  <2>10. CacheInv'
    BY <2>6, <2>9 DEF IInv, CacheInv
  <2>11. ListInv'
    <3>1. SUFFICES ASSUME NEW u \in Tasks
                   PROVE  /\ \A i \in seen'[u] : client'[i] # "none"
                          /\ closer'[u] = "awaiting" =>
                               /\ \A i \in seen'[u] : client'[i] = "closed" \/ i \in SetOf(todo'[u])
                               /\ \A i \in Instances : client'[i] = "open" =>
                                                        i \in late \cup SetOf(todo'[u])
      BY DEF ListInv, SetOf
    <3>2. CASE u = t
      <4>1. ASSUME NEW i \in read
            PROVE  client'[i] # "none" /\ (client'[i] = "closed" \/ i \in SetOf(rest))
        <5>1. client[i] \in {"open", "closed"}
          BY <1>1 DEF TypeOK
        <5> QED
          BY <2>5, <2>6, <5>1
      <4>2. ASSUME NEW i \in Instances, client'[i] = "open"
            PROVE  i \in late \cup SetOf(rest)
        BY <2>5, <2>6, <4>2
      <4> QED
        BY <1>3, <2>7, <3>2, <4>1, <4>2
    <3>3. CASE u # t
      <4>1. seen[u] \subseteq Instances
        BY <1>1 DEF TypeOK
      <4> QED
        BY <1>2, <2>6, <2>7, <3>3, <4>1 DEF IInv, ListInv
    <3> QED
      BY <3>2, <3>3
  <2>12. ReturnedHasClosed'
    <3>1. SUFFICES ASSUME NEW u \in Tasks, closer'[u] = "returned", NEW i \in seen'[u]
                   PROVE  client'[i] = "closed"
      BY DEF ReturnedHasClosed
    <3>2. u # t
      BY <2>7, <3>1
    <3>3. i \in Instances /\ client[i] = "closed"
      BY <1>1, <1>2, <2>7, <3>1, <3>2 DEF IInv, ReturnedHasClosed, TypeOK
    <3> QED
      BY <2>6, <3>3
  <2>13. ClosedOnlyBecauseOfAclose'
    BY <2>7 DEF ClosedOnlyBecauseOfAclose
  <2>14. LeaksOnlyLate'
    BY <2>6, <2>9 DEF IInv, LeaksOnlyLate
  <2> QED
    BY <2>8, <2>10, <2>11, <2>12, <2>13, <2>14 DEF IInv
<1> QED
  BY <1>4, <1>5 DEF GoOn, Cleared, Kept

LEMMA BeginIInv ==
  ASSUME IInv, NEW t \in Tasks, Begin(t)
  PROVE  IInv'
<1>1. TypeOK
  BY DEF IInv
<1>2. Cached \in SUBSET Instances
  BY <1>1 DEF TypeOK, Cached, SetOf
<1>3. \A i \in Cached : client[i] # "none" /\ i \in SetOf(cache)
  BY DEF IInv, CacheInv, Cached
<1>4. \A i \in Instances : client[i] = "open" => i \in late \cup SetOf(cache)
  BY DEF IInv, LeaksOnlyLate, Cached
<1>5. cache \in Seq(Instances)
  BY <1>1 DEF TypeOK
<1> QED
  BY <1>2, <1>3, <1>4, <1>5, GoOnIInv DEF Begin

LEMMA ContinueIInv ==
  ASSUME IInv, NEW t \in Tasks, Continue(t)
  PROVE  IInv'
<1>1. TypeOK
  BY DEF IInv
<1>2. seen[t] \in SUBSET Instances /\ todo[t] \in Seq(Instances)
  BY <1>1 DEF TypeOK
<1>3. /\ \A i \in seen[t] : client[i] # "none" /\ (client[i] = "closed" \/ i \in SetOf(todo[t]))
      /\ \A i \in Instances : client[i] = "open" => i \in late \cup SetOf(todo[t])
  BY DEF IInv, ListInv, Continue
<1>4. seen' = [seen EXCEPT ![t] = seen[t]] /\ late' = late
  BY <1>1 DEF Continue, TypeOK
<1>5. GoOn(t, todo[t])
  BY DEF Continue
<1> QED
  BY <1>2, <1>3, <1>4, <1>5, GoOnIInv

LEMMA FailIInv ==
  ASSUME IInv, NEW t \in Tasks, Fail(t)
  PROVE  IInv'
<1> USE DEF Fail
<1>1. TypeOK
  BY DEF IInv
<1>2. /\ \A u \in Tasks : u # t => closer'[u] = closer[u] /\ todo'[u] = todo[u]
      /\ closer'[t] = "failed"
  BY <1>1 DEF TypeOK
<1>3. TypeOK'
  <2>1. <<>> \in Seq(Instances)
    OBVIOUS
  <2> QED
    BY <1>1, <2>1 DEF TypeOK
<1>4. Cached' = Cached
  BY DEF Cached, SetOf
<1>5. ListInv'
  <2>1. SUFFICES ASSUME NEW u \in Tasks
                 PROVE  /\ \A i \in seen[u] : client[i] # "none"
                        /\ closer'[u] = "awaiting" =>
                             /\ \A i \in seen[u] : client[i] = "closed" \/ i \in SetOf(todo'[u])
                             /\ \A i \in Instances : client[i] = "open" =>
                                                      i \in late \cup SetOf(todo'[u])
    BY DEF ListInv, SetOf
  <2> QED
    BY <1>2 DEF IInv, ListInv
<1>6. ReturnedHasClosed'
  BY <1>2 DEF IInv, ReturnedHasClosed
<1>7. ClosedOnlyBecauseOfAclose'
  BY <1>2 DEF ClosedOnlyBecauseOfAclose
<1>8. CacheInv' /\ LeaksOnlyLate'
  BY <1>4 DEF IInv, CacheInv, LeaksOnlyLate
<1> QED
  BY <1>3, <1>5, <1>6, <1>7, <1>8 DEF IInv

LEMMA NextIInv == IInv /\ [Next]_vars => IInv'
<1> SUFFICES ASSUME IInv, [Next]_vars PROVE IInv'
  OBVIOUS
<1>1. CASE UNCHANGED vars
  <2>1. UNCHANGED <<cache, client, closer, todo, seen, late>>
    BY <1>1 DEF vars
  <2>2. Cached' = Cached
    BY <2>1 DEF Cached, SetOf
  <2>3. TypeOK' /\ ListInv' /\ CacheInv'
    BY <2>1, <2>2 DEF IInv, TypeOK, ListInv, CacheInv, SetOf
  <2> QED
    BY <2>1, <2>2, <2>3 DEF IInv, ReturnedHasClosed, ClosedOnlyBecauseOfAclose, LeaksOnlyLate
<1> QED
  BY <1>1, GetProviderIInv, BeginIInv, ContinueIInv, FailIInv DEF Next

-----------------------------------------------------------------------------
(* Whatever get_provider and aclose() calls overlap and whichever fail:     *)
(* an aclose() that returned has closed all it found, a closed provider is  *)
(* handed out only because of an aclose(), and only instances created       *)
(* during one can be lost.                                                  *)
THEOREM RegistrySafe ==
  Spec => [](ReturnedHasClosed /\ ClosedOnlyBecauseOfAclose /\ LeaksOnlyLate)
<1>1. IInv => ReturnedHasClosed /\ ClosedOnlyBecauseOfAclose /\ LeaksOnlyLate
  BY DEF IInv
<1> QED
  BY <1>1, InitIInv, NextIInv, PTL DEF Spec
=============================================================================
