----------------------------- MODULE EndProofs -----------------------------
(***************************************************************************)
(* Proofs about the executor, continued: what a merge does with the values *)
(* it takes, and how the end of the stream travels through the DAG.        *)
(***************************************************************************)
EXTENDS SchedulerProofs

-----------------------------------------------------------------------------
(* The key-sets of a merge.                                                *)

(* What waits in a bucket was taken from that source under that key and     *)
(* waits nowhere else; what has fired was taken, waits nowhere and fired    *)
(* once; and no bucket is complete.                                         *)
BucketsOK(m) ==
  /\ \A k \in Keys : \A u \in Upstream[m] : bucket[m][k][u] # DONE =>
       /\ [key |-> k, src |-> u, n |-> bucket[m][k][u]] \in arrived[m]
       /\ \A j \in Keys : bucket[m][j][u] = bucket[m][k][u] => j = k
  /\ \A k \in Keys : Upstream[m] # {} => \E u \in Upstream[m] : bucket[m][k][u] = DONE
  /\ \A f \in fired[m] : \A u \in Upstream[m] :
       /\ [key |-> f.key, src |-> u, n |-> f.vals[u]] \in arrived[m]
       /\ \A k \in Keys : bucket[m][k][u] # f.vals[u]
       /\ \A g \in fired[m] : g.vals[u] = f.vals[u] => g = f

AccountInv == DeliveryInv /\ \A m \in Steps : IsMerge(m) => BucketsOK(m)

LEMMA InitAccount == Init => AccountInv
<1> SUFFICES ASSUME Init PROVE AccountInv
  OBVIOUS
<1>1. ASSUME NEW m \in Steps PROVE BucketsOK(m)
  <2>1. fired[m] = {} /\ \A k \in Keys : \A u \in Upstream[m] : bucket[m][k][u] = DONE
    BY DEF Init
  <2> QED BY <2>1 DEF BucketsOK
<1> QED BY <1>1, InitDelivery DEF AccountInv

(* A step that leaves the key-sets alone. *)
LEMMA SameAccount ==
  ASSUME AccountInv, DeliveryInv', UNCHANGED <<bucket, arrived, fired>>
  PROVE  AccountInv'
<1>1. ASSUME NEW m \in Steps, IsMerge(m) PROVE BucketsOK(m)'
  <2>1. BucketsOK(m)
    BY <1>1 DEF AccountInv
  <2> QED BY <2>1 DEF BucketsOK
<1> QED BY <1>1 DEF AccountInv

(* What a merge's buckets hold once value n of source u is stored under k,  *)
(* and once that key-set has fired. *)
LEMMA StoredValues ==
  ASSUME TypeOK, NEW m \in Steps, NEW u \in Upstream[m], NEW n, NEW k \in Keys
  PROVE  /\ \A j \in Keys : \A v \in Upstream[m] :
              Stored(m, u, n, k)[j][v] = IF j = k /\ v = u THEN n ELSE bucket[m][j][v]
         /\ \A j \in Keys : \A v \in Upstream[m] :
              Cleared(m, Stored(m, u, n, k), k)[j][v] =
                IF j = k THEN DONE ELSE bucket[m][j][v]
<1>1. bucket[m] \in [Keys -> [Upstream[m] -> {DONE} \cup Ordinals]]
  BY DEF TypeOK
<1> QED BY <1>1 DEF Stored, Cleared, Absent

(* The step of a consume_source task on the key-sets of its merge. *)
LEMMA MergeTakeBuckets ==
  ASSUME DeliveryInv, NEW m \in Steps, IsMerge(m), NEW u \in Upstream[m], MergeTake(m, u)
  PROVE  \E n \in Ordinals, k \in Keys :
           /\ k \in MergeKeys(m, u, n)
           /\ \A a \in arrived[m] : ~(a.src = u /\ a.n = n)
           /\ arrived' = [arrived EXCEPT ![m] =
                            arrived[m] \cup {[key |-> k, src |-> u, n |-> n]}]
           /\ LET b == Stored(m, u, n, k) IN
              \/ /\ Complete(m, b, k)
                 /\ bucket' = [bucket EXCEPT ![m] = Cleared(m, b, k)]
                 /\ fired' = [fired EXCEPT ![m] =
                                fired[m] \cup {[key |-> k, vals |-> b[k]]}]
                 /\ worker' = [worker EXCEPT ![m][u] = Running(k)]
              \/ /\ ~Complete(m, b, k)
                 /\ bucket' = [bucket EXCEPT ![m] = b]
                 /\ UNCHANGED <<fired, worker>>
<1> DEFINE n == Head(queue[<<u, m>>])
<1>1. /\ TypeInv /\ EdgeOK(u, m) /\ queue[<<u, m>>] # <<>> /\ n # DONE
      /\ queue' = [queue EXCEPT ![<<u, m>>] = Tail(queue[<<u, m>>])]
  BY DEF MergeTake, DeliveryInv
<1>2. InQueue(u, m, n)
  BY <1>1, TakeEffect DEF EdgeOK, Distinct, InQueue
<1>3. n \in Ordinals /\ n <= Produced(u)
  <2>1. n \in Ordinals
    BY <1>1, EdgeType, TakeFromQueue DEF TypeInv
  <2> QED BY <1>1, <1>2, <2>1, ProducedType
<1>4. ~Taken(u, m, n)
  BY <1>1, <1>2, <1>3 DEF EdgeOK
<1>5. MergeKeys(m, u, n) \subseteq Keys
  BY <1>1, <1>3, EdgeType, KeyType DEF MergeKeys, TypeInv
<1> HIDE DEF n
<1>6. PICK k \in MergeKeys(m, u, n) :
        LET b == Stored(m, u, n, k) IN
        /\ arrived' = [arrived EXCEPT ![m] = @ \cup {[key |-> k, src |-> u, n |-> n]}]
        /\ IF Complete(m, b, k)
           THEN /\ bucket' = [bucket EXCEPT ![m] = Cleared(m, b, k)]
                /\ fired' = [fired EXCEPT ![m] = @ \cup {[key |-> k, vals |-> b[k]]}]
                /\ worker' = [worker EXCEPT ![m][u] = Running(k)]
           ELSE /\ bucket' = [bucket EXCEPT ![m] = b]
                /\ UNCHANGED <<fired, worker>>
  BY DEF MergeTake, n
<1>7. \A a \in arrived[m] : ~(a.src = u /\ a.n = n)
  BY <1>4 DEF Taken
<1> QED BY <1>3, <1>5, <1>6, <1>7

LEMMA MergeTakeAccount ==
  ASSUME AccountInv, DeliveryInv', NEW m \in Steps, IsMerge(m), NEW u \in Upstream[m],
         MergeTake(m, u)
  PROVE  AccountInv'
<1>1. DeliveryInv /\ TypeOK /\ BucketsOK(m)
  BY DEF AccountInv, DeliveryInv, TypeInv
<1>2. PICK n \in Ordinals, k \in Keys :
           /\ \A a \in arrived[m] : ~(a.src = u /\ a.n = n)
           /\ arrived' = [arrived EXCEPT ![m] =
                            arrived[m] \cup {[key |-> k, src |-> u, n |-> n]}]
           /\ LET b == Stored(m, u, n, k) IN
              \/ /\ Complete(m, b, k)
                 /\ bucket' = [bucket EXCEPT ![m] = Cleared(m, b, k)]
                 /\ fired' = [fired EXCEPT ![m] =
                                fired[m] \cup {[key |-> k, vals |-> b[k]]}]
                 /\ worker' = [worker EXCEPT ![m][u] = Running(k)]
              \/ /\ ~Complete(m, b, k)
                 /\ bucket' = [bucket EXCEPT ![m] = b]
                 /\ UNCHANGED <<fired, worker>>
  BY <1>1, MergeTakeBuckets
<1> DEFINE b == Stored(m, u, n, k)
           new == [key |-> k, src |-> u, n |-> n]
<1>3. n # DONE
  BY DoneIsNoOrdinal
<1>4. /\ \A t \in Steps \ {m} : bucket'[t] = bucket[t] /\ fired'[t] = fired[t]
                                 /\ arrived'[t] = arrived[t]
      /\ arrived'[m] = arrived[m] \cup {new}
      /\ \/ Complete(m, b, k) /\ bucket'[m] = Cleared(m, b, k)
            /\ fired'[m] = fired[m] \cup {[key |-> k, vals |-> b[k]]}
         \/ ~Complete(m, b, k) /\ bucket'[m] = b /\ fired'[m] = fired[m]
  BY <1>1, <1>2 DEF TypeOK
<1>5. /\ \A j \in Keys : \A v \in Upstream[m] :
           b[j][v] = IF j = k /\ v = u THEN n ELSE bucket[m][j][v]
      /\ \A j \in Keys : \A v \in Upstream[m] :
           Cleared(m, b, k)[j][v] = IF j = k THEN DONE ELSE bucket[m][j][v]
  BY <1>1, StoredValues
<1>6. /\ \A j \in Keys : bucket[m][j][u] # n
      /\ \A f \in fired[m] : f.vals[u] # n
  <2>1. \A j \in Keys : [key |-> j, src |-> u, n |-> n] \notin arrived[m]
    BY <1>2
  <2>2. \A f \in fired[m] : [key |-> f.key, src |-> u, n |-> n] \notin arrived[m]
    BY <1>2
  <2>3. ASSUME NEW j \in Keys PROVE bucket[m][j][u] # n
    BY <1>1, <1>3, <2>1 DEF BucketsOK
  <2>4. ASSUME NEW f \in fired[m] PROVE f.vals[u] # n
    <3>1. [key |-> f.key, src |-> u, n |-> f.vals[u]] \in arrived[m]
      BY <1>1 DEF BucketsOK
    <3> QED BY <2>2, <3>1
  <2> QED BY <2>3, <2>4
<1> HIDE DEF b
<1>7. CASE ~Complete(m, b, k)
  <2>1. /\ \A j \in Keys : \A v \in Upstream[m] :
             bucket'[m][j][v] = IF j = k /\ v = u THEN n ELSE bucket[m][j][v]
        /\ fired'[m] = fired[m]
    BY <1>4, <1>5, <1>7
  <2>2. \A j \in Keys : \E v \in Upstream[m] : bucket'[m][j][v] = DONE
    <3>1. \E v \in Upstream[m] : b[k][v] = DONE
      BY <1>7 DEF Complete
    <3>2. bucket'[m] = b
      BY <1>4, <1>7
    <3>3. \A j \in Keys \ {k} : \E v \in Upstream[m] : bucket[m][j][v] = DONE
      BY <1>1 DEF BucketsOK
    <3> QED BY <2>1, <3>1, <3>2, <3>3
  <2>3. ASSUME NEW j \in Keys, NEW v \in Upstream[m], bucket'[m][j][v] # DONE
        PROVE  /\ [key |-> j, src |-> v, n |-> bucket'[m][j][v]] \in arrived'[m]
               /\ \A i \in Keys : bucket'[m][i][v] = bucket'[m][j][v] => i = j
    <3>1. CASE j = k /\ v = u
      BY <1>4, <1>6, <2>1, <3>1
    <3>2. CASE ~(j = k /\ v = u)
      <4>1. bucket'[m][j][v] = bucket[m][j][v]
        BY <2>1, <3>2
      <4>2. [key |-> j, src |-> v, n |-> bucket[m][j][v]] \in arrived[m]
        BY <1>1, <2>3, <4>1 DEF BucketsOK
      <4>3. \A i \in Keys : bucket[m][i][v] = bucket[m][j][v] => i = j
        BY <1>1, <2>3, <4>1 DEF BucketsOK
      <4>4. \A i \in Keys : bucket'[m][i][v] = bucket'[m][j][v] => i = j
        BY <1>6, <2>1, <4>1, <4>3
      <4> QED BY <1>4, <4>1, <4>2, <4>4
    <3> QED BY <3>1, <3>2
  <2>4. ASSUME NEW f \in fired'[m], NEW v \in Upstream[m]
        PROVE  /\ [key |-> f.key, src |-> v, n |-> f.vals[v]] \in arrived'[m]
               /\ \A j \in Keys : bucket'[m][j][v] # f.vals[v]
               /\ \A g \in fired'[m] : g.vals[v] = f.vals[v] => g = f
    <3>1. /\ [key |-> f.key, src |-> v, n |-> f.vals[v]] \in arrived[m]
          /\ \A j \in Keys : bucket[m][j][v] # f.vals[v]
          /\ \A g \in fired[m] : g.vals[v] = f.vals[v] => g = f
      BY <1>1, <2>1 DEF BucketsOK
    <3> QED BY <1>4, <1>6, <2>1, <3>1
  <2>5. BucketsOK(m)'
    BY <2>2, <2>3, <2>4 DEF BucketsOK
  <2>6. ASSUME NEW t \in Steps, IsMerge(t) PROVE BucketsOK(t)'
    <3>1. CASE t = m
      BY <2>5, <3>1
    <3>2. CASE t # m
      <4>1. BucketsOK(t)
        BY <2>6 DEF AccountInv
      <4> QED BY <1>4, <3>2, <4>1 DEF BucketsOK
    <3> QED BY <3>1, <3>2
  <2> QED BY <2>6 DEF AccountInv
<1>8. CASE Complete(m, b, k)
  <2> DEFINE new2 == [key |-> k, vals |-> b[k]]
  <2>1. /\ \A j \in Keys : \A v \in Upstream[m] :
             bucket'[m][j][v] = IF j = k THEN DONE ELSE bucket[m][j][v]
        /\ fired'[m] = fired[m] \cup {new2}
    BY <1>4, <1>5, <1>8
  <2>2. new2.key = k /\ \A v \in Upstream[m] :
          /\ new2.vals[v] = IF v = u THEN n ELSE bucket[m][k][v]
          /\ new2.vals[v] # DONE
    BY <1>5, <1>8 DEF Complete
  <2> HIDE DEF new2
  <2>3. \A v \in Upstream[m] :
          /\ [key |-> k, src |-> v, n |-> new2.vals[v]] \in arrived'[m]
          /\ \A j \in Keys \ {k} : bucket[m][j][v] # new2.vals[v]
          /\ \A g \in fired[m] : g.vals[v] # new2.vals[v]
    <3>1. ASSUME NEW v \in Upstream[m], v # u
          PROVE  /\ [key |-> k, src |-> v, n |-> new2.vals[v]] \in arrived[m]
                 /\ \A j \in Keys \ {k} : bucket[m][j][v] # new2.vals[v]
                 /\ \A g \in fired[m] : g.vals[v] # new2.vals[v]
      <4>1. new2.vals[v] = bucket[m][k][v] /\ bucket[m][k][v] # DONE
        BY <2>2, <3>1
      <4>2. /\ [key |-> k, src |-> v, n |-> bucket[m][k][v]] \in arrived[m]
            /\ \A j \in Keys : bucket[m][j][v] = bucket[m][k][v] => j = k
        BY <1>1, <4>1 DEF BucketsOK
      <4>3. \A g \in fired[m] : bucket[m][k][v] # g.vals[v]
        BY <1>1 DEF BucketsOK
      <4> QED BY <4>1, <4>2, <4>3
    <3>2. new2.vals[u] = n
      BY <2>2
    <3> QED BY <1>4, <1>6, <3>1, <3>2
  <2>4. ASSUME NEW j \in Keys, NEW v \in Upstream[m], bucket'[m][j][v] # DONE
        PROVE  /\ [key |-> j, src |-> v, n |-> bucket'[m][j][v]] \in arrived'[m]
               /\ \A i \in Keys : bucket'[m][i][v] = bucket'[m][j][v] => i = j
    <3>1. j # k /\ bucket'[m][j][v] = bucket[m][j][v]
      BY <2>1, <2>4
    <3>2. /\ [key |-> j, src |-> v, n |-> bucket[m][j][v]] \in arrived[m]
          /\ \A i \in Keys : bucket[m][i][v] = bucket[m][j][v] => i = j
      BY <1>1, <2>4, <3>1 DEF BucketsOK
    <3> QED BY <1>4, <2>1, <2>4, <3>1, <3>2
  <2>5. ASSUME NEW f \in fired'[m], NEW v \in Upstream[m]
        PROVE  /\ [key |-> f.key, src |-> v, n |-> f.vals[v]] \in arrived'[m]
               /\ \A j \in Keys : bucket'[m][j][v] # f.vals[v]
               /\ \A g \in fired'[m] : g.vals[v] = f.vals[v] => g = f
    <3>1. CASE f = new2
      BY <2>1, <2>2, <2>3, <3>1
    <3>2. CASE f \in fired[m]
      <4>1. /\ [key |-> f.key, src |-> v, n |-> f.vals[v]] \in arrived[m]
            /\ \A j \in Keys : bucket[m][j][v] # f.vals[v]
            /\ \A g \in fired[m] : g.vals[v] = f.vals[v] => g = f
        BY <1>1, <3>2 DEF BucketsOK
      <4>2. f.vals[v] \in Ordinals
        BY <1>1, <3>2 DEF TypeOK
      <4>3. \A j \in Keys : bucket'[m][j][v] # f.vals[v]
        BY <2>1, <4>1, <4>2, DoneIsNoOrdinal
      <4>4. new2.vals[v] # f.vals[v]
        BY <2>3, <3>2
      <4>5. \A g \in fired'[m] : g.vals[v] = f.vals[v] => g = f
        BY <2>1, <4>1, <4>4
      <4> QED BY <1>4, <4>1, <4>3, <4>5
    <3> QED BY <2>1, <3>1, <3>2
  <2>6. \A j \in Keys : \E v \in Upstream[m] : bucket'[m][j][v] = DONE
    BY <1>1, <2>1 DEF BucketsOK
  <2>7. BucketsOK(m)'
    BY <2>4, <2>5, <2>6 DEF BucketsOK
  <2>8. ASSUME NEW t \in Steps, IsMerge(t) PROVE BucketsOK(t)'
    <3>1. CASE t = m
      BY <2>7, <3>1
    <3>2. CASE t # m
      <4>1. BucketsOK(t)
        BY <2>8 DEF AccountInv
      <4> QED BY <1>4, <3>2, <4>1 DEF BucketsOK
    <3> QED BY <3>1, <3>2
  <2> QED BY <2>8 DEF AccountInv
<1> QED BY <1>7, <1>8

LEMMA NextAccount == AccountInv /\ [Next]_vars => AccountInv'
<1> SUFFICES ASSUME AccountInv, [Next]_vars PROVE AccountInv'
  OBVIOUS
<1>1. DeliveryInv'
  BY NextDelivery DEF AccountInv
<1>2. ASSUME NEW s \in Steps, RunnerStep(s) PROVE UNCHANGED <<bucket, arrived, fired>>
  BY <1>2 DEF RunnerStep, Start, Join, PutDone, Take, Acquire, mergeVars
<1>3. ASSUME NEW s \in Steps, WorkerStep(s) PROVE AccountInv'
  <2>1. CASE \E u \in Upstream[s] : IsMerge(s) /\ MergeTake(s, u)
    BY <1>1, <2>1, MergeTakeAccount
  <2>2. CASE ~\E u \in Upstream[s] : IsMerge(s) /\ MergeTake(s, u)
    <3>1. UNCHANGED <<bucket, arrived, fired>>
      BY <1>3, <2>2 DEF WorkerStep, Begin, Emit, Put, Return, Raise, MergeTakeDone, MergeKeyRaise,
                        mergeVars
    <3> QED BY <1>1, <3>1, SameAccount
  <2> QED BY <2>1, <2>2
<1>4. CASE FinishPipeline \/ FinishClose \/ Close \/ CancelAgain \/ Stopped \/ UNCHANGED vars
  <2>1. UNCHANGED <<bucket, arrived, fired>>
    BY <1>4 DEF FinishPipeline, FinishClose, Close, CancelAgain, Stopped, CancelRunners,
                vars, mergeVars
  <2> QED BY <1>1, <2>1, SameAccount
<1> QED BY <1>1, <1>2, <1>3, <1>4, SameAccount DEF Next, LoopStep

(* A merge uses no value twice and never sits on a complete key-set, for    *)
(* every DAG, key function and interleaving of its consume_source tasks.    *)
THEOREM MergesAccounted == Spec => []MergeAccounting
<1>1. AccountInv => MergeAccounting
  BY DEF AccountInv, BucketsOK, MergeAccounting
<1> QED BY <1>1, InitAccount, NextAccount, PTL DEF Spec

-----------------------------------------------------------------------------
(* The end of the stream.                                                  *)

DoneLast(q) == \A j \in 1 .. Len(q) : q[j] = DONE => j = Len(q)

(* An edge: nothing follows _DONE; and a step that has read it reads from   *)
(* an empty queue into which nothing more is put. A merge_key that raises   *)
(* ends a consume_source task before it read _DONE, and lets its merge put  *)
(* outputs behind the _DONE it sends.                                       *)
EdgeEnds(u, d) ==
  /\ KeyRaises = {} => DoneLast(queue[<<u, d>>])
  /\ (Open /\ SawDone(u, d) /\ (KeyRaises = {} \/ ~IsMerge(d))) =>
       /\ ~InQueue(u, d, DONE)
       /\ KeyRaises = {} => queue[<<u, d>>] = <<>>
       /\ u # Input => d \notin owed[u] /\ runner[u] \in Closing

(* A step: it ends with its StepDone unless the stream is closed; nothing   *)
(* of it runs once it closes its routes; the tasks of a merge start with    *)
(* its runner; and after a close only invocations in flight are waited for. *)
StepEnds(s) ==
  /\ Open => runner[s] # "cancelled"
  /\ (KeyRaises = {} /\ runner[s] \in Closing) => Live(s) = {}
  /\ IsMerge(s) => runner[s] \notin {"receiving", "acquiring"}
  /\ (IsMerge(s) /\ runner[s] # "created") => \A u \in Slots(s) : worker[s][u].pc # "idle"
  /\ ~Open => /\ runner[s] \in {"joining"} \cup Closing
              /\ IsMerge(s) => runner[s] \in Closing

FlowEnds ==
  /\ DeliveryInv
  /\ \A d \in Steps : \A u \in Upstream[d] : EdgeEnds(u, d)
  /\ \A s \in Steps : StepEnds(s)
  /\ consumer = "complete" => AllEnded

LEMMA TailLast ==
  ASSUME NEW S, NEW q \in Seq(S), q # <<>>
  PROVE  /\ DoneLast(q) => DoneLast(Tail(q))
         /\ (DoneLast(q) /\ Head(q) = DONE) => Tail(q) = <<>>
<1> DEFINE r == Tail(q)
<1>1. /\ Len(q) \in Nat /\ 1 \in 1 .. Len(q) /\ Head(q) = q[1]
      /\ Len(r) = Len(q) - 1 /\ Len(r) \in Nat
      /\ \A j \in 1 .. Len(r) : j + 1 \in 1 .. Len(q) /\ r[j] = q[j + 1]
      /\ Len(q) = 1 => r = <<>>
  OBVIOUS
<1> HIDE DEF r
<1>2. DoneLast(q) => DoneLast(r)
  <2> SUFFICES ASSUME DoneLast(q), NEW j \in 1 .. Len(r), r[j] = DONE PROVE j = Len(r)
    BY DEF DoneLast
  <2>1. j + 1 = Len(q)
    BY <1>1 DEF DoneLast
  <2> QED BY <1>1, <2>1
<1>3. (DoneLast(q) /\ Head(q) = DONE) => r = <<>>
  BY <1>1 DEF DoneLast
<1> QED BY <1>2, <1>3 DEF r

LEMMA AppendLast ==
  ASSUME NEW S, NEW q \in Seq(S), NEW x \in S, ~Has(q, DONE)
  PROVE  DoneLast(Append(q, x))
<1> DEFINE r == Append(q, x)
<1>1. /\ Len(r) = Len(q) + 1 /\ Len(q) \in Nat
      /\ \A j \in 1 .. Len(q) : r[j] = q[j]
  OBVIOUS
<1> HIDE DEF r
<1>2. \A j \in 1 .. Len(r) : j \in 1 .. Len(q) \/ j = Len(r)
  BY <1>1
<1>3. DoneLast(r)
  BY <1>1, <1>2 DEF Has, DoneLast
<1> QED BY <1>3 DEF r

LEMMA InitFlow == Init => FlowEnds
<1> SUFFICES ASSUME Init PROVE FlowEnds
  OBVIOUS
<1>1. /\ \A s \in Steps : runner[s] = "created"
      /\ \A s \in Steps : \A i \in Slots(s) : worker[s][i].pc = "idle"
      /\ consumer = "reading"
  BY DEF Init, Idle, At
<1>2. ASSUME NEW d \in Steps, NEW u \in Upstream[d] PROVE EdgeEnds(u, d)
  <2>1. queue[<<u, d>>] = IF u = Input THEN <<1, DONE>> ELSE <<>>
    BY EdgeType DEF Init
  <2>2. DoneLast(queue[<<u, d>>])
    <3>1. CASE u = Input
      <4>1. /\ Len(queue[<<u, d>>]) = 2
            /\ queue[<<u, d>>][1] = 1 /\ queue[<<u, d>>][2] = 0
        BY <2>1, <3>1 DEF DONE
      <4>2. \A j \in 1 .. 2 : j = 1 \/ j = 2
        OBVIOUS
      <4> QED BY <4>1, <4>2 DEF DoneLast, DONE
    <3>2. CASE u # Input
      <4>1. Len(queue[<<u, d>>]) = 0
        BY <2>1, <3>2
      <4> QED BY <4>1 DEF DoneLast
    <3> QED BY <3>1, <3>2
  <2>3. ~SawDone(u, d)
    BY <1>1 DEF SawDone, Slots
  <2> QED BY <2>2, <2>3 DEF EdgeEnds
<1>3. ASSUME NEW s \in Steps PROVE StepEnds(s)
  BY <1>1 DEF StepEnds, Closing, Ended, Open
<1> QED BY <1>1, <1>2, <1>3, InitDelivery DEF FlowEnds

(* An edge whose queue stays as it is. *)
LEMMA SameEnds ==
  ASSUME NEW d \in Steps, NEW u \in Upstream[d], EdgeEnds(u, d),
         queue'[<<u, d>>] = queue[<<u, d>>],
         Open' /\ SawDone(u, d)' => Open /\ SawDone(u, d),
         (u # Input /\ Open /\ runner[u] \in Closing /\ d \notin owed[u]) =>
           runner'[u] \in Closing /\ d \notin owed'[u]
  PROVE  EdgeEnds(u, d)'
BY DEF EdgeEnds, InQueue

-----------------------------------------------------------------------------
(* The runners. *)

LEMMA StartEnd ==
  ASSUME FlowEnds, DeliveryInv', NEW s \in Steps, Start(s)
  PROVE  FlowEnds'
<1>1. /\ runner[s] = "created"
      /\ runner'[s] = IF IsMerge(s) THEN "joining" ELSE "receiving"
      /\ \A t \in Steps \ {s} : runner'[t] = runner[t]
      /\ UNCHANGED <<queue, owed, consumer>>
  BY DEF Start, consumerVars, FlowEnds, DeliveryInv, TypeInv, TypeOK
<1>2. \A t \in Steps : \A i \in Slots(t) :
        worker'[t][i] = IF t = s /\ IsMerge(s) THEN Taking ELSE worker[t][i]
  <2>1. worker = [t \in Steps |-> worker[t]]
    BY DEF FlowEnds, DeliveryInv, TypeInv, TypeOK
  <2>2. worker' = [worker EXCEPT ![s] =
                     IF IsMerge(s) THEN [i \in Slots(s) |-> Taking] ELSE worker[s]]
    BY DEF Start
  <2> QED BY <2>1, <2>2
<1>3. Taking.pc = "taking" /\ (Open' <=> Open)
  BY <1>1 DEF Taking, At, Open
<1>4. ASSUME NEW d \in Steps, NEW u \in Upstream[d] PROVE EdgeEnds(u, d)'
  <2>1. SawDone(u, d)' => SawDone(u, d)
    BY <1>1, <1>2, <1>3 DEF SawDone, Slots
  <2>2. EdgeEnds(u, d) /\ u \in Steps \cup {Input}
    BY EdgeType DEF FlowEnds
  <2>3. u \in Steps /\ runner[u] \in Closing => runner'[u] \in Closing
    BY <1>1 DEF Closing, Ended
  <2> QED BY <1>1, <1>3, <2>1, <2>2, <2>3, SameEnds
<1>5. ASSUME NEW t \in Steps PROVE StepEnds(t)'
  <2>1. StepEnds(t)
    BY DEF FlowEnds
  <2>2. CASE t = s
    BY <1>1, <1>2, <1>3, <2>1, <2>2 DEF StepEnds, Closing, Ended
  <2>3. CASE t # s
    <3>1. runner'[t] = runner[t] /\ Live(t)' = Live(t)
      BY <1>1, <1>2, <2>3 DEF Live
    <3> QED BY <1>2, <1>3, <2>1, <2>3, <3>1 DEF StepEnds
  <2> QED BY <2>2, <2>3
<1>6. consumer' = "complete" => AllEnded'
  BY <1>1 DEF FlowEnds, AllEnded, Ended
<1> QED BY <1>4, <1>5, <1>6 DEF FlowEnds

LEMMA JoinEnd ==
  ASSUME FlowEnds, DeliveryInv', NEW s \in Steps, Join(s)
  PROVE  FlowEnds'
<1>1. /\ runner[s] = "joining" /\ Live(s) = {} /\ BeginClosing(s) /\ TypeInv
      /\ UNCHANGED <<queue, worker, consumer>>
  BY DEF Join, Drained, consumerVars, FlowEnds, DeliveryInv
<1>2. /\ runner'[s] \in {"closing", "done"}
      /\ \A t \in Steps \ {s} : runner'[t] = runner[t] /\ owed'[t] = owed[t]
  BY <1>1, BeginClosingMoves
<1>3. (Open' <=> Open) /\ \A t \in Steps : Live(t)' = Live(t)
  BY <1>1 DEF Open, Live
<1>4. ASSUME NEW d \in Steps, NEW u \in Upstream[d] PROVE EdgeEnds(u, d)'
  <2>1. SawDone(u, d)' => SawDone(u, d)
    BY <1>1, <1>2 DEF SawDone
  <2>2. EdgeEnds(u, d) /\ u \in Steps \cup {Input}
    BY EdgeType DEF FlowEnds
  <2>3. (u \in Steps /\ runner[u] \in Closing) =>
          runner'[u] \in Closing /\ owed'[u] = owed[u]
    BY <1>1, <1>2 DEF Closing, Ended
  <2> QED BY <1>1, <1>3, <2>1, <2>2, <2>3, SameEnds
<1>5. ASSUME NEW t \in Steps PROVE StepEnds(t)'
  <2>1. StepEnds(t)
    BY DEF FlowEnds
  <2>2. CASE t = s
    <3>1. worker' = worker /\ Live(s)' = {}
      BY <1>1 DEF Live
    <3> QED BY <1>1, <1>2, <1>3, <2>1, <2>2, <3>1 DEF StepEnds, Closing, Ended
  <2>3. CASE t # s
    <3>1. runner'[t] = runner[t] /\ worker' = worker /\ Live(t)' = Live(t)
      BY <1>1, <1>2, <2>3 DEF Live
    <3> QED BY <1>3, <2>1, <3>1 DEF StepEnds
  <2> QED BY <2>2, <2>3
<1>6. consumer' = "complete" => AllEnded'
  BY <1>1 DEF FlowEnds, AllEnded, Ended
<1> QED BY <1>4, <1>5, <1>6 DEF FlowEnds

LEMMA PutDoneEnd ==
  ASSUME FlowEnds, DeliveryInv', NEW s \in Steps, PutDone(s)
  PROVE  FlowEnds'
<1>1. PICK d \in owed[s] :
        /\ queue' = [queue EXCEPT ![<<s, d>>] = Append(queue[<<s, d>>], DONE)]
        /\ owed' = [owed EXCEPT ![s] = @ \ {d}]
        /\ runner' = [runner EXCEPT ![s] = IF owed[s] = {d} THEN "done" ELSE @]
  BY DEF PutDone
<1>2. UNCHANGED <<worker, consumer>> /\ runner[s] = "closing" /\ TypeInv
  BY DEF PutDone, consumerVars, FlowEnds, DeliveryInv
<1>3. d \in Steps /\ s \in Upstream[d] /\ s # Input /\ <<s, d>> \in Edges
  BY <1>2, DownstreamType DEF TypeInv, Travelling
<1>4. /\ owed'[s] = owed[s] \ {d} /\ runner'[s] \in {"closing", "done"}
      /\ \A t \in Steps \ {s} : owed'[t] = owed[t] /\ runner'[t] = runner[t]
  BY <1>1, <1>2, <1>3 DEF TypeInv, TypeOK
<1>5. (Open' <=> Open) /\ \A t \in Steps : Live(t)' = Live(t)
  BY <1>2 DEF Open, Live
<1>6. /\ queue'[<<s, d>>] = Append(queue[<<s, d>>], DONE)
      /\ queue[<<s, d>>] \in Seq({DONE} \cup Ordinals)
      /\ \A e \in Edges \ {<<s, d>>} : queue'[e] = queue[e]
  BY <1>1, <1>2, <1>3 DEF TypeInv, TypeOK
<1>7. ASSUME NEW c \in Steps, NEW v \in Upstream[c] PROVE EdgeEnds(v, c)'
  <2>1. SawDone(v, c)' => SawDone(v, c)
    BY <1>2, <1>4 DEF SawDone
  <2>2. EdgeEnds(v, c) /\ v \in Steps \cup {Input} /\ <<v, c>> \in Edges
    BY EdgeType DEF FlowEnds
  <2>3. (v \in Steps /\ runner[v] \in Closing /\ c \notin owed[v]) =>
          runner'[v] \in Closing /\ c \notin owed'[v]
    BY <1>4 DEF Closing, Ended
  <2>4. CASE v = s /\ c = d
    <3>1. ~InQueue(s, d, DONE) /\ ~(Open /\ SawDone(s, d) /\ (KeyRaises = {} \/ ~IsMerge(d)))
      BY <1>1, <1>3, <2>2, <2>4 DEF FlowEnds, DeliveryInv, EdgeOK, EdgeEnds
    <3>2. DoneLast(queue'[<<s, d>>])
      BY <1>6, <3>1, AppendLast DEF InQueue
    <3> QED BY <1>5, <2>1, <2>4, <3>1, <3>2 DEF EdgeEnds
  <2>5. CASE ~(v = s /\ c = d)
    <3>1. queue'[<<v, c>>] = queue[<<v, c>>]
      BY <1>6, <2>2, <2>5
    <3> QED BY <1>5, <2>1, <2>2, <2>3, <3>1, SameEnds
  <2> QED BY <2>4, <2>5
<1>8. ASSUME NEW t \in Steps PROVE StepEnds(t)'
  <2>1. StepEnds(t)
    BY DEF FlowEnds
  <2>2. CASE t = s
    <3>1. worker' = worker /\ Live(s)' = Live(s)
      BY <1>2 DEF Live
    <3> QED BY <1>2, <1>4, <1>5, <2>1, <2>2, <3>1 DEF StepEnds, Closing, Ended
  <2>3. CASE t # s
    <3>1. runner'[t] = runner[t] /\ worker' = worker /\ Live(t)' = Live(t)
      BY <1>2, <1>4, <2>3 DEF Live
    <3> QED BY <1>5, <2>1, <3>1 DEF StepEnds
  <2> QED BY <2>2, <2>3
<1>9. consumer' = "complete" => AllEnded'
  BY <1>2, <1>4 DEF FlowEnds, AllEnded, Ended
<1> QED BY <1>7, <1>8, <1>9 DEF FlowEnds

(* What a runner does with an item it reads, or with the one in its hand.   *)
LEMMA TakeMoves ==
  ASSUME DeliveryInv, NEW s \in Steps, NEW u \in Upstream[s], ~IsMerge(s),
         Take(s, u) \/ Acquire(s, u)
  PROVE  /\ runner[s] \in {"receiving", "acquiring"}
         /\ \A t \in Steps \ {s} : runner'[t] = runner[t]
         /\ UNCHANGED <<owed, output, consumer>>
         /\ \A t \in Steps : \A i \in Slots(t) :
              \/ worker'[t][i] = worker[t][i]
              \/ t = s /\ worker[t][i].pc = "idle" /\ worker'[t][i].pc = "created"
         /\ \/ queue' = queue /\ runner'[s] = "receiving"
            \/ /\ queue[<<u, s>>] # <<>>
               /\ queue' = [queue EXCEPT ![<<u, s>>] = Tail(queue[<<u, s>>])]
               /\ \/ Head(queue[<<u, s>>]) = DONE /\ runner'[s] = "joining"
                  \/ /\ Head(queue[<<u, s>>]) # DONE
                     /\ runner'[s] \in {"receiving", "acquiring"}
<1>1. TypeInv /\ TypeOK /\ EdgeOK(u, s) /\ StepOK(s) /\ u \in Steps \cup {Input}
  BY EdgeType DEF DeliveryInv, TypeInv
<1>2. CASE Acquire(s, u)
  <2>1. held[s] \in Ordinals /\ held[s] <= Produced(u) /\ worker[s][held[s]].pc = "idle"
    <3>1. held[s] \in {DONE} \cup Ordinals /\ held[s] # DONE /\ held[s] <= Produced(u)
      BY <1>1, <1>2 DEF Acquire, TypeInv, TypeOK, Travelling
    <3> QED BY <1>1, <3>1 DEF StepOK
  <2>2. Created(KeyOf(u, held[s])) \in Worker
    BY <1>1, <2>1, KeyType, WorkerType
  <2>3. \A t \in Steps : \A i \in Slots(t) :
          IF t = s /\ i = held[s] THEN worker'[t][i].pc = "created"
          ELSE worker'[t][i] = worker[t][i]
    BY <1>1, <1>2, <2>1, <2>2, SpawnPlaces DEF Acquire
  <2>4. /\ runner[s] = "acquiring" /\ runner' = [runner EXCEPT ![s] = "receiving"]
        /\ UNCHANGED <<queue, owed, output, consumer>>
    BY <1>2 DEF Acquire, consumerVars
  <2>5. runner'[s] = "receiving" /\ \A t \in Steps \ {s} : runner'[t] = runner[t]
    BY <1>1, <2>4 DEF TypeOK
  <2> QED BY <2>1, <2>3, <2>4, <2>5
<1>3. CASE Take(s, u)
  <2> DEFINE n == Head(queue[<<u, s>>])
  <2>1. /\ runner[s] = "receiving" /\ queue[<<u, s>>] # <<>>
        /\ queue' = [queue EXCEPT ![<<u, s>>] = Tail(queue[<<u, s>>])]
        /\ UNCHANGED <<owed, output, consumer>>
    BY <1>3 DEF Take, consumerVars
  <2>2. n \in {DONE} \cup Ordinals /\ InQueue(u, s, n)
    BY <1>1, <2>1, EdgeType, TakeFromQueue, TakeEffect DEF EdgeOK, Distinct, InQueue
  <2>3. \/ n = DONE /\ runner' = [runner EXCEPT ![s] = "joining"] /\ worker' = worker
        \/ n # DONE /\ AwaitPermit(s, n) /\ worker' = worker
        \/ n # DONE /\ Spawn(s, u, n) /\ runner' = runner
    BY <1>3 DEF Take
  <2> HIDE DEF n
  <2>4. /\ \A t \in Steps \ {s} : runner'[t] = runner[t]
        /\ \/ n = DONE /\ runner'[s] = "joining"
           \/ n # DONE /\ runner'[s] \in {"receiving", "acquiring"}
    BY <1>1, <2>1, <2>3 DEF AwaitPermit, TypeOK
  <2>5. \A t \in Steps : \A i \in Slots(t) :
          \/ worker'[t][i] = worker[t][i]
          \/ t = s /\ worker[t][i].pc = "idle" /\ worker'[t][i].pc = "created"
    <3>1. CASE n # DONE /\ Spawn(s, u, n)
      <4>1. n \in Ordinals /\ n <= Produced(u) /\ worker[s][n].pc = "idle"
        BY <1>1, <2>2, <3>1, ProducedType DEF EdgeOK, Taken
      <4>2. Created(KeyOf(u, n)) \in Worker
        BY <1>1, <4>1, KeyType, WorkerType
      <4>3. \A t \in Steps : \A i \in Slots(t) :
              IF t = s /\ i = n THEN worker'[t][i].pc = "created"
              ELSE worker'[t][i] = worker[t][i]
        BY <1>1, <3>1, <4>1, <4>2, SpawnPlaces
      <4> QED BY <4>1, <4>3
    <3> QED BY <2>3, <3>1
  <2> QED BY <2>1, <2>4, <2>5 DEF n
<1> QED BY <1>2, <1>3

LEMMA TakeEnd ==
  ASSUME FlowEnds, DeliveryInv', NEW s \in Steps, NEW u \in Upstream[s], ~IsMerge(s),
         Take(s, u) \/ Acquire(s, u)
  PROVE  FlowEnds'
<1>1. DeliveryInv /\ TypeInv /\ TypeOK /\ EdgeOK(u, s) /\ EdgeEnds(u, s) /\ StepEnds(s)
  BY DEF FlowEnds, DeliveryInv, TypeInv
<1>2. /\ runner[s] \in {"receiving", "acquiring"}
      /\ \A t \in Steps \ {s} : runner'[t] = runner[t]
      /\ UNCHANGED <<owed, output, consumer>>
      /\ \A t \in Steps : \A i \in Slots(t) :
           \/ worker'[t][i] = worker[t][i]
           \/ t = s /\ worker[t][i].pc = "idle" /\ worker'[t][i].pc = "created"
      /\ \/ queue' = queue /\ runner'[s] = "receiving"
         \/ /\ queue[<<u, s>>] # <<>>
            /\ queue' = [queue EXCEPT ![<<u, s>>] = Tail(queue[<<u, s>>])]
            /\ \/ Head(queue[<<u, s>>]) = DONE /\ runner'[s] = "joining"
               \/ /\ Head(queue[<<u, s>>]) # DONE
                  /\ runner'[s] \in {"receiving", "acquiring"}
  BY <1>1, TakeMoves
<1>3. Open' <=> Open
  BY <1>2 DEF Open
<1>4. \A v \in Upstream[s] : v = u
  BY TopologyAssumption DEF IsMerge
<1>5. <<u, s>> \in Edges /\ queue[<<u, s>>] \in Seq({DONE} \cup Ordinals)
  BY <1>1, EdgeType DEF TypeOK
<1>6. ASSUME NEW d \in Steps, NEW v \in Upstream[d], SawDone(v, d)'
      PROVE  SawDone(v, d) \/ (d = s /\ v = u /\ runner'[s] = "joining")
  <2>1. CASE IsMerge(d)
    BY <1>2, <1>6, <2>1 DEF SawDone, Slots
  <2>2. CASE ~IsMerge(d) /\ d # s
    BY <1>2, <1>6, <2>2 DEF SawDone
  <2>3. CASE ~IsMerge(d) /\ d = s
    BY <1>2, <1>4, <1>6, <2>3 DEF SawDone
  <2> QED BY <2>1, <2>2, <2>3
<1>7. ASSUME NEW d \in Steps, NEW v \in Upstream[d] PROVE EdgeEnds(v, d)'
  <2>1. EdgeEnds(v, d) /\ v \in Steps \cup {Input} /\ <<v, d>> \in Edges
    BY EdgeType DEF FlowEnds
  <2>2. v \in Steps /\ runner[v] \in Closing => runner'[v] \in Closing
    BY <1>2 DEF Closing, Ended
  <2>3. CASE queue'[<<v, d>>] = queue[<<v, d>>] /\ ~(d = s /\ v = u /\ runner'[s] = "joining")
    BY <1>2, <1>3, <1>6, <2>1, <2>2, <2>3, SameEnds
  <2>4. CASE /\ v = u /\ d = s /\ queue[<<u, s>>] # <<>>
             /\ queue' = [queue EXCEPT ![<<u, s>>] = Tail(queue[<<u, s>>])]
    <3>1. queue'[<<u, s>>] = Tail(queue[<<u, s>>])
      BY <1>1, <1>5, <2>4 DEF TypeOK
    <3>2. KeyRaises = {} => DoneLast(queue'[<<u, s>>])
      BY <1>1, <1>5, <2>4, <3>1, TailLast DEF EdgeEnds
    <3>3. ~SawDone(u, s)
      BY <1>2 DEF SawDone
    <3>4. ASSUME SawDone(u, s)'
          PROVE  /\ ~InQueue(u, s, DONE)'
                 /\ KeyRaises = {} => queue'[<<u, s>>] = <<>>
                 /\ u # Input => s \notin owed'[u] /\ runner'[u] \in Closing
      <4>1. Head(queue[<<u, s>>]) = DONE
        BY <1>2, <1>6, <2>4, <3>3, <3>4
      <4>2. InQueue(u, s, DONE) /\ ~InQueue(u, s, DONE)'
        <5>1. NoRepeat(queue[<<u, s>>])
          BY <1>1 DEF EdgeOK, Distinct
        <5>2. /\ queue[<<u, s>>] # <<>>
              /\ queue' = [queue EXCEPT ![<<u, s>>] = Tail(queue[<<u, s>>])]
          BY <2>4
        <5>3. Has(queue[<<u, s>>], Head(queue[<<u, s>>]))
          BY <1>1, <5>1, <5>2, TakeEffect
        <5>4. ~Has(queue'[<<u, s>>], Head(queue[<<u, s>>]))
          BY <1>1, <5>1, <5>2, TakeEffect
        <5> QED BY <4>1, <5>3, <5>4 DEF InQueue
      <4>3. KeyRaises = {} => queue'[<<u, s>>] = <<>>
        BY <1>1, <1>5, <2>4, <3>1, <4>1, TailLast DEF EdgeEnds
      <4>4. u # Input => s \notin owed[u] /\ runner[u] \in Closing
        BY <1>1, <4>2 DEF EdgeOK
      <4> QED BY <1>2, <2>1, <2>2, <2>4, <4>2, <4>3, <4>4
    <3> QED BY <2>4, <3>2, <3>4 DEF EdgeEnds
  <2>5. ASSUME ~(v = u /\ d = s),
               queue' = [queue EXCEPT ![<<u, s>>] = Tail(queue[<<u, s>>])]
        PROVE  queue'[<<v, d>>] = queue[<<v, d>>]
    BY <1>1, <2>1, <2>5 DEF TypeOK
  <2> QED BY <1>2, <2>3, <2>4, <2>5
<1>8. ASSUME NEW t \in Steps PROVE StepEnds(t)'
  <2>1. StepEnds(t)
    BY DEF FlowEnds
  <2>2. CASE t = s
    BY <1>1, <1>2, <1>3, <2>2 DEF StepEnds, Closing, Ended
  <2>3. CASE t # s
    <3>1. runner'[t] = runner[t] /\ Live(t)' = Live(t)
      BY <1>2, <2>3 DEF Live
    <3>2. \A i \in Slots(t) : worker'[t][i] = worker[t][i]
      BY <1>2, <2>3
    <3> QED BY <1>3, <2>1, <3>1, <3>2 DEF StepEnds
  <2> QED BY <2>2, <2>3
<1>9. consumer' = "complete" => AllEnded'
  BY <1>2 DEF FlowEnds, AllEnded, Ended
<1> QED BY <1>7, <1>8, <1>9 DEF FlowEnds

-----------------------------------------------------------------------------
(* The invocations. *)

(* An invocation goes on, and may put an output into the queue of a route.  *)
LEMMA InvocationMoves ==
  ASSUME DeliveryInv, NEW s \in Steps, NEW i \in Slots(s),
         Begin(s, i) \/ Emit(s, i) \/ Put(s, i) \/ Return(s, i) \/ Raise(s, i)
  PROVE  \E w \in Worker :
           /\ worker[s][i].pc \in {"created", "running", "putting"}
           /\ w.pc \notin {"idle", "created"}
           /\ IsMerge(s) => w.pc # "over"
           /\ (Kind[s] = "single" /\ worker[s][i].pc # "created") =>
                w.pc \in {"putting", "over"}
           /\ \A t \in Steps : \A j \in Slots(t) :
                worker'[t][j] = IF t = s /\ j = i THEN w ELSE worker[t][j]
           /\ UNCHANGED <<runner, owed, consumer, arrived, bucket, fired, reported>>
           /\ \/ queue' = queue
              \/ \E d \in Downstream(s), n \in Ordinals :
                   /\ Len(queue[<<s, d>>]) < QueueMax /\ ~InQueue(s, d, n)
                   /\ queue' = [queue EXCEPT ![<<s, d>>] = Append(queue[<<s, d>>], n)]
<1> DEFINE v == worker[s][i]
<1>1. /\ TypeInv /\ TypeOK /\ StepOK(s) /\ v \in Worker
      /\ UNCHANGED <<runner, owed, consumer, arrived, bucket, fired, reported>>
  BY DEF Begin, Emit, Put, Return, Raise, DeliveryInv, TypeInv, TypeOK, mergeVars,
         consumerVars
<1>2. ASSUME NEW w \in Worker, Advance(s, i, w)
      PROVE  \A t \in Steps : \A j \in Slots(t) :
               worker'[t][j] = IF t = s /\ j = i THEN w ELSE worker[t][j]
  BY <1>1, <1>2, AdvanceType
<1>3. /\ Delivered(s, v) \in Worker /\ Delivered(s, v).pc \in {"running", "over"}
      /\ Delivered(s, v).pc = "over" <=> Kind[s] = "single"
  BY <1>1, DeliveredType DEF Delivered, Running, Over, At
<1>4. CASE Return(s, i) \/ Raise(s, i)
  <2>1. Returned(s) \in Worker /\ Returned(s).pc = IF IsMerge(s) THEN "taking" ELSE "over"
    BY WorkerType DEF Returned, Taking, Over, At
  <2>2. Advance(s, i, Returned(s)) /\ v.pc = "running" /\ queue' = queue
    BY <1>4 DEF Return, Raise
  <2> QED BY <1>1, <1>2, <2>1, <2>2 DEF IsMerge
<1>5. CASE Emit(s, i)
  <2> DEFINE x == IF Downstream(s) = {} THEN Delivered(s, v)
                  ELSE [pc |-> "putting", key |-> v.key, out |-> Len(output[s]) + 1,
                        pend |-> Downstream(s)]
  <2>1. Advance(s, i, x) /\ v.pc = "running" /\ queue' = queue /\ Len(output[s]) < Yields[s]
    BY <1>5 DEF Emit
  <2>2. x \in Worker
    <3>1. Len(output[s]) + 1 \in Ordinals
      <4>1. Yields[s] \in 0 .. MaxItems /\ Len(output[s]) \in Nat
        BY <1>1, LimitAssumption DEF TypeOK
      <4> QED BY <2>1, <4>1, LimitAssumption DEF Ordinals
    <3>2. v.key \in Keys /\ Downstream(s) \subseteq Steps
      BY <1>1 DEF Worker, Downstream
    <3> QED BY <1>3, <3>1, <3>2 DEF Worker
  <2>3. x.pc = IF Downstream(s) = {} THEN Delivered(s, v).pc ELSE "putting"
    OBVIOUS
  <2> HIDE DEF x
  <2>4. x.pc \notin {"idle", "created"} /\ (IsMerge(s) => x.pc # "over")
        /\ (Kind[s] = "single" => x.pc \in {"putting", "over"})
    BY <1>3, <2>3 DEF IsMerge
  <2> QED BY <1>1, <1>2, <2>1, <2>2, <2>4
<1>6. CASE Put(s, i)
  <2>1. PICK d \in v.pend :
          /\ Len(queue[<<s, d>>]) < QueueMax
          /\ queue' = [queue EXCEPT ![<<s, d>>] = Append(queue[<<s, d>>], v.out)]
          /\ Advance(s, i, IF Remaining(v, d) = {} THEN Delivered(s, v)
                           ELSE [v EXCEPT !.pend = Remaining(v, d)])
    BY <1>6 DEF Put
  <2>2. v.pc = "putting" /\ v.out \in Ordinals /\ d \in Downstream(s)
    BY <1>1, <1>6 DEF Put, StepOK, TypeInv, Travelling
  <2>3. ~InQueue(s, d, v.out)
    <3>1. d \in Steps /\ s \in Upstream[d] /\ s # Input
      BY <2>2, DownstreamType
    <3>2. EdgeOK(s, d) /\ Putting(s, d, i, v.out)
      BY <2>1, <2>2, <3>1 DEF DeliveryInv, Putting
    <3> QED BY <2>2, <3>1, <3>2 DEF EdgeOK
  <2> DEFINE x == IF Remaining(v, d) = {} THEN Delivered(s, v)
                  ELSE [v EXCEPT !.pend = Remaining(v, d)]
  <2>4. x \in Worker /\ x.pc = IF Remaining(v, d) = {} THEN Delivered(s, v).pc ELSE v.pc
    <3>1. CASE Remaining(v, d) = {}
      BY <1>3, <3>1
    <3>2. CASE Remaining(v, d) # {}
      <4>1. x = [v EXCEPT !.pend = v.pend \ {d}]
        BY <3>2 DEF Remaining
      <4> HIDE DEF x
      <4> QED BY <1>1, <3>2, <4>1 DEF Worker
    <3> QED BY <3>1, <3>2
  <2>5. Advance(s, i, x)
    BY <2>1
  <2> HIDE DEF x
  <2>6. x.pc \notin {"idle", "created"} /\ (IsMerge(s) => x.pc # "over")
        /\ (Kind[s] = "single" => x.pc \in {"putting", "over"})
    BY <1>3, <2>2, <2>4 DEF IsMerge
  <2>7. \A t \in Steps : \A j \in Slots(t) :
          worker'[t][j] = IF t = s /\ j = i THEN x ELSE worker[t][j]
    BY <1>2, <2>4, <2>5
  <2> HIDE DEF v
  <2>8. \E e \in Downstream(s), n \in Ordinals :
          /\ Len(queue[<<s, e>>]) < QueueMax /\ ~InQueue(s, e, n)
          /\ queue' = [queue EXCEPT ![<<s, e>>] = Append(queue[<<s, e>>], n)]
    BY <2>1, <2>2, <2>3
  <2> QED BY <1>1, <2>2, <2>4, <2>6, <2>7, <2>8 DEF v
<1>7. CASE Begin(s, i)
  <2>1. v.key \in Keys
    BY <1>1 DEF Worker
  <2>2. Running(v.key) \in Worker /\ Running(v.key).pc = "running"
    BY <2>1, WorkerType DEF Running, At
  <2>3. Advance(s, i, Running(v.key)) /\ v.pc = "created" /\ queue' = queue
    BY <1>7 DEF Begin
  <2> QED BY <1>1, <1>2, <2>2, <2>3
<1> QED BY <1>4, <1>5, <1>6, <1>7

LEMMA InvocationEnd ==
  ASSUME FlowEnds, DeliveryInv', NEW s \in Steps, NEW i \in Slots(s),
         Begin(s, i) \/ Emit(s, i) \/ Put(s, i) \/ Return(s, i) \/ Raise(s, i)
  PROVE  FlowEnds'
<1>1. DeliveryInv /\ TypeInv /\ TypeOK /\ StepEnds(s)
  BY DEF FlowEnds, DeliveryInv, TypeInv
<1>2. PICK w \in Worker :
           /\ worker[s][i].pc \in {"created", "running", "putting"}
           /\ w.pc \notin {"idle", "created"}
           /\ IsMerge(s) => w.pc # "over"
           /\ (Kind[s] = "single" /\ worker[s][i].pc # "created") =>
                w.pc \in {"putting", "over"}
           /\ \A t \in Steps : \A j \in Slots(t) :
                worker'[t][j] = IF t = s /\ j = i THEN w ELSE worker[t][j]
           /\ UNCHANGED <<runner, owed, consumer, arrived, bucket, fired, reported>>
           /\ \/ queue' = queue
              \/ \E d \in Downstream(s), n \in Ordinals :
                   /\ Len(queue[<<s, d>>]) < QueueMax /\ ~InQueue(s, d, n)
                   /\ queue' = [queue EXCEPT ![<<s, d>>] = Append(queue[<<s, d>>], n)]
  BY <1>1, InvocationMoves
<1>3. Open' <=> Open
  BY <1>2 DEF Open
<1>4. i \in Live(s) /\ (KeyRaises = {} => runner[s] \notin Closing)
  BY <1>1, <1>2 DEF Live, StepEnds
<1>5. ASSUME NEW d \in Steps, NEW u \in Upstream[d] PROVE SawDone(u, d)' => SawDone(u, d)
  BY <1>2 DEF SawDone, Slots
<1>6. ASSUME NEW d \in Steps, NEW u \in Upstream[d] PROVE EdgeEnds(u, d)'
  <2>1. EdgeEnds(u, d) /\ u \in Steps \cup {Input} /\ <<u, d>> \in Edges
    BY EdgeType DEF FlowEnds
  <2>2. CASE queue'[<<u, d>>] = queue[<<u, d>>]
    BY <1>2, <1>3, <1>5, <2>1, <2>2, SameEnds
  <2>3. CASE queue'[<<u, d>>] # queue[<<u, d>>]
    <3>1. PICK c \in Downstream(s), n \in Ordinals :
            /\ ~InQueue(s, c, n)
            /\ queue' = [queue EXCEPT ![<<s, c>>] = Append(queue[<<s, c>>], n)]
      BY <1>2, <2>3
    <3>2. u = s /\ d = c /\ u # Input
      BY <1>1, <2>1, <2>3, <3>1, DownstreamType DEF TypeOK
    <3>3. /\ queue[<<u, d>>] \in Seq({DONE} \cup Ordinals)
          /\ queue'[<<u, d>>] = Append(queue[<<u, d>>], n)
      BY <1>1, <2>1, <3>1, <3>2 DEF TypeOK
    <3>4. EdgeOK(u, d)
      BY <1>1 DEF DeliveryInv
    <3>5. KeyRaises = {} => DoneLast(queue'[<<u, d>>])
      BY <1>4, <3>2, <3>3, <3>4, AppendLast DEF EdgeOK, InQueue
    <3>6. InQueue(u, d, DONE)' => InQueue(u, d, DONE)
      <4>1. NoRepeat(queue[<<s, c>>]) /\ c \in Steps /\ s \in Upstream[c]
            /\ n \in {DONE} \cup Ordinals
        BY <3>2, <3>4 DEF EdgeOK, Distinct
      <4>2. ~Has(queue[<<s, c>>], n)
        BY <3>1 DEF InQueue
      <4>3. \A m : Has(queue'[<<s, c>>], m) <=> Has(queue[<<s, c>>], m) \/ m = n
        <5>1. queue' = [queue EXCEPT ![<<s, c>>] = Append(queue[<<s, c>>], n)]
          BY <3>1
        <5>2. \A b \in Steps : \A v \in Upstream[b] : \A m :
                Has(queue'[<<v, b>>], m) <=>
                  Has(queue[<<v, b>>], m) \/ (v = s /\ b = c /\ m = n)
          BY <1>1, <4>1, <4>2, <5>1, PutEffect, ZenonT(40)
        <5> QED BY <4>1, <5>2
      <4> QED BY <3>2, <4>3, DoneIsNoOrdinal DEF InQueue
    <3>7. (KeyRaises = {} /\ Open) => ~SawDone(u, d)
      BY <1>4, <2>1, <3>2 DEF EdgeEnds
    <3> QED BY <1>2, <1>3, <1>5, <2>1, <3>5, <3>6, <3>7 DEF EdgeEnds
  <2> QED BY <2>2, <2>3
<1>7. ASSUME NEW t \in Steps PROVE StepEnds(t)'
  <2>1. StepEnds(t) /\ runner'[t] = runner[t]
    BY <1>2 DEF FlowEnds
  <2>2. CASE t = s
    BY <1>2, <1>3, <1>4, <2>1, <2>2 DEF StepEnds
  <2>3. CASE t # s
    <3>1. Live(t)' = Live(t) /\ \A j \in Slots(t) : worker'[t][j] = worker[t][j]
      BY <1>2, <2>3 DEF Live
    <3> QED BY <1>3, <2>1, <3>1 DEF StepEnds
  <2> QED BY <2>2, <2>3
<1>8. consumer' = "complete" => AllEnded'
  BY <1>2 DEF FlowEnds, AllEnded, Ended
<1> QED BY <1>6, <1>7, <1>8 DEF FlowEnds

-----------------------------------------------------------------------------
(* The consume_source tasks. *)

LEMMA MergeMoves ==
  ASSUME DeliveryInv, NEW m \in Steps, IsMerge(m), NEW u \in Upstream[m],
         MergeTake(m, u) \/ MergeTakeDone(m, u) \/ MergeKeyRaise(m, u)
  PROVE  /\ worker[m][u].pc = "taking" /\ queue[<<u, m>>] # <<>>
         /\ queue' = [queue EXCEPT ![<<u, m>>] = Tail(queue[<<u, m>>])]
         /\ \A t \in Steps : \A j \in Slots(t) :
              \/ worker'[t][j] = worker[t][j]
              \/ t = m /\ j = u /\ worker'[t][j].pc = "running" /\ fired'[m] # {}
              \/ /\ t = m /\ j = u /\ worker'[t][j].pc = "over"
                 /\ Head(queue[<<u, m>>]) = DONE \/ KeyRaises # {}
         /\ \A t \in Steps \ {m} : runner'[t] = runner[t] /\ owed'[t] = owed[t]
         /\ \/ runner'[m] = runner[m] /\ owed'[m] = owed[m]
            \/ /\ KeyRaises # {} /\ runner[m] = "joining"
               /\ runner'[m] \in {"closing", "done"}
         /\ UNCHANGED <<output, consumer>>
<1>1. TypeInv /\ TypeOK /\ u \in Slots(m)
  BY DEF DeliveryInv, TypeInv, Slots
<1>2. /\ worker[m][u].pc = "taking" /\ queue[<<u, m>>] # <<>>
      /\ queue' = [queue EXCEPT ![<<u, m>>] = Tail(queue[<<u, m>>])]
      /\ UNCHANGED <<output, consumer>>
  BY DEF MergeTake, MergeTakeDone, MergeKeyRaise, consumerVars
<1>3. CASE MergeTake(m, u)
  <2>1. UNCHANGED <<runner, owed>>
    BY <1>3 DEF MergeTake
  <2>2. PICK n \in Ordinals, k \in Keys :
          LET b == Stored(m, u, n, k) IN
          \/ /\ fired' = [fired EXCEPT ![m] = fired[m] \cup {[key |-> k, vals |-> b[k]]}]
             /\ worker' = [worker EXCEPT ![m][u] = Running(k)]
          \/ UNCHANGED worker
    BY <1>3, MergeTakeBuckets
  <2>3. CASE UNCHANGED worker
    BY <1>2, <2>1, <2>3
  <2>4. CASE /\ fired' = [fired EXCEPT ![m] =
                            fired[m] \cup {[key |-> k, vals |-> Stored(m, u, n, k)[k]]}]
             /\ worker' = [worker EXCEPT ![m][u] = Running(k)]
    <3>1. fired'[m] # {}
      BY <1>1, <2>4 DEF TypeOK
    <3>2. Running(k) \in Worker /\ Running(k).pc = "running"
      BY WorkerType DEF Running, At
    <3>3. \A t \in Steps : \A j \in Slots(t) :
            worker'[t][j] = IF t = m /\ j = u THEN Running(k) ELSE worker[t][j]
      BY <1>1, <2>4, <3>2, WorkerUpdate, ZenonT(40)
    <3> QED BY <1>2, <2>1, <3>1, <3>2, <3>3
  <2> QED BY <2>2, <2>3, <2>4
<1>4. CASE MergeTakeDone(m, u) \/ MergeKeyRaise(m, u)
  <2>1. /\ worker' = [worker EXCEPT ![m][u] = Over]
        /\ Head(queue[<<u, m>>]) = DONE \/ KeyRaises # {}
        /\ \/ UNCHANGED <<runner, owed>>
           \/ KeyRaises # {} /\ runner[m] = "joining" /\ BeginClosing(m)
    BY <1>4 DEF MergeTakeDone, MergeKeyRaise
  <2>2. Over \in Worker /\ Over.pc = "over"
    BY WorkerType DEF Over, At
  <2>3. \A t \in Steps : \A j \in Slots(t) :
          worker'[t][j] = IF t = m /\ j = u THEN Over ELSE worker[t][j]
    BY <1>1, <2>1, <2>2, WorkerUpdate
  <2>4. /\ \A t \in Steps \ {m} : runner'[t] = runner[t] /\ owed'[t] = owed[t]
        /\ \/ runner'[m] = runner[m] /\ owed'[m] = owed[m]
           \/ KeyRaises # {} /\ runner[m] = "joining" /\ runner'[m] \in {"closing", "done"}
    BY <1>1, <2>1, BeginClosingMoves
  <2>5. \A t \in Steps : \A j \in Slots(t) :
          \/ worker'[t][j] = worker[t][j]
          \/ /\ t = m /\ j = u /\ worker'[t][j].pc = "over"
             /\ Head(queue[<<u, m>>]) = DONE \/ KeyRaises # {}
    BY <2>1, <2>2, <2>3
  <2> QED BY <1>2, <2>4, <2>5
<1> QED BY <1>3, <1>4

LEMMA MergeEnd ==
  ASSUME FlowEnds, DeliveryInv', NEW m \in Steps, IsMerge(m), NEW u \in Upstream[m],
         MergeTake(m, u) \/ MergeTakeDone(m, u) \/ MergeKeyRaise(m, u)
  PROVE  FlowEnds'
<1>1. DeliveryInv /\ TypeInv /\ TypeOK /\ EdgeOK(u, m) /\ EdgeEnds(u, m) /\ u \in Slots(m)
  BY DEF FlowEnds, DeliveryInv, TypeInv, Slots
<1> DEFINE ends == Head(queue[<<u, m>>]) = DONE \/ KeyRaises # {}
<1>2. /\ worker[m][u].pc = "taking" /\ queue[<<u, m>>] # <<>>
      /\ queue' = [queue EXCEPT ![<<u, m>>] = Tail(queue[<<u, m>>])]
      /\ \A t \in Steps : \A j \in Slots(t) :
           \/ worker'[t][j] = worker[t][j]
           \/ /\ t = m /\ j = u /\ worker'[t][j].pc \in {"running", "over"}
              /\ worker'[t][j].pc = "over" => ends
      /\ \A t \in Steps \ {m} : runner'[t] = runner[t] /\ owed'[t] = owed[t]
      /\ \/ runner'[m] = runner[m] /\ owed'[m] = owed[m]
         \/ /\ KeyRaises # {} /\ runner[m] = "joining"
            /\ runner'[m] \in {"closing", "done"}
      /\ consumer' = consumer
  <2>1. \A t \in Steps : \A j \in Slots(t) :
              \/ worker'[t][j] = worker[t][j]
              \/ t = m /\ j = u /\ worker'[t][j].pc = "running"
              \/ t = m /\ j = u /\ worker'[t][j].pc = "over" /\ ends
    BY <1>1, MergeMoves
  <2> HIDE DEF ends
  <2>2. \A t \in Steps : \A j \in Slots(t) :
           \/ worker'[t][j] = worker[t][j]
           \/ /\ t = m /\ j = u /\ worker'[t][j].pc \in {"running", "over"}
              /\ worker'[t][j].pc = "over" => ends
    BY <2>1
  <2> QED BY <1>1, <2>2, MergeMoves
<1>3. /\ Open' <=> Open
      /\ u \in Live(m)
  BY <1>1, <1>2 DEF Open, Live
<1>4. ASSUME NEW d \in Steps, NEW v \in Upstream[d], ~(d = m /\ v = u), SawDone(v, d)'
      PROVE  SawDone(v, d)
  <2>1. CASE IsMerge(d)
    BY <1>2, <1>4, <2>1 DEF SawDone, Slots
  <2>2. CASE ~IsMerge(d)
    BY <1>2, <1>4, <2>2 DEF SawDone
  <2> QED BY <2>1, <2>2
<1>5. ASSUME NEW d \in Steps, NEW v \in Upstream[d] PROVE EdgeEnds(v, d)'
  <2>1. EdgeEnds(v, d) /\ v \in Steps \cup {Input} /\ <<v, d>> \in Edges
    BY EdgeType DEF FlowEnds
  <2>2. v \in Steps /\ runner[v] \in Closing => runner'[v] \in Closing /\ owed'[v] = owed[v]
    BY <1>2 DEF Closing, Ended
  <2>3. CASE ~(v = u /\ d = m)
    <3>1. queue'[<<v, d>>] = queue[<<v, d>>]
      BY <1>1, <1>2, <2>1, <2>3 DEF TypeOK
    <3> QED BY <1>3, <1>4, <2>1, <2>2, <2>3, <3>1, SameEnds
  <2>4. CASE v = u /\ d = m
    <3>1. /\ queue'[<<u, m>>] = Tail(queue[<<u, m>>])
          /\ queue[<<u, m>>] \in Seq({DONE} \cup Ordinals)
      BY <1>1, <1>2, <2>1, <2>4 DEF TypeOK
    <3>2. KeyRaises = {} => DoneLast(queue'[<<u, m>>])
      BY <1>1, <1>2, <3>1, TailLast DEF EdgeEnds
    <3>3. ASSUME SawDone(u, m)', KeyRaises = {}
          PROVE  /\ ~InQueue(u, m, DONE)'
                 /\ queue'[<<u, m>>] = <<>>
                 /\ u # Input => m \notin owed'[u] /\ runner'[u] \in Closing
      <4>1. Head(queue[<<u, m>>]) = DONE
        BY <1>1, <1>2, <3>3 DEF SawDone
      <4>2. queue'[<<u, m>>] = <<>>
        BY <1>1, <1>2, <3>1, <3>3, <4>1, TailLast DEF EdgeEnds
      <4>3. ~InQueue(u, m, DONE)'
        BY <4>2 DEF InQueue, Has
      <4>4. InQueue(u, m, DONE)
        <5>1. NoRepeat(queue[<<u, m>>])
          BY <1>1 DEF EdgeOK, Distinct
        <5>2. Has(queue[<<u, m>>], Head(queue[<<u, m>>]))
          BY <1>2, <3>1, <5>1, TailContent
        <5> QED BY <4>1, <5>2 DEF InQueue
      <4>5. u # Input => m \notin owed[u] /\ runner[u] \in Closing
        BY <1>1, <4>4 DEF EdgeOK
      <4> QED BY <2>1, <2>2, <2>4, <4>2, <4>3, <4>5
    <3> QED BY <2>4, <3>2, <3>3 DEF EdgeEnds
  <2> QED BY <2>3, <2>4
<1>6. ASSUME NEW t \in Steps PROVE StepEnds(t)'
  <2>1. StepEnds(t)
    BY DEF FlowEnds
  <2>2. CASE t = m
    <3>1. \A j \in Slots(m) : worker[m][j].pc # "idle" => worker'[m][j].pc # "idle"
      BY <1>2
    <3>2. KeyRaises = {} => runner'[m] \notin Closing
      BY <1>2, <1>3, <2>1, <2>2 DEF StepEnds
    <3>3. runner[m] \in Closing => runner'[m] = runner[m]
      BY <1>2 DEF Closing, Ended
    <3>4. runner'[m] = runner[m] \/ (runner[m] = "joining" /\ runner'[m] \in {"closing", "done"})
      BY <1>2
    <3> QED BY <1>3, <2>1, <2>2, <3>1, <3>2, <3>3, <3>4 DEF StepEnds, Closing, Ended
  <2>3. CASE t # m
    <3>1. /\ runner'[t] = runner[t] /\ Live(t)' = Live(t)
          /\ \A j \in Slots(t) : worker'[t][j] = worker[t][j]
      BY <1>2, <2>3 DEF Live
    <3> QED BY <1>3, <2>1, <3>1 DEF StepEnds
  <2> QED BY <2>2, <2>3
<1>7. consumer' = "complete" => AllEnded'
  BY <1>2 DEF FlowEnds, AllEnded, Ended
<1> QED BY <1>5, <1>6, <1>7 DEF FlowEnds

-----------------------------------------------------------------------------
(* The consumer. *)

LEMMA CancelEnd ==
  ASSUME FlowEnds, DeliveryInv', Close \/ CancelAgain
  PROVE  FlowEnds'
<1>1. /\ CancelRunners /\ consumer' = "closing"
      /\ \A s \in Steps : runner[s] # "created"
      /\ TypeOK
  <2>1. TypeOK
    BY DEF FlowEnds, DeliveryInv, TypeInv
  <2>2. CASE Close
    BY <2>1, <2>2 DEF Close
  <2>3. CASE CancelAgain
    BY <2>1, <2>3 DEF CancelAgain, FlowEnds, StepEnds, Open, Closing, Ended
  <2> QED BY <2>2, <2>3
<1>2. /\ UNCHANGED queue
      /\ \A s \in Steps : runner'[s] = AfterCancel(s)
      /\ \A s \in Steps : \A i \in Slots(s) :
           worker'[s][i] = IF runner[s] = "joining" /\ i \in Live(s)
                           THEN Stricken(worker[s][i]) ELSE worker[s][i]
  BY <1>1 DEF CancelRunners
<1>3. ~Open' /\ \A w : Stricken(w).pc \in {"over", "dropped"}
  BY <1>1, StrickenType DEF Open
<1>4. ASSUME NEW d \in Steps, NEW u \in Upstream[d] PROVE EdgeEnds(u, d)'
  <2>1. EdgeEnds(u, d)
    BY DEF FlowEnds
  <2> QED BY <1>2, <1>3, <2>1 DEF EdgeEnds
<1>5. ASSUME NEW s \in Steps PROVE StepEnds(s)'
  <2>1. StepEnds(s) /\ runner'[s] = AfterCancel(s) /\ runner[s] # "created"
        /\ runner[s] \in {"created", "receiving", "acquiring", "joining", "closing"} \cup Ended
    BY <1>1, <1>2 DEF FlowEnds, TypeOK
  <2>2. /\ runner'[s] \in {"joining"} \cup Closing
        /\ IsMerge(s) => runner'[s] \in Closing
        /\ runner'[s] \in Closing =>
             runner[s] \in Closing \/ (runner[s] = "joining" /\ IsMerge(s))
    BY <2>1 DEF AfterCancel, StepEnds, Closing, Ended
  <2>3. ASSUME KeyRaises = {}, runner'[s] \in Closing PROVE Live(s)' = {}
    <3>1. CASE runner[s] = "joining"
      BY <1>2, <1>3, <3>1 DEF Live
    <3>2. CASE runner[s] \in Closing
      <4>1. Live(s) = {} /\ runner[s] # "joining"
        BY <2>1, <2>3, <3>2 DEF StepEnds, Closing, Ended
      <4>2. \A i \in Slots(s) : worker'[s][i] = worker[s][i]
        BY <1>2, <4>1
      <4> QED BY <4>1, <4>2 DEF Live
    <3> QED BY <2>2, <2>3, <3>1, <3>2
  <2>4. IsMerge(s) => \A u \in Slots(s) : worker'[s][u].pc # "idle"
    BY <1>2, <1>3, <2>1 DEF StepEnds
  <2> QED BY <1>3, <2>2, <2>3, <2>4 DEF StepEnds, Closing, Ended
<1> QED BY <1>1, <1>4, <1>5 DEF FlowEnds

LEMMA FinishEnd ==
  ASSUME FlowEnds, DeliveryInv', FinishPipeline \/ FinishClose \/ UNCHANGED vars
  PROVE  FlowEnds'
<1>1. /\ UNCHANGED <<queue, runner, worker, owed>>
      /\ Open' <=> Open
      /\ consumer' = "complete" => AllEnded
  BY DEF FinishPipeline, FinishClose, Open, vars, consumerVars, FlowEnds
<1>2. ASSUME NEW d \in Steps, NEW u \in Upstream[d] PROVE EdgeEnds(u, d)'
  <2>1. EdgeEnds(u, d) /\ (SawDone(u, d)' <=> SawDone(u, d))
    BY <1>1 DEF FlowEnds, SawDone
  <2> QED BY <1>1, <2>1, SameEnds
<1>3. ASSUME NEW s \in Steps PROVE StepEnds(s)'
  <2>1. StepEnds(s) /\ Live(s)' = Live(s)
    BY <1>1 DEF FlowEnds, Live
  <2> QED BY <1>1, <2>1 DEF StepEnds
<1>4. consumer' = "complete" => AllEnded'
  BY <1>1 DEF AllEnded
<1> QED BY <1>2, <1>3, <1>4 DEF FlowEnds

LEMMA NextFlow == FlowEnds /\ [Next]_vars => FlowEnds'
<1> SUFFICES ASSUME FlowEnds, [Next]_vars PROVE FlowEnds'
  OBVIOUS
<1>1. DeliveryInv'
  BY NextDelivery DEF FlowEnds
<1>2. ASSUME NEW s \in Steps, RunnerStep(s) PROVE FlowEnds'
  BY <1>1, <1>2, StartEnd, JoinEnd, PutDoneEnd, TakeEnd DEF RunnerStep
<1>3. ASSUME NEW s \in Steps, WorkerStep(s) PROVE FlowEnds'
  BY <1>1, <1>3, InvocationEnd, MergeEnd DEF WorkerStep
<1> QED BY <1>1, <1>2, <1>3, CancelEnd, FinishEnd DEF Next, LoopStep, Stopped

(* Nothing is dropped before the stream is closed. *)
EndInv == FlowEnds /\ (Open => \A s \in Steps : Unbegun(s) = {})

(* A stream that is open was never closed. *)
LEMMA OpenBefore ==
  ASSUME [Next]_vars, Open'
  PROVE  Open
<1>1. ASSUME NEW t \in Steps, RunnerStep(t) PROVE consumer' = consumer
  BY <1>1 DEF RunnerStep, Start, Join, PutDone, Take, Acquire, consumerVars
<1>2. ASSUME NEW t \in Steps, WorkerStep(t) PROVE consumer' = consumer
  BY <1>2 DEF WorkerStep, Begin, Emit, Put, Return, Raise, MergeTake, MergeTakeDone,
              MergeKeyRaise, consumerVars
<1>3. CASE FinishPipeline \/ FinishClose \/ Close \/ CancelAgain
  BY <1>3 DEF FinishPipeline, FinishClose, Close, CancelAgain, Open
<1>4. CASE Stopped \/ UNCHANGED vars
  BY <1>4 DEF Stopped, vars, consumerVars, Open
<1> QED BY <1>1, <1>2, <1>3, <1>4 DEF Next, LoopStep, Open

LEMMA InitEnd == Init => EndInv
<1>1. Init => \A s \in Steps : Unbegun(s) = {}
  BY DEF Init, Unbegun, Idle, At
<1> QED BY <1>1, InitFlow DEF EndInv

LEMMA NextEnd == EndInv /\ [Next]_vars => EndInv'
<1> SUFFICES ASSUME EndInv, [Next]_vars PROVE EndInv'
  OBVIOUS
<1>1. FlowEnds' /\ DeliveryInv
  BY NextFlow DEF EndInv, FlowEnds
<1>2. ASSUME Open', NEW s \in Steps, NEW i \in Slots(s), worker'[s][i].pc = "dropped"
      PROVE  FALSE
  <2>1. worker[s][i].pc = "dropped" /\ Open
    BY <1>1, <1>2, OpenBefore, DroppedLate
  <2> QED BY <2>1 DEF EndInv, Unbegun
<1>3. Open' => \A s \in Steps : Unbegun(s)' = {}
  BY <1>2 DEF Unbegun
<1> QED BY <1>1, <1>3 DEF EndInv

-----------------------------------------------------------------------------
(* What follows from it. *)

(* As long as no merge_key function raises and nobody closes the stream,    *)
(* _DONE is the last item of every edge, in every DAG.                      *)
THEOREM EndIsLast ==
  ASSUME KeyRaises = {}
  PROVE  Spec => []EndOfStream
<1>1. ASSUME EndInv PROVE EndOfStream
  <2> SUFFICES ASSUME Open, NEW d \in Steps, NEW u \in Upstream[d] \ {Input}
               PROVE  LET q == queue[<<u, d>>] IN
                      /\ \A j \in DOMAIN q : q[j] = DONE => j = Len(q) /\ Live(u) = {}
                      /\ SawDone(u, d) => q = <<>> /\ Live(u) = {}
    BY DEF EndOfStream
  <2>1. u \in Steps /\ u # Input /\ EdgeEnds(u, d) /\ EdgeOK(u, d) /\ StepEnds(u)
    BY <1>1, EdgeType DEF EndInv, FlowEnds, DeliveryInv
  <2>2. queue[<<u, d>>] \in Seq({DONE} \cup Ordinals)
    BY <1>1, EdgeType DEF EndInv, FlowEnds, DeliveryInv, TypeInv, TypeOK
  <2>3. DOMAIN queue[<<u, d>>] = 1 .. Len(queue[<<u, d>>])
    BY <2>2
  <2>4. \A j \in DOMAIN queue[<<u, d>>] : queue[<<u, d>>][j] = DONE =>
          j = Len(queue[<<u, d>>]) /\ runner[u] \in Closing
    BY <2>1, <2>3 DEF EdgeEnds, EdgeOK, DoneLast, InQueue, Has
  <2>5. SawDone(u, d) => queue[<<u, d>>] = <<>> /\ runner[u] \in Closing
    BY <2>1 DEF EdgeEnds
  <2>6. runner[u] \in Closing => Live(u) = {}
    BY <2>1 DEF StepEnds
  <2> QED BY <2>4, <2>5, <2>6
<1> QED BY <1>1, InitEnd, NextEnd, PTL DEF Spec

(* PipelineDone means what it says: as long as no merge_key function        *)
(* raises, nothing is left in any queue, hand or invocation of any DAG.     *)
THEOREM CompleteMeansDelivered ==
  ASSUME KeyRaises = {}
  PROVE  Spec => []AllDelivered
<1>1. ASSUME EndInv, consumer = "complete"
      PROVE  /\ \A s \in Steps : runner[s] = "done" /\ Live(s) = {} /\ held[s] = DONE
             /\ \A e \in Edges :
                  /\ queue[e] = <<>>
                  /\ e[1] # Input => Received(e[1], e[2]) = 1 .. Len(output[e[1]])
  <2>1. Open /\ AllEnded /\ ExactlyOnce
    BY <1>1, DeliveryImpliesExactlyOnce DEF Open, EndInv, FlowEnds
  <2>2. ASSUME NEW s \in Steps PROVE runner[s] = "done" /\ Live(s) = {} /\ held[s] = DONE
    <3>1. StepEnds(s) /\ StepOK(s)
      BY <1>1 DEF EndInv, FlowEnds, DeliveryInv
    <3> QED BY <2>1, <3>1 DEF StepEnds, StepOK, AllEnded, Ended, Closing
  <2>3. ASSUME NEW d \in Steps, NEW u \in Upstream[d]
        PROVE  /\ queue[<<u, d>>] = <<>>
               /\ u # Input => Received(u, d) = 1 .. Len(output[u])
    <3>1. SawDone(u, d)
      <4>1. CASE IsMerge(d)
        <5>1. Live(d) = {} /\ u \in Slots(d) /\ worker[d][u].pc \notin {"idle", "dropped"}
          BY <1>1, <2>1, <2>2, <4>1 DEF EndInv, FlowEnds, StepEnds, Slots, Unbegun
        <5> QED BY <4>1, <5>1 DEF SawDone, Live
      <4>2. CASE ~IsMerge(d)
        BY <2>2, <4>2 DEF SawDone
      <4> QED BY <4>1, <4>2
    <3>2. queue[<<u, d>>] = <<>>
      BY <1>1, <2>1, <3>1 DEF EndInv, FlowEnds, EdgeEnds
    <3>3. ASSUME u # Input PROVE Received(u, d) = 1 .. Len(output[u])
      <4>1. Pending(u, d) \cup Queued(u, d) \cup Received(u, d) = 1 .. Len(output[u])
        BY <2>1, <3>3 DEF ExactlyOnce
      <4>2. Pending(u, d) = {}
        BY <2>2, <3>3, EdgeType DEF Live, Pending
      <4>3. Queued(u, d) = {}
        BY <3>2 DEF Queued
      <4> QED BY <4>1, <4>2, <4>3
    <3> QED BY <3>2, <3>3
  <2>4. ASSUME NEW e \in Edges
        PROVE  /\ queue[e] = <<>>
               /\ e[1] # Input => Received(e[1], e[2]) = 1 .. Len(output[e[1]])
    <3>1. e[2] \in Steps /\ e[1] \in Upstream[e[2]] /\ e = <<e[1], e[2]>>
      BY DEF Edges
    <3> QED BY <2>3, <3>1
  <2> QED BY <2>2, <2>4
<1>2. EndInv => AllDelivered
  BY <1>1 DEF AllDelivered
<1> QED BY <1>2, InitEnd, NextEnd, PTL DEF Spec

(* In a run nobody closes, no edge ever carries two _DONE, whatever the     *)
(* merge_key functions raise.                                               *)
THEOREM DoneOnce == OpenSpec => []SingleSentinel
<1>1. Init => Open
  BY DEF Init, Open
<1>2. Open /\ [NextOpen]_vars => Open'
  <2> SUFFICES ASSUME Open, [NextOpen]_vars PROVE Open'
    OBVIOUS
  <2>1. ASSUME NEW s \in Steps, RunnerStep(s) PROVE consumer' = consumer
    BY <2>1 DEF RunnerStep, Start, Join, PutDone, Take, Acquire, consumerVars
  <2>2. ASSUME NEW s \in Steps, WorkerStep(s) PROVE consumer' = consumer
    BY <2>2 DEF WorkerStep, Begin, Emit, Put, Return, Raise, MergeTake, MergeTakeDone,
                MergeKeyRaise, consumerVars
  <2>3. CASE FinishPipeline \/ FinishClose \/ Stopped \/ UNCHANGED vars
    BY <2>3 DEF FinishPipeline, FinishClose, Stopped, vars, consumerVars, Open
  <2> QED BY <2>1, <2>2, <2>3 DEF NextOpen, LoopStep, Open
<1>3. [NextOpen]_vars => [Next]_vars
  BY DEF NextOpen, Next
<1>4. ASSUME EndInv, Open PROVE SingleSentinel
  <2> SUFFICES ASSUME NEW d \in Steps, NEW u \in Upstream[d]
               PROVE  LET q == queue[<<u, d>>]
                          marks == {j \in DOMAIN q : q[j] = DONE}
                      IN /\ Cardinality(marks) <= 1
                         /\ ~IsMerge(d) /\ SawDone(u, d) => marks = {}
    BY DEF SingleSentinel
  <2> DEFINE q == queue[<<u, d>>]
             marks == {j \in DOMAIN q : q[j] = DONE}
  <2>1. EdgeEnds(u, d) /\ EdgeOK(u, d)
    BY <1>4 DEF EndInv, FlowEnds, DeliveryInv
  <2>2. q \in Seq({DONE} \cup Ordinals)
    BY <1>4, EdgeType DEF EndInv, FlowEnds, DeliveryInv, TypeInv, TypeOK
  <2>3. DOMAIN q = 1 .. Len(q)
    BY <2>2
  <2>4. \A j, k \in marks : j = k
    BY <2>1, <2>3 DEF EdgeOK, Distinct, NoRepeat
  <2>5. ~IsMerge(d) /\ SawDone(u, d) => marks = {}
    BY <1>4, <2>1, <2>3 DEF EdgeEnds, InQueue, Has
  <2> HIDE DEF marks
  <2>6. marks = {} \/ \E j : marks = {j}
    BY <2>4
  <2>7. Cardinality(marks) <= 1
    <3>1. \A n : n = 0 \/ n = 1 => n <= 1
      OBVIOUS
    <3>2. Cardinality(marks) = 0 \/ Cardinality(marks) = 1
      BY <2>6, FS_EmptySet, FS_Singleton, Zenon
    <3> QED BY <3>1, <3>2, Zenon
  <2> QED BY <2>5, <2>7 DEF marks
<1> QED BY <1>1, <1>2, <1>3, <1>4, InitEnd, NextEnd, PTL DEF OpenSpec

(* The second cancellation of a close leaves no invocation in flight.       *)
StruckInv == EndInv /\ (cancels > 0 => ~Open /\ \A s \in Steps : Live(s) = {})

(* A task that moves is in flight. *)
LEMMA MoverIsLive ==
  ASSUME DeliveryInv, NEW s \in Steps, WorkerStep(s)
  PROVE  Live(s) # {}
<1>1. ASSUME NEW i \in Slots(s),
             Begin(s, i) \/ Emit(s, i) \/ Put(s, i) \/ Return(s, i) \/ Raise(s, i)
      PROVE  i \in Live(s)
  BY <1>1 DEF Begin, Emit, Put, Return, Raise, Live
<1>2. ASSUME IsMerge(s), NEW u \in Upstream[s],
             MergeTake(s, u) \/ MergeTakeDone(s, u) \/ MergeKeyRaise(s, u)
      PROVE  u \in Live(s)
  BY <1>2 DEF MergeTake, MergeTakeDone, MergeKeyRaise, Live, Slots
<1> QED BY <1>1, <1>2 DEF WorkerStep

(* What a step does while the consumer closes the stream: nothing is taken  *)
(* in, and what is not in flight does not move.                             *)
LEMMA ClosingStep ==
  ASSUME EndInv, [Next]_vars, KeyRaises = {}, consumer = "closing"
  PROVE  /\ arrived' = arrived
         /\ \A s \in Steps : \A i \in Slots(s) :
              worker[s][i].pc = "idle" => worker'[s][i].pc = "idle"
         /\ (\A s \in Steps : Live(s) = {}) => worker' = worker
<1>1. /\ DeliveryInv /\ TypeOK
      /\ \A s \in Steps : runner[s] \in {"joining"} \cup Closing
      /\ \A s \in Steps : IsMerge(s) => Live(s) = {}
  BY DEF EndInv, FlowEnds, StepEnds, Open, DeliveryInv, TypeInv
<1>2. ASSUME NEW s \in Steps, RunnerStep(s)
      PROVE  UNCHANGED <<arrived, worker>>
  BY <1>1, <1>2 DEF RunnerStep, Start, Take, Acquire, Join, PutDone, mergeVars, Closing, Ended
<1>3. ASSUME NEW s \in Steps, NEW i \in Slots(s),
             Begin(s, i) \/ Emit(s, i) \/ Put(s, i) \/ Return(s, i) \/ Raise(s, i)
      PROVE  /\ arrived' = arrived /\ Live(s) # {}
             /\ \A t \in Steps : \A j \in Slots(t) :
                  worker[t][j].pc = "idle" => worker'[t][j].pc = "idle"
  <2>1. Live(s) # {}
    BY <1>1, <1>3, MoverIsLive DEF WorkerStep
  <2> QED BY <1>1, <1>3, <2>1, InvocationMoves
<1>4. ASSUME NEW s \in Steps, IsMerge(s), NEW u \in Upstream[s],
             MergeTake(s, u) \/ MergeTakeDone(s, u) \/ MergeKeyRaise(s, u)
      PROVE  FALSE
  <2>1. worker[s][u].pc = "taking" /\ u \in Slots(s)
    BY <1>4 DEF MergeTake, MergeTakeDone, MergeKeyRaise, Slots
  <2> QED BY <1>1, <1>4, <2>1 DEF Live
<1>5. ASSUME Close \/ CancelAgain
      PROVE  /\ arrived' = arrived
             /\ \A s \in Steps : \A i \in Slots(s) :
                  worker[s][i].pc = "idle" => worker'[s][i].pc = "idle"
             /\ (\A s \in Steps : Live(s) = {}) => worker' = worker
  <2>1. /\ arrived' = arrived
        /\ worker' = [s \in Steps |-> [i \in Slots(s) |->
             IF runner[s] = "joining" /\ i \in Live(s) THEN Stricken(worker[s][i])
             ELSE worker[s][i]]]
    BY <1>5 DEF Close, CancelAgain, CancelRunners, mergeVars
  <2>2. \A s \in Steps : \A i \in Slots(s) :
          worker[s][i].pc = "idle" => worker'[s][i].pc = "idle"
    BY <2>1 DEF Live
  <2>3. ASSUME \A s \in Steps : Live(s) = {} PROVE worker' = worker
    <3>1. \A s \in Steps : worker[s] = [i \in Slots(s) |-> worker[s][i]]
      BY <1>1 DEF TypeOK
    <3>2. \A s \in Steps : worker'[s] = worker[s]
      BY <2>1, <2>3, <3>1
    <3>3. worker = [s \in Steps |-> worker[s]]
      BY <1>1 DEF TypeOK
    <3> QED BY <2>1, <3>2, <3>3
  <2> QED BY <2>1, <2>2, <2>3
<1>6. CASE FinishPipeline \/ FinishClose \/ Stopped \/ UNCHANGED vars
  BY <1>6 DEF FinishPipeline, FinishClose, Stopped, vars, mergeVars
<1> QED BY <1>2, <1>3, <1>4, <1>5, <1>6 DEF Next, LoopStep, WorkerStep

LEMMA NextStruck ==
  ASSUME KeyRaises = {}, StruckInv, [Next]_vars
  PROVE  StruckInv'
<1>1. EndInv' /\ EndInv /\ TypeOK /\ cancels \in Nat
  <2>1. EndInv' /\ EndInv /\ TypeOK
    BY NextEnd DEF StruckInv, EndInv, FlowEnds, DeliveryInv, TypeInv
  <2>2. cancels \in 0 .. MaxCancels /\ MaxCancels \in Nat
    BY <2>1, LimitAssumption DEF TypeOK
  <2> QED BY <2>1, <2>2
<1>2. CASE CancelAgain
  <2>1. /\ consumer = "closing" /\ consumer' = "closing"
        /\ worker' = [s \in Steps |-> [i \in Slots(s) |->
             IF runner[s] = "joining" /\ i \in Live(s) THEN Stricken(worker[s][i])
             ELSE worker[s][i]]]
    BY <1>2 DEF CancelAgain, CancelRunners
  <2>2. ASSUME NEW s \in Steps PROVE Live(s)' = {}
    <3>1. runner[s] = "joining" \/ Live(s) = {}
      BY <1>1, <2>1 DEF EndInv, FlowEnds, StepEnds, Open
    <3>2. \A w : Stricken(w).pc \in {"over", "dropped"}
      BY StrickenType
    <3> QED BY <2>1, <3>1, <3>2 DEF Live
  <2>3. ~Open'
    BY <2>1 DEF Open
  <2> QED BY <1>1, <2>2, <2>3 DEF StruckInv
<1>3. CASE Close
  BY <1>1, <1>3 DEF Close, StruckInv, Open
<1>4. CASE ~CancelAgain /\ ~Close
  <2>1. cancels' = cancels /\ (~Open => ~Open')
    <3>1. ASSUME NEW s \in Steps, RunnerStep(s) PROVE UNCHANGED consumerVars
      BY <3>1 DEF RunnerStep, Start, Join, PutDone, Take, Acquire
    <3>2. ASSUME NEW s \in Steps, WorkerStep(s) PROVE UNCHANGED consumerVars
      BY <3>2 DEF WorkerStep, Begin, Emit, Put, Return, Raise, MergeTake, MergeTakeDone,
                  MergeKeyRaise
    <3>3. CASE FinishPipeline \/ FinishClose \/ Stopped \/ UNCHANGED vars
      BY <3>3 DEF FinishPipeline, FinishClose, Stopped, vars, consumerVars, Open
    <3> QED BY <1>4, <3>1, <3>2, <3>3 DEF Next, LoopStep, consumerVars, Open
  <2>2. ASSUME cancels' > 0 PROVE ~Open' /\ \A s \in Steps : Live(s)' = {}
    <3>1. ~Open /\ \A s \in Steps : Live(s) = {}
      BY <2>1, <2>2 DEF StruckInv
    <3>2. consumer \in {"closing", "closed"}
      BY <1>1, <3>1 DEF TypeOK, Open
    <3>3. worker' = worker
      <4>1. CASE consumer = "closing"
        BY <1>1, <3>1, <4>1, ClosingStep
      <4>2. CASE consumer = "closed"
        <5>1. \A s \in Steps : runner[s] \in {"joining"} \cup Closing
          BY <1>1, <3>1 DEF EndInv, FlowEnds, StepEnds
        <5>2. ASSUME NEW s \in Steps, RunnerStep(s) PROVE worker' = worker
          BY <5>1, <5>2 DEF RunnerStep, Start, Take, Acquire, Join, PutDone, Closing, Ended
        <5>3. ASSUME NEW s \in Steps, WorkerStep(s) PROVE worker' = worker
          BY <1>1, <3>1, <5>3, MoverIsLive DEF EndInv, FlowEnds
        <5>4. CASE FinishPipeline \/ FinishClose \/ Stopped \/ UNCHANGED vars
          BY <5>4 DEF FinishPipeline, FinishClose, Stopped, vars
        <5> QED BY <1>4, <5>2, <5>3, <5>4 DEF Next, LoopStep
      <4> QED BY <3>2, <4>1, <4>2
    <3> QED BY <2>1, <3>1, <3>3 DEF Live
  <2> QED BY <1>1, <2>2 DEF StruckInv
<1> QED BY <1>2, <1>3, <1>4

(* Once the consumer has left, no step of any DAG takes anything in, and    *)
(* once it was cancelled again no invocation moves, as long as no merge_key *)
(* function raises.                                                         *)
THEOREM ClosedTakesNothing ==
  ASSUME KeyRaises = {}
  PROVE  Spec => CloseStopsIntake
<1> DEFINE Nothing == consumer = "closing" =>
             /\ \A s \in Steps :
                  /\ arrived'[s] = arrived[s]
                  /\ \A i \in Slots(s) : worker[s][i].pc = "idle" => worker'[s][i].pc = "idle"
             /\ cancels > 0 => worker' = worker
<1>1. ASSUME StruckInv, [Next]_vars, consumer = "closing"
      PROVE  /\ arrived' = arrived
             /\ \A s \in Steps : \A i \in Slots(s) :
                  worker[s][i].pc = "idle" => worker'[s][i].pc = "idle"
             /\ cancels > 0 => worker' = worker
  BY <1>1, ClosingStep DEF StruckInv
<1>2. StruckInv /\ [Next]_vars => [Nothing]_vars
  BY <1>1
<1>3. Init => StruckInv
  BY InitEnd DEF Init, StruckInv
<1>4. Spec => [][Nothing]_vars
  BY <1>2, <1>3, NextStruck, PTL DEF Spec
<1> QED BY <1>4 DEF CloseStopsIntake

-----------------------------------------------------------------------------
(* The executor implements the event stream of JobStream.                  *)

(* The inputs a SINGLE has answered, or failed on. *)
Answered(s) == {n \in Ordinals : worker[s][n].pc \in {"putting", "over"}}

(* A SINGLE answers an input at most once, and what a merge works on has    *)
(* fired: its consume_source tasks are no invocations that are yet to begin. *)
AnswerInv ==
  /\ EndInv
  /\ AccountInv
  /\ \A s \in Steps : Kind[s] = "single" => Len(output[s]) <= Cardinality(Answered(s))
  /\ \A s \in Steps : IsMerge(s) =>
       \A u \in Slots(s) : /\ worker[s][u].pc # "created"
                           /\ worker[s][u].pc \in {"running", "putting"} => fired[s] # {}

LEMMA AnsweredType ==
  ASSUME NEW s \in Steps
  PROVE  /\ IsFiniteSet(Ordinals) /\ Answered(s) \subseteq Ordinals
         /\ IsFiniteSet(Answered(s)) /\ Cardinality(Answered(s)) \in Nat
<1>1. IsFiniteSet(Ordinals)
  BY LimitAssumption, FS_Interval DEF Ordinals
<1>2. Answered(s) \subseteq Ordinals
  BY DEF Answered
<1> QED BY <1>1, <1>2, FS_Subset, FS_CardinalityType

LEMMA InitAnswer == Init => AnswerInv
<1> SUFFICES ASSUME Init PROVE AnswerInv
  OBVIOUS
<1>1. ASSUME NEW s \in Steps PROVE Len(output[s]) <= Cardinality(Answered(s))
  <2>1. Len(output[s]) = 0
    BY DEF Init
  <2>2. Cardinality(Answered(s)) \in Nat
    BY AnsweredType
  <2> QED BY <2>1, <2>2
<1>2. \A s \in Steps : \A u \in Slots(s) : worker[s][u].pc = "idle"
  BY DEF Init, Idle, At
<1> QED BY <1>1, <1>2, InitEnd, InitAccount DEF AnswerInv

(* A step that produces nothing and takes nothing back. *)
LEMMA SameAnswers ==
  ASSUME AnswerInv, EndInv', AccountInv', NEW s \in Steps, output'[s] = output[s],
         \A n \in Slots(s) : worker[s][n].pc \in {"putting", "over"} =>
                               worker'[s][n].pc \in {"putting", "over"},
         Kind[s] = "single"
  PROVE  Len(output'[s]) <= Cardinality(Answered(s)')
<1>1. Slots(s) = Ordinals
  BY DEF Slots, IsMerge
<1>2. Answered(s) \subseteq Answered(s)' /\ Answered(s)' \subseteq Ordinals
  BY <1>1 DEF Answered
<1>3. IsFiniteSet(Answered(s)')
  BY <1>2, AnsweredType, FS_Subset
<1>4. /\ Cardinality(Answered(s)) <= Cardinality(Answered(s)')
      /\ Cardinality(Answered(s)) \in Nat /\ Cardinality(Answered(s)') \in Nat
  BY <1>2, <1>3, FS_Subset, FS_CardinalityType, AnsweredType
<1>5. Len(output[s]) \in Nat /\ Len(output[s]) <= Cardinality(Answered(s))
  BY DEF AnswerInv, EndInv, FlowEnds, DeliveryInv, TypeInv, TypeOK
<1> QED BY <1>4, <1>5

(* A SINGLE has an input it has not answered when it is asked. *)
LEMMA EmitAnswers ==
  ASSUME AnswerInv, NEW s \in Steps, NEW i \in Slots(s), Emit(s, i)
  PROVE  /\ \A t \in Steps : Len(output'[t]) = IF t = s THEN Len(output[s]) + 1
                                               ELSE Len(output[t])
         /\ Kind[s] = "single" => Len(output'[s]) <= Cardinality(Answered(s)')
<1>1. /\ DeliveryInv /\ TypeInv /\ TypeOK /\ worker[s][i].pc = "running"
      /\ Len(output[s]) < Yields[s] /\ worker[s][i] \in Worker
      /\ output' = [output EXCEPT ![s] = Append(@, OutKey(s, worker[s][i]))]
  BY DEF AnswerInv, EndInv, FlowEnds, DeliveryInv, TypeInv, TypeOK, Emit
<1>2. OutKey(s, worker[s][i]) \in Keys
  <2>1. worker[s][i].key \in Keys
    BY <1>1 DEF Worker
  <2>2. Yields[s] \in 0 .. MaxItems
    BY LimitAssumption
  <2>3. Len(output[s]) \in Nat
    BY <1>1 DEF TypeOK
  <2> QED BY <1>1, <2>1, <2>2, <2>3, LimitAssumption DEF OutKey, Keys
<1>3. /\ \A t \in Steps : Len(output'[t]) = IF t = s THEN Len(output[s]) + 1
                                            ELSE Len(output[t])
      /\ Len(output[s]) \in Nat
  BY <1>1, <1>2, OutputGrows
<1>4. ASSUME Kind[s] = "single"
      PROVE  Len(output'[s]) <= Cardinality(Answered(s)')
  <2>1. PICK w \in Worker :
          /\ (Kind[s] = "single" /\ worker[s][i].pc # "created") =>
               w.pc \in {"putting", "over"}
          /\ \A t \in Steps : \A j \in Slots(t) :
               worker'[t][j] = IF t = s /\ j = i THEN w ELSE worker[t][j]
    BY <1>1, InvocationMoves
  <2>2. Slots(s) = Ordinals
    BY <1>4 DEF Slots, IsMerge
  <2>3. Answered(s)' = Answered(s) \cup {i} /\ i \notin Answered(s)
    BY <1>1, <1>4, <2>1, <2>2 DEF Answered
  <2>4. Cardinality(Answered(s)') = Cardinality(Answered(s)) + 1
    BY <2>3, AnsweredType, FS_AddElement
  <2>5. Len(output[s]) <= Cardinality(Answered(s)) /\ Cardinality(Answered(s)) \in Nat
    BY <1>4, AnsweredType DEF AnswerInv
  <2> QED BY <1>3, <2>4, <2>5
<1> QED BY <1>3, <1>4

LEMMA NextAnswer == AnswerInv /\ [Next]_vars => AnswerInv'
<1> SUFFICES ASSUME AnswerInv, [Next]_vars PROVE AnswerInv'
  OBVIOUS
<1>1. EndInv' /\ AccountInv' /\ DeliveryInv /\ TypeOK
  BY NextEnd, NextAccount DEF AnswerInv, EndInv, FlowEnds, DeliveryInv, TypeInv
<1> DEFINE Single(s) == Kind[s] = "single" => Len(output'[s]) <= Cardinality(Answered(s)')
           Fires(s) == IsMerge(s) =>
             \A u \in Slots(s) :
               /\ worker'[s][u].pc # "created"
               /\ worker'[s][u].pc \in {"running", "putting"} => fired'[s] # {}
<1>2. ASSUME output' = output,
             \A t \in Steps : \A n \in Slots(t) :
               \/ worker'[t][n] = worker[t][n]
               \/ ~IsMerge(t) /\ worker[t][n].pc = "idle"
               \/ worker'[t][n].pc \in {"taking", "over"} /\ IsMerge(t)
               \/ worker'[t][n].pc = "over"
               \/ worker'[t][n].pc = "dropped" /\ worker[t][n].pc = "created",
             \A t \in Steps : fired[t] # {} => fired'[t] # {}
      PROVE  \A t \in Steps : Single(t) /\ Fires(t)
  <2> TAKE t \in Steps
  <2>1. Single(t)
    <3> SUFFICES ASSUME Kind[t] = "single"
                 PROVE  Len(output'[t]) <= Cardinality(Answered(t)')
      OBVIOUS
    <3>1. ~IsMerge(t)
      BY DEF IsMerge
    <3>2. \A n \in Slots(t) : worker[t][n].pc \in {"putting", "over"} =>
                                worker'[t][n].pc \in {"putting", "over"}
      BY <1>2, <3>1
    <3> QED BY <1>1, <1>2, <3>2, SameAnswers
  <2>2. Fires(t)
    BY <1>2 DEF AnswerInv
  <2> QED BY <2>1, <2>2
<1>3. ASSUME NEW s \in Steps, RunnerStep(s) PROVE \A t \in Steps : Single(t) /\ Fires(t)
  <2>1. CASE Start(s) \/ Join(s) \/ PutDone(s)
    <3>1. /\ output' = output /\ fired' = fired
          /\ \/ worker' = [worker EXCEPT ![s] = [i \in Slots(s) |-> Taking]] /\ IsMerge(s)
             \/ worker' = [worker EXCEPT ![s] = worker[s]]
             \/ worker' = worker
      BY <2>1 DEF Start, Join, PutDone, mergeVars
    <3>2. Taking.pc = "taking" /\ worker = [t \in Steps |-> worker[t]]
      BY <1>1 DEF TypeOK, Taking, At
    <3>3. \A t \in Steps : \A n \in Slots(t) :
            \/ worker'[t][n] = worker[t][n]
            \/ worker'[t][n].pc = "taking" /\ IsMerge(t)
      BY <3>1, <3>2
    <3> QED BY <1>2, <3>1, <3>3
  <2>2. ASSUME NEW u \in Upstream[s], ~IsMerge(s), Take(s, u) \/ Acquire(s, u)
        PROVE  \A t \in Steps : Single(t) /\ Fires(t)
    <3>1. /\ output' = output
          /\ \A t \in Steps : \A i \in Slots(t) :
               worker'[t][i] = worker[t][i] \/ (t = s /\ worker[t][i].pc = "idle")
      BY <1>1, <2>2, TakeMoves, ZenonT(40)
    <3>2. fired' = fired
      BY <2>2 DEF Take, Acquire, mergeVars
    <3> QED BY <1>2, <2>2, <3>1, <3>2
  <2> QED BY <1>3, <2>1, <2>2 DEF RunnerStep
<1>4. ASSUME NEW s \in Steps, NEW i \in Slots(s),
             Begin(s, i) \/ Emit(s, i) \/ Put(s, i) \/ Return(s, i) \/ Raise(s, i)
      PROVE  \A t \in Steps : Single(t) /\ Fires(t)
  <2>1. PICK w \in Worker :
          /\ worker[s][i].pc \in {"created", "running", "putting"}
          /\ w.pc # "created"
          /\ (Kind[s] = "single" /\ worker[s][i].pc # "created") =>
               w.pc \in {"putting", "over"}
          /\ \A t \in Steps : \A j \in Slots(t) :
               worker'[t][j] = IF t = s /\ j = i THEN w ELSE worker[t][j]
          /\ fired' = fired
    BY <1>1, <1>4, InvocationMoves
  <2>2. \A t \in Steps : Fires(t)
    BY <2>1 DEF AnswerInv
  <2>3. ASSUME NEW t \in Steps, Kind[t] = "single"
        PROVE  Len(output'[t]) <= Cardinality(Answered(t)')
    <3>1. \A n \in Slots(t) : worker[t][n].pc \in {"putting", "over"} =>
                                worker'[t][n].pc \in {"putting", "over"}
      BY <2>1, <2>3
    <3>2. CASE Emit(s, i) /\ t = s
      BY <2>3, <3>2, EmitAnswers
    <3>3. CASE ~(Emit(s, i) /\ t = s)
      <4>1. output'[t] = output[t]
        BY <1>1, <1>4, <3>3 DEF Begin, Emit, Put, Return, Raise, TypeOK
      <4> QED BY <1>1, <2>3, <3>1, <4>1, SameAnswers
    <3> QED BY <3>2, <3>3
  <2> QED BY <2>2, <2>3
<1>5. ASSUME NEW s \in Steps, IsMerge(s), NEW u \in Upstream[s],
             MergeTake(s, u) \/ MergeTakeDone(s, u) \/ MergeKeyRaise(s, u)
      PROVE  \A t \in Steps : Single(t) /\ Fires(t)
  <2>1. /\ output' = output
        /\ \A t \in Steps : \A j \in Slots(t) :
              \/ worker'[t][j] = worker[t][j]
              \/ t = s /\ j = u /\ worker'[t][j].pc = "running" /\ fired'[s] # {}
              \/ t = s /\ j = u /\ worker'[t][j].pc = "over"
    <3>1. DeliveryInv
      BY <1>1
    <3>2. output' = output
      BY <1>5, <3>1, MergeMoves
    <3>3. \A t \in Steps : \A j \in Slots(t) :
              \/ worker'[t][j] = worker[t][j]
              \/ t = s /\ j = u /\ worker'[t][j].pc = "running" /\ fired'[s] # {}
              \/ /\ t = s /\ j = u /\ worker'[t][j].pc = "over"
                 /\ Head(queue[<<u, s>>]) = DONE \/ KeyRaises # {}
      BY <1>5, <3>1, MergeMoves
    <3> QED BY <3>2, <3>3
  <2>2. \A t \in Steps : fired[t] # {} => fired'[t] # {}
    <3>1. CASE MergeTake(s, u)
      <4>1. PICK x : fired' = [fired EXCEPT ![s] = fired[s] \cup x] \/ fired' = fired
        BY <1>1, <1>5, <3>1, MergeTakeBuckets
      <4>2. fired = [t \in Steps |-> fired[t]]
        BY <1>1 DEF TypeOK
      <4> QED BY <4>1, <4>2
    <3>2. CASE MergeTakeDone(s, u) \/ MergeKeyRaise(s, u)
      BY <3>2 DEF MergeTakeDone, MergeKeyRaise, mergeVars
    <3> QED BY <1>5, <3>1, <3>2
  <2> TAKE t \in Steps
  <2>3. Fires(t)
    BY <2>1, <2>2 DEF AnswerInv
  <2>4. ASSUME Kind[t] = "single" PROVE Len(output'[t]) <= Cardinality(Answered(t)')
    <3>1. t # s
      BY <1>5, <2>4 DEF IsMerge
    <3>2. \A n \in Slots(t) : worker'[t][n] = worker[t][n]
      BY <2>1, <3>1
    <3> QED BY <1>1, <2>1, <2>4, <3>2, SameAnswers
  <2> QED BY <2>3, <2>4
<1>6. ASSUME FinishPipeline \/ FinishClose \/ Close \/ CancelAgain \/ Stopped
               \/ UNCHANGED vars
      PROVE  \A t \in Steps : Single(t) /\ Fires(t)
  <2>1. output' = output /\ fired' = fired
    BY <1>6 DEF FinishPipeline, FinishClose, Close, CancelAgain, Stopped, CancelRunners,
                vars, mergeVars
  <2>2. \A t \in Steps : \A n \in Slots(t) :
          \/ worker'[t][n] = worker[t][n]
          \/ worker'[t][n].pc = "over"
          \/ worker'[t][n].pc = "dropped" /\ worker[t][n].pc = "created"
    <3>1. \A w : \/ Stricken(w).pc = "over"
                 \/ Stricken(w).pc = "dropped" /\ w.pc = "created"
      BY StrickenType
    <3> QED BY <1>6, <3>1 DEF FinishPipeline, FinishClose, Close, CancelAgain, Stopped,
                              CancelRunners, vars
  <2> QED BY <1>2, <2>1, <2>2
<1> HIDE DEF Single, Fires
<1>7. \A t \in Steps : Single(t) /\ Fires(t)
  <2>1. ASSUME NEW s \in Steps, WorkerStep(s) PROVE \A t \in Steps : Single(t) /\ Fires(t)
    BY <1>4, <1>5, <2>1 DEF WorkerStep
  <2> QED BY <1>3, <1>6, <2>1 DEF Next, LoopStep
<1> QED BY <1>1, <1>7 DEF AnswerInv, Single, Fires

(* The abstract state of a step, and of the stream. *)
LEMMA PhaseCases ==
  ASSUME TypeOK, NEW s \in Steps
  PROVE  /\ Phase[s] = "waiting" <=> runner[s] = "created"
         /\ Phase[s] = "producing" <=> runner[s] \in {"receiving", "acquiring", "joining"}
         /\ Phase[s] = "ended" <=> runner[s] \in Closing
         /\ Phase[s] \in {"waiting", "producing", "ended"}
BY DEF TypeOK, Phase, Closing, Ended

LEMMA StreamCases ==
  /\ StreamState = "open" <=> consumer = "reading"
  /\ Open => StreamState # "closed"
  /\ consumer \in {"closing", "closed"} => StreamState = "closed"
  /\ consumer = "complete" => StreamState = "complete"
BY DEF StreamState, Open

(* One runner moves. *)
LEMMA OnePhase ==
  ASSUME TypeOK, TypeOK', NEW s \in Steps, runner[s] # "done",
         \A t \in Steps \ {s} : runner'[t] = runner[t]
  PROVE  /\ Phase' = [Phase EXCEPT ![s] = Phase'[s]]
         /\ Announced' = IF runner'[s] = "done" THEN Announced \cup {s} ELSE Announced
<1>1. \A t \in Steps \ {s} : Phase'[t] = Phase[t]
  BY DEF Phase
<1>2. Phase = [t \in Steps |-> Phase[t]] /\ Phase' = [t \in Steps |-> Phase'[t]]
  BY DEF Phase
<1>3. Phase' = [Phase EXCEPT ![s] = Phase'[s]]
  BY <1>1, <1>2
<1>4. \A t \in Steps \ {s} : t \in Announced' <=> t \in Announced
  BY DEF Announced
<1>5. Announced \subseteq Steps /\ Announced' \subseteq Steps
  BY DEF Announced
<1>6. s \notin Announced /\ (s \in Announced' <=> runner'[s] = "done")
  BY DEF Announced
<1> QED BY <1>3, <1>4, <1>5, <1>6

LEMMA RunnerImplements ==
  ASSUME AnswerInv, TypeOK', KeyRaises = {}, NEW s \in Steps, RunnerStep(s)
  PROVE  [Stream!Next]_(Stream!vars)
<1>1. EndInv /\ DeliveryInv /\ TypeOK
  BY DEF AnswerInv, EndInv, FlowEnds, DeliveryInv, TypeInv
<1>2. CASE Start(s)
  <2>1. /\ runner[s] = "created" /\ runner'[s] \in {"joining", "receiving"}
        /\ \A t \in Steps \ {s} : runner'[t] = runner[t]
        /\ UNCHANGED <<output, failed, consumer>>
    BY <1>1, <1>2 DEF Start, consumerVars, TypeOK
  <2>2. Phase[s] = "waiting" /\ Phase'[s] = "producing"
    BY <1>1, <2>1, PhaseCases DEF Phase
  <2>3. Phase' = [Phase EXCEPT ![s] = "producing"] /\ Announced' = Announced
    BY <1>1, <2>1, <2>2, OnePhase
  <2>4. Outputs' = Outputs /\ StreamState' = StreamState
    BY <2>1 DEF Outputs, StreamState
  <2>5. Stream!Start(s)
    BY <2>1, <2>2, <2>3, <2>4 DEF Stream!Start
  <2> QED BY <2>5 DEF Stream!Next
<1>3. CASE Join(s)
  <2>1. /\ runner[s] = "joining" /\ Live(s) = {} /\ BeginClosing(s)
        /\ failed' \in {failed, failed \cup {s}}
        /\ UNCHANGED <<output, consumer>>
    BY <1>3 DEF Join, Drained, consumerVars
  <2>2. /\ runner'[s] \in {"closing", "done"}
        /\ \A t \in Steps \ {s} : runner'[t] = runner[t]
    BY <1>1, <2>1, BeginClosingMoves DEF DeliveryInv
  <2>3. Phase[s] = "producing" /\ Phase'[s] = "ended"
    BY <1>1, <2>1, <2>2, PhaseCases DEF Phase
  <2>4. Phase' = [Phase EXCEPT ![s] = "ended"] /\ Announced' \in {Announced, Announced \cup {s}}
    BY <1>1, <2>1, <2>2, <2>3, OnePhase
  <2>5. Outputs' = Outputs /\ StreamState' = StreamState
    BY <2>1 DEF Outputs, StreamState
  <2>6. ASSUME StreamState = "open", NEW u \in Sources[s] PROVE Phase[u] = "ended"
    <3>1. u \in Upstream[s] /\ u # Input /\ u \in Steps /\ Open
      BY <2>6, EdgeType, StreamCases DEF Sources, Open
    <3>2. SawDone(u, s)
      <4>1. CASE IsMerge(s)
        <5>1. u \in Slots(s) /\ worker[s][u].pc \notin {"idle", "dropped"}
          BY <1>1, <2>1, <3>1, <4>1 DEF EndInv, FlowEnds, StepEnds, Slots, Unbegun
        <5> QED BY <2>1, <4>1, <5>1 DEF SawDone, Live
      <4>2. CASE ~IsMerge(s)
        BY <2>1, <4>2 DEF SawDone
      <4> QED BY <4>1, <4>2
    <3>3. runner[u] \in Closing
      BY <1>1, <3>1, <3>2 DEF EndInv, FlowEnds, EdgeEnds
    <3> QED BY <1>1, <3>1, <3>3, PhaseCases
  <2>7. Stream!End(s)
    BY <2>1, <2>3, <2>4, <2>5, <2>6 DEF Stream!End
  <2> QED BY <2>7 DEF Stream!Next
<1>4. CASE PutDone(s)
  <2>1. /\ runner[s] = "closing" /\ runner'[s] \in {"closing", "done"}
        /\ \A t \in Steps \ {s} : runner'[t] = runner[t]
        /\ UNCHANGED <<output, failed, consumer>>
    BY <1>1, <1>4 DEF PutDone, consumerVars, TypeOK
  <2>2. Phase[s] = "ended" /\ Phase'[s] = "ended"
    BY <1>1, <2>1, PhaseCases DEF Phase, Closing
  <2>3. Phase' = Phase /\ Announced' \in {Announced, Announced \cup {s}}
    <3>1. Phase' = [Phase EXCEPT ![s] = Phase[s]]
      BY <1>1, <2>1, <2>2, OnePhase
    <3> QED BY <1>1, <2>1, <3>1, OnePhase DEF Phase
  <2>4. Outputs' = Outputs /\ StreamState' = StreamState
    BY <2>1 DEF Outputs, StreamState
  <2>5. Stream!Announce(s) \/ UNCHANGED Stream!vars
    BY <2>1, <2>2, <2>3, <2>4 DEF Stream!Announce, Stream!vars
  <2> QED BY <2>5 DEF Stream!Next
<1>5. ASSUME NEW u \in Upstream[s], ~IsMerge(s), Take(s, u) \/ Acquire(s, u)
      PROVE  UNCHANGED Stream!vars
  <2>1. /\ runner[s] \in {"receiving", "acquiring"}
        /\ \A t \in Steps \ {s} : runner'[t] = runner[t]
        /\ runner'[s] \in {"receiving", "acquiring", "joining"}
        /\ UNCHANGED <<output, consumer>>
    BY <1>1, <1>5, TakeMoves
  <2>2. failed' = failed
    BY <1>5 DEF Take, Acquire
  <2>3. Phase'[s] = Phase[s]
    BY <2>1 DEF Phase
  <2>4. Phase' = [Phase EXCEPT ![s] = Phase[s]] /\ Announced' = Announced
    BY <1>1, <2>1, <2>3, OnePhase
  <2>5. Phase' = Phase
    BY <2>4 DEF Phase
  <2>6. Outputs' = Outputs /\ StreamState' = StreamState
    BY <2>1 DEF Outputs, StreamState
  <2> QED BY <2>2, <2>4, <2>5, <2>6 DEF Stream!vars
<1> QED BY <1>2, <1>3, <1>4, <1>5 DEF RunnerStep

(* An invocation that may produce has an input of every source. *)
LEMMA Fed ==
  ASSUME AnswerInv, NEW s \in Steps, NEW i \in Slots(s), worker[s][i].pc = "running"
  PROVE  Stream!HasInput(s)
<1>1. /\ DeliveryInv /\ TypeInv /\ TypeOK
      /\ Sources[s] = Upstream[s] \ {Input}
  BY DEF AnswerInv, EndInv, FlowEnds, DeliveryInv, TypeInv, Sources
<1>2. ASSUME NEW u \in Sources[s]
      PROVE  u \in Steps /\ u \in Upstream[s] /\ Produced(u) = Outputs[u] /\ Outputs[u] \in Nat
  <2>1. u \in Upstream[s] /\ u # Input /\ u \in Steps
    BY <1>1, <1>2, EdgeType
  <2> QED BY <1>1, <2>1 DEF Produced, Outputs, TypeOK
<1>3. CASE IsMerge(s)
  <2>1. PICK f \in fired[s] : TRUE
    BY <1>3 DEF AnswerInv
  <2>2. ASSUME NEW u \in Sources[s] PROVE Outputs[u] > 0
    <3>1. u \in Upstream[s]
      BY <1>1, <2>2
    <3>2. /\ f.vals[u] \in Ordinals
          /\ [key |-> f.key, src |-> u, n |-> f.vals[u]] \in arrived[s]
      BY <1>1, <1>3, <3>1 DEF AnswerInv, AccountInv, BucketsOK, TypeOK
    <3>3. Taken(u, s, f.vals[u])
      BY <1>3, <3>2 DEF Taken
    <3>4. f.vals[u] <= Produced(u)
      BY <1>1, <3>1, <3>2, <3>3 DEF DeliveryInv, EdgeOK
    <3> QED BY <1>2, <2>2, <3>2, <3>4 DEF Ordinals
  <2> QED BY <1>3, <2>2 DEF Stream!HasInput, IsMerge
<1>4. CASE ~IsMerge(s)
  <2>1. i \in Ordinals /\ Slots(s) = Ordinals
    BY <1>4 DEF Slots
  <2>2. \A n \in Ordinals : worker[s][n].pc # "idle" =>
          \A u \in Upstream[s] : n <= Produced(u)
    BY <1>1, <1>4 DEF DeliveryInv, EdgeOK, Taken
  <2>3. ASSUME NEW u \in Sources[s] PROVE Outputs[u] > 0
    <3>1. i <= Outputs[u]
      BY <1>1, <1>2, <2>1, <2>2, <2>3
    <3> QED BY <1>2, <2>1, <2>3, <3>1 DEF Ordinals
  <2>4. ASSUME Kind[s] = "single", NEW k \in Nat, \A u \in Upstream[s] : Produced(u) = k
        PROVE  Len(output[s]) < k
    <3>1. PICK u \in Upstream[s] : TRUE
      BY <1>4, TopologyAssumption DEF IsMerge
    <3>2. Answered(s) \subseteq (1 .. k) \ {i} /\ i \in 1 .. k
      <4>1. \A n \in Ordinals : worker[s][n].pc # "idle" => n <= k
        BY <2>2, <2>4, <3>1
      <4>2. \A n \in Ordinals : n <= k => n \in 1 .. k
        BY <2>4 DEF Ordinals
      <4> QED BY <2>1, <4>1, <4>2 DEF Answered
    <3>3. IsFiniteSet(1 .. k) /\ Cardinality(1 .. k) = k
      BY <2>4, FS_Interval
    <3>4. IsFiniteSet((1 .. k) \ {i}) /\ Cardinality((1 .. k) \ {i}) = k - 1
      BY <3>2, <3>3, FS_RemoveElement
    <3>5. Cardinality(Answered(s)) <= k - 1
      BY <3>2, <3>4, FS_Subset
    <3>6. /\ Len(output[s]) <= Cardinality(Answered(s))
          /\ Len(output[s]) \in Nat /\ Cardinality(Answered(s)) \in Nat
      BY <1>1, <2>4, AnsweredType DEF AnswerInv, TypeOK
    <3> QED BY <2>4, <3>5, <3>6
  <2>5. ASSUME Kind[s] = "single"
        PROVE  /\ \A u \in Sources[s] : Outputs[s] < Outputs[u]
               /\ Sources[s] = {} => Outputs[s] = 0
    <3>1. PICK u \in Upstream[s] : Upstream[s] = {u}
      BY <1>4, TopologyAssumption DEF IsMerge
    <3>2. Outputs[s] = Len(output[s]) /\ Len(output[s]) \in Nat
      BY <1>1 DEF Outputs, TypeOK
    <3>3. CASE u = Input
      <4>1. Produced(u) = 1
        BY <3>3 DEF Produced
      <4>2. Len(output[s]) < 1
        BY <2>4, <2>5, <3>1, <4>1
      <4> QED BY <1>1, <3>1, <3>2, <3>3, <4>2
    <3>4. CASE u # Input
      <4>1. Sources[s] = {u}
        BY <1>1, <3>1, <3>4
      <4>2. Produced(u) = Outputs[u] /\ Outputs[u] \in Nat
        BY <1>2, <4>1
      <4>3. Len(output[s]) < Outputs[u]
        BY <2>4, <2>5, <3>1, <4>2
      <4> QED BY <3>2, <4>1, <4>3
    <3> QED BY <3>3, <3>4
  <2> QED BY <2>3, <2>5 DEF Stream!HasInput
<1> QED BY <1>3, <1>4

LEMMA SamePhases ==
  ASSUME UNCHANGED <<runner, consumer>>
  PROVE  UNCHANGED <<Phase, Announced, StreamState>>
BY DEF Phase, Announced, StreamState

LEMMA InvocationImplements ==
  ASSUME AnswerInv, KeyRaises = {}, NEW s \in Steps, NEW i \in Slots(s),
         Begin(s, i) \/ Emit(s, i) \/ Put(s, i) \/ Return(s, i) \/ Raise(s, i)
  PROVE  [Stream!Next]_(Stream!vars)
<1>1. EndInv /\ DeliveryInv /\ TypeOK /\ StepOK(s) /\ StepEnds(s)
  BY DEF AnswerInv, EndInv, FlowEnds, DeliveryInv, TypeInv
<1>2. UNCHANGED <<Phase, Announced, StreamState>>
  <2>1. UNCHANGED <<runner, consumer>>
    BY <1>1, InvocationMoves
  <2> QED BY <2>1, SamePhases
<1>3. Phase[s] = "producing"
  <2>1. worker[s][i].pc \in {"created", "running", "putting"}
    BY <1>1, InvocationMoves
  <2>2. runner[s] # "created" /\ runner[s] \notin Closing
    BY <1>1, <2>1 DEF StepOK, StepEnds, Live
  <2> QED BY <1>1, <2>2, PhaseCases
<1>4. CASE Emit(s, i)
  <2>1. worker[s][i].pc = "running" /\ failed' = failed
    BY <1>4 DEF Emit
  <2>2. \A t \in Steps : Len(output'[t]) = IF t = s THEN Len(output[s]) + 1
                                           ELSE Len(output[t])
    BY <1>4, EmitAnswers
  <2>3. Outputs' = [Outputs EXCEPT ![s] = @ + 1]
    BY <2>2 DEF Outputs
  <2>4. Stream!Produce(s)
    BY <1>2, <1>3, <2>1, <2>3, Fed DEF Stream!Produce
  <2> QED BY <2>4 DEF Stream!Next
<1>5. CASE Begin(s, i) \/ Put(s, i) \/ Return(s, i)
  <2>1. output' = output /\ failed' = failed
    BY <1>5 DEF Begin, Put, Return
  <2>2. Outputs' = Outputs
    BY <2>1 DEF Outputs
  <2> QED BY <1>2, <2>1, <2>2 DEF Stream!vars
<1>6. CASE Raise(s, i)
  <2>1. output' = output /\ failed' = failed \cup {s}
    BY <1>6 DEF Raise
  <2>2. Outputs' = Outputs
    BY <2>1 DEF Outputs
  <2>3. Stream!Fail(s)
    BY <1>2, <1>3, <2>1, <2>2 DEF Stream!Fail
  <2> QED BY <2>3 DEF Stream!Next
<1> QED BY <1>4, <1>5, <1>6

LEMMA ConsumerImplements ==
  ASSUME AnswerInv, AnswerInv', KeyRaises = {},
         FinishPipeline \/ FinishClose \/ Close \/ CancelAgain \/ Stopped \/ UNCHANGED vars
  PROVE  [Stream!Next]_(Stream!vars)
<1>1. EndInv /\ EndInv' /\ TypeOK /\ TypeOK'
  BY DEF AnswerInv, EndInv, FlowEnds, DeliveryInv, TypeInv
<1>2. output' = output /\ failed' = failed
  BY DEF FinishPipeline, FinishClose, Close, CancelAgain, Stopped, CancelRunners, vars,
         mergeVars
<1>3. Outputs' = Outputs
  BY <1>2 DEF Outputs
<1>4. CASE FinishPipeline
  <2>1. consumer = "reading" /\ consumer' = "complete" /\ AllEnded /\ runner' = runner
    BY <1>4 DEF FinishPipeline
  <2>2. \A s \in Steps : runner[s] = "done"
    BY <1>1, <2>1 DEF EndInv, FlowEnds, StepEnds, AllEnded, Ended, Open
  <2>3. Announced = Steps /\ Announced' = Announced /\ Phase' = Phase
    BY <2>1, <2>2 DEF Announced, Phase
  <2>4. StreamState = "open" /\ StreamState' = "complete"
    BY <2>1 DEF StreamState
  <2>5. Stream!Complete
    BY <1>2, <1>3, <2>3, <2>4 DEF Stream!Complete
  <2> QED BY <2>5 DEF Stream!Next
<1>5. CASE FinishClose
  <2>1. consumer = "closing" /\ consumer' = "closed" /\ runner' = runner
    BY <1>5 DEF FinishClose
  <2>2. Announced' = Announced /\ Phase' = Phase
    BY <2>1 DEF Announced, Phase
  <2>3. StreamState = "closed" /\ StreamState' = "closed"
    BY <2>1 DEF StreamState
  <2> QED BY <1>2, <1>3, <2>2, <2>3 DEF Stream!vars
<1>6. CASE CancelAgain
  <2>1. /\ consumer = "closing" /\ consumer' = consumer
        /\ \A s \in Steps : runner'[s] = AfterCancel(s)
    BY <1>6 DEF CancelAgain, CancelRunners
  <2>2. ASSUME NEW s \in Steps
        PROVE  Phase'[s] = Phase[s] /\ (runner'[s] = "done" <=> runner[s] = "done")
    <3>1. /\ runner[s] \in {"joining"} \cup Closing
          /\ IsMerge(s) => runner[s] \in Closing
      BY <1>1, <2>1 DEF EndInv, FlowEnds, StepEnds, Open
    <3>2. \/ runner[s] = "joining" /\ runner'[s] = "joining"
          \/ runner[s] = "closing" /\ runner'[s] = "cancelled"
          \/ runner[s] \in {"done", "cancelled"} /\ runner'[s] = runner[s]
      BY <2>1, <3>1 DEF AfterCancel, Closing, Ended
    <3> QED BY <3>2 DEF Phase
  <2>3. Announced' = Announced
    BY <2>2 DEF Announced
  <2>4. Phase' = Phase
    BY <2>2 DEF Phase
  <2>5. StreamState' = StreamState
    BY <2>1 DEF StreamState
  <2> QED BY <1>2, <1>3, <2>3, <2>4, <2>5 DEF Stream!vars
<1>7. CASE Close
  <2>1. /\ consumer = "reading" /\ consumer' = "closing"
        /\ \A s \in Steps : runner'[s] = AfterCancel(s) /\ runner[s] # "created"
    BY <1>7 DEF Close, CancelRunners
  <2> DEFINE cut == {s \in Steps : Phase[s] = "producing" /\ Phase'[s] = "ended"}
             told == {s \in cut : runner'[s] = "done"}
  <2>2. ASSUME NEW s \in Steps
        PROVE  /\ Phase'[s] = IF s \in cut THEN "ended" ELSE Phase[s]
               /\ runner'[s] = "done" <=> runner[s] = "done" \/ s \in told
    <3>1. \/ runner[s] \in {"receiving", "acquiring", "joining"} /\ runner'[s] = "joining"
          \/ runner[s] = "joining" /\ runner'[s] \in {"closing", "done"}
          \/ runner[s] = "closing" /\ runner'[s] = "cancelled"
          \/ runner[s] \in {"done", "cancelled"} /\ runner'[s] = runner[s]
      <4>1. runner[s] \in {"receiving", "acquiring", "joining", "closing", "done", "cancelled"}
        BY <1>1, <2>1 DEF TypeOK, Ended
      <4> QED BY <2>1, <4>1 DEF AfterCancel
    <3> QED BY <3>1 DEF Phase
  <2>3. cut \in SUBSET {s \in Steps : Phase[s] = "producing"} /\ told \in SUBSET cut
    OBVIOUS
  <2>4. Phase' = [s \in Steps |-> IF s \in cut THEN "ended" ELSE Phase[s]]
    <3>1. Phase' = [s \in Steps |-> Phase'[s]]
      BY DEF Phase
    <3> HIDE DEF cut
    <3> QED BY <2>2, <3>1
  <2>5. Announced' = Announced \cup told
    BY <2>2 DEF Announced
  <2>6. StreamState = "open" /\ StreamState' = "closed"
    BY <2>1 DEF StreamState
  <2> HIDE DEF cut, told
  <2>7. Announced' \in {Announced \cup c : c \in SUBSET cut}
    BY <2>3, <2>5
  <2>8. Stream!Close
    BY <1>2, <1>3, <2>3, <2>4, <2>6, <2>7 DEF Stream!Close
  <2> QED BY <2>8 DEF Stream!Next
<1>8. CASE Stopped \/ UNCHANGED vars
  <2>1. UNCHANGED <<runner, consumer>>
    BY <1>8 DEF Stopped, vars, consumerVars
  <2> QED BY <1>2, <1>3, <2>1, SamePhases DEF Stream!vars
<1> QED BY <1>4, <1>5, <1>6, <1>7, <1>8

(* The executor is an implementation of the abstract event stream: as long  *)
(* as no merge_key function raises, the consumer of a run of any DAG sees a *)
(* behaviour of JobStream, also when it leaves before the end.              *)
THEOREM ExecutorImplementsStream ==
  ASSUME KeyRaises = {}
  PROVE  Spec => ImplementsJobStream
<1>1. Init => Stream!Init
  <2> SUFFICES ASSUME Init PROVE Stream!Init
    OBVIOUS
  <2>1. /\ \A s \in Steps : runner[s] = "created" /\ Len(output[s]) = 0
        /\ failed = {} /\ consumer = "reading"
    BY DEF Init
  <2>2. Phase = [s \in Steps |-> "waiting"]
    BY <2>1 DEF Phase
  <2>3. Outputs = [s \in Steps |-> 0] /\ Announced = {} /\ StreamState = "open"
    BY <2>1 DEF Outputs, Announced, StreamState
  <2> QED BY <2>1, <2>2, <2>3 DEF Stream!Init
<1>2. ASSUME AnswerInv, AnswerInv', [Next]_vars PROVE [Stream!Next]_(Stream!vars)
  <2>1. TypeOK'
    BY <1>2 DEF AnswerInv, EndInv, FlowEnds, DeliveryInv, TypeInv
  <2>2. ASSUME NEW s \in Steps, IsMerge(s), NEW u \in Upstream[s],
               MergeTake(s, u) \/ MergeTakeDone(s, u) \/ MergeKeyRaise(s, u)
        PROVE  UNCHANGED Stream!vars
    <3>1. UNCHANGED <<runner, output, failed, consumer>>
      BY <2>2 DEF MergeTake, MergeTakeDone, MergeKeyRaise, consumerVars
    <3>2. Outputs' = Outputs
      BY <3>1 DEF Outputs
    <3> QED BY <3>1, <3>2, SamePhases DEF Stream!vars
  <2>3. ASSUME NEW s \in Steps, WorkerStep(s) PROVE [Stream!Next]_(Stream!vars)
    BY <1>2, <2>2, <2>3, InvocationImplements DEF WorkerStep
  <2>4. ASSUME NEW s \in Steps, RunnerStep(s) PROVE [Stream!Next]_(Stream!vars)
    BY <1>2, <2>1, <2>4, RunnerImplements
  <2> QED BY <1>2, <2>3, <2>4, ConsumerImplements DEF Next, LoopStep
<1>3. Spec => Stream!Spec
  BY <1>1, <1>2, InitAnswer, NextAnswer, PTL DEF Spec, Stream!Spec
<1> QED BY <1>3 DEF ImplementsJobStream

-----------------------------------------------------------------------------
(* Backpressure. *)

QueuesBounded == \A e \in Edges : Len(queue[e]) <= QueueMax

LEMMA InitBounded == Init => QueuesBounded
<1> SUFFICES ASSUME Init, NEW e \in Edges PROVE Len(queue[e]) <= QueueMax
  BY DEF QueuesBounded
<1>1. queue[e] = IF e[1] = Input THEN <<1, DONE>> ELSE <<>>
  BY DEF Init
<1>2. QueueMax \in Nat /\ QueueMax >= 2
  BY LimitAssumption
<1>3. CASE e[1] = Input
  <2>1. Len(queue[e]) = 2
    BY <1>1, <1>3
  <2> QED BY <1>2, <2>1
<1>4. CASE e[1] # Input
  <2>1. Len(queue[e]) = 0
    BY <1>1, <1>4
  <2> QED BY <1>2, <2>1
<1> QED BY <1>3, <1>4

(* One item less, or one more where there was room. *)
LEMMA BoundedChange ==
  ASSUME TypeInv, QueuesBounded, NEW f \in Edges,
         \/ queue[f] # <<>> /\ queue' = [queue EXCEPT ![f] = Tail(queue[f])]
         \/ /\ Len(queue[f]) < QueueMax
            /\ \E x \in {DONE} \cup Ordinals :
                 queue' = [queue EXCEPT ![f] = Append(queue[f], x)]
  PROVE  QueuesBounded'
<1>1. queue \in [Edges -> Seq({DONE} \cup Ordinals)] /\ QueueMax \in Nat
  BY LimitAssumption DEF TypeInv, TypeOK
<1>2. \A e \in Edges : e # f => queue'[e] = queue[e]
  BY <1>1
<1>3. Len(queue'[f]) <= QueueMax
  <2>1. CASE queue[f] # <<>> /\ queue' = [queue EXCEPT ![f] = Tail(queue[f])]
    <3> DEFINE q == queue[f]
    <3>1. q \in Seq({DONE} \cup Ordinals) /\ q # <<>> /\ Len(q) <= QueueMax
      BY <1>1, <2>1 DEF QueuesBounded
    <3>2. queue'[f] = Tail(q)
      BY <1>1, <2>1
    <3> HIDE DEF q
    <3> QED BY <1>1, <3>1, <3>2
  <2>2. CASE /\ Len(queue[f]) < QueueMax
             /\ \E x \in {DONE} \cup Ordinals :
                  queue' = [queue EXCEPT ![f] = Append(queue[f], x)]
    <3> DEFINE q == queue[f]
    <3>1. PICK x \in {DONE} \cup Ordinals : queue' = [queue EXCEPT ![f] = Append(q, x)]
      BY <2>2
    <3>2. q \in Seq({DONE} \cup Ordinals) /\ Len(q) < QueueMax
      BY <1>1, <2>2
    <3>3. queue'[f] = Append(q, x)
      BY <1>1, <3>1
    <3> HIDE DEF q
    <3> QED BY <1>1, <3>1, <3>2, <3>3
  <2> QED BY <2>1, <2>2
<1> QED BY <1>2, <1>3 DEF QueuesBounded

LEMMA NextBounded == DeliveryInv /\ QueuesBounded /\ [Next]_vars => QueuesBounded'
<1> SUFFICES ASSUME DeliveryInv, QueuesBounded, [Next]_vars PROVE QueuesBounded'
  OBVIOUS
<1>1. TypeInv
  BY DEF DeliveryInv
<1>2. ASSUME queue' = queue PROVE QueuesBounded'
  BY <1>2 DEF QueuesBounded
<1>3. ASSUME NEW s \in Steps, RunnerStep(s) PROVE QueuesBounded'
  <2>1. CASE Start(s) \/ Join(s)
    BY <1>2, <2>1 DEF Start, Join
  <2>2. CASE PutDone(s)
    <3>1. PICK d \in owed[s] :
            /\ Len(queue[<<s, d>>]) < QueueMax
            /\ queue' = [queue EXCEPT ![<<s, d>>] = Append(queue[<<s, d>>], DONE)]
      BY <2>2 DEF PutDone
    <3>2. <<s, d>> \in Edges
      BY <1>1, DownstreamType DEF TypeInv, Travelling
    <3> QED BY <1>1, <3>1, <3>2, BoundedChange
  <2>3. CASE ~IsMerge(s) /\ \E u \in Upstream[s] : Take(s, u) \/ Acquire(s, u)
    <3>1. PICK u \in Upstream[s] : Take(s, u) \/ Acquire(s, u)
      BY <2>3
    <3>2. <<u, s>> \in Edges
      BY EdgeType
    <3>3. \/ queue' = queue
          \/ /\ queue[<<u, s>>] # <<>>
             /\ queue' = [queue EXCEPT ![<<u, s>>] = Tail(queue[<<u, s>>])]
      BY <3>1 DEF Take, Acquire
    <3> QED BY <1>1, <1>2, <3>2, <3>3, BoundedChange
  <2> QED BY <1>3, <2>1, <2>2, <2>3 DEF RunnerStep
<1>4. ASSUME NEW s \in Steps, WorkerStep(s) PROVE QueuesBounded'
  <2>1. ASSUME NEW i \in Slots(s),
               Begin(s, i) \/ Emit(s, i) \/ Put(s, i) \/ Return(s, i) \/ Raise(s, i)
        PROVE  QueuesBounded'
    <3>1. CASE Put(s, i)
      <4>1. PICK d \in worker[s][i].pend :
              /\ Len(queue[<<s, d>>]) < QueueMax
              /\ queue' = [queue EXCEPT ![<<s, d>>] =
                             Append(queue[<<s, d>>], worker[s][i].out)]
        BY <3>1 DEF Put
      <4>2. <<s, d>> \in Edges /\ worker[s][i].out \in Ordinals
        BY <1>1, <3>1, DownstreamType DEF Put, TypeInv, Travelling, DeliveryInv, StepOK
      <4> QED BY <1>1, <4>1, <4>2, BoundedChange
    <3>2. CASE Begin(s, i) \/ Emit(s, i) \/ Return(s, i) \/ Raise(s, i)
      BY <1>2, <3>2 DEF Begin, Emit, Return, Raise
    <3> QED BY <2>1, <3>1, <3>2
  <2>2. ASSUME NEW u \in Upstream[s],
               MergeTake(s, u) \/ MergeTakeDone(s, u) \/ MergeKeyRaise(s, u)
        PROVE  QueuesBounded'
    <3>1. /\ queue[<<u, s>>] # <<>>
          /\ queue' = [queue EXCEPT ![<<u, s>>] = Tail(queue[<<u, s>>])]
      BY <2>2 DEF MergeTake, MergeTakeDone, MergeKeyRaise
    <3>2. <<u, s>> \in Edges
      BY EdgeType
    <3> QED BY <1>1, <3>1, <3>2, BoundedChange
  <2> QED BY <1>4, <2>1, <2>2 DEF WorkerStep
<1>5. CASE FinishPipeline \/ FinishClose \/ Close \/ CancelAgain \/ Stopped \/ UNCHANGED vars
  BY <1>2, <1>5 DEF FinishPipeline, FinishClose, Close, CancelAgain, CancelRunners, Stopped,
                    vars
<1> QED BY <1>3, <1>4, <1>5 DEF Next, LoopStep

(* An invocation puts one output at a time. *)
LEMMA PendingCount ==
  ASSUME NEW u \in Steps, NEW d
  PROVE  /\ IsFiniteSet(Live(u)) /\ Cardinality(Live(u)) \in Nat
         /\ IsFiniteSet(Pending(u, d)) /\ Cardinality(Pending(u, d)) \in Nat
         /\ Cardinality(Pending(u, d)) <= Cardinality(Live(u))
<1>1. IsFiniteSet(Slots(u))
  <2>1. IsFiniteSet(Ordinals)
    BY FS_Interval, LimitAssumption DEF Ordinals
  <2>2. IsFiniteSet(Steps \cup {Input}) /\ Upstream[u] \subseteq Steps \cup {Input}
    BY FS_AddElement, StepsAssumption, TopologyAssumption
  <2>3. IsFiniteSet(Upstream[u])
    BY <2>2, FS_Subset
  <2> QED BY <2>1, <2>3 DEF Slots
<1>2. IsFiniteSet(Live(u)) /\ Cardinality(Live(u)) \in Nat
  <2>1. Live(u) \subseteq Slots(u)
    BY DEF Live
  <2> QED BY <1>1, <2>1, FS_Subset, FS_CardinalityType
<1> DEFINE I == {j \in Slots(u) : worker[u][j].pc = "putting" /\ d \in worker[u][j].pend}
           P == {worker[u][i].out : i \in I}
           f == [i \in I |-> worker[u][i].out]
<1>3. IsFiniteSet(I) /\ Cardinality(I) <= Cardinality(Live(u)) /\ Cardinality(I) \in Nat
  <2>1. I \subseteq Live(u)
    BY DEF Live
  <2> HIDE DEF I
  <2> QED BY <1>2, <2>1, FS_Subset, FS_CardinalityType
<1>4. P = Pending(u, d)
  BY DEF Pending
<1> HIDE DEF I
<1>5. f \in Surjection(I, P)
  BY DEF Surjection
<1> HIDE DEF f, P
<1>6. IsFiniteSet(P) /\ Cardinality(P) <= Cardinality(I) /\ Cardinality(P) \in Nat
  BY <1>3, <1>5, FS_Surjection, FS_CardinalityType
<1> QED BY <1>2, <1>3, <1>4, <1>6

LEMMA QueuedCount ==
  ASSUME TypeOK, QueuesBounded, NEW u, NEW d, <<u, d>> \in Edges
  PROVE  /\ IsFiniteSet(Queued(u, d)) /\ Cardinality(Queued(u, d)) \in Nat
         /\ Cardinality(Queued(u, d)) <= QueueMax
<1> DEFINE q == queue[<<u, d>>]
           S == {q[j] : j \in DOMAIN q}
<1>1. q \in Seq({DONE} \cup Ordinals) /\ Len(q) <= QueueMax /\ QueueMax \in Nat
  BY LimitAssumption DEF TypeOK, QueuesBounded
<1>2. Queued(u, d) \subseteq S
  BY DEF Queued
<1> HIDE DEF q
<1>3. DOMAIN q = 1 .. Len(q) /\ Len(q) \in Nat /\ q = [j \in DOMAIN q |-> q[j]]
  BY <1>1
<1>4. q \in Surjection(DOMAIN q, S)
  BY <1>3 DEF Surjection
<1>5. IsFiniteSet(DOMAIN q) /\ Cardinality(DOMAIN q) = Len(q)
  <2> DEFINE l == Len(q)
  <2>1. l \in Nat /\ DOMAIN q = 1 .. l
    BY <1>3
  <2> HIDE DEF l
  <2>2. IsFiniteSet(1 .. l) /\ Cardinality(1 .. l) = IF 1 > l THEN 0 ELSE l - 1 + 1
    BY <2>1, FS_Interval
  <2>3. Cardinality(1 .. l) = l
    BY <2>1, <2>2
  <2> QED BY <2>1, <2>2, <2>3 DEF l
<1> HIDE DEF S
<1>6. IsFiniteSet(S) /\ Cardinality(S) <= Len(q) /\ Cardinality(S) \in Nat
  BY <1>4, <1>5, FS_Surjection, FS_CardinalityType
<1>7. /\ IsFiniteSet(Queued(u, d)) /\ Cardinality(Queued(u, d)) \in Nat
      /\ Cardinality(Queued(u, d)) <= Cardinality(S)
  BY <1>2, <1>6, FS_Subset, FS_CardinalityType
<1> QED BY <1>1, <1>3, <1>6, <1>7

LEMMA UnionCount ==
  ASSUME NEW A, NEW B, IsFiniteSet(A), IsFiniteSet(B)
  PROVE  /\ IsFiniteSet(A \cup B) /\ Cardinality(A \cup B) \in Nat
         /\ Cardinality(A \cup B) <= Cardinality(A) + Cardinality(B)
<1>1. /\ IsFiniteSet(A \cup B)
      /\ Cardinality(A \cup B) = Cardinality(A) + Cardinality(B) - Cardinality(A \cap B)
  BY FS_Union
<1>2. IsFiniteSet(A \cap B)
  BY FS_Subset
<1>3. /\ Cardinality(A) \in Nat /\ Cardinality(B) \in Nat /\ Cardinality(A \cap B) \in Nat
      /\ Cardinality(A \cup B) \in Nat
  BY <1>1, <1>2, FS_CardinalityType
<1> QED BY <1>1, <1>3

(* As long as no merge_key function raises, a capped step holds back the    *)
(* step it reads from: what that one is ahead is bounded, in every DAG.     *)
THEOREM ProducersHeldBack ==
  ASSUME KeyRaises = {}
  PROVE  Spec => []Backpressure
<1>1. ASSUME DeliveryInv, QueuesBounded, PermitsInv PROVE Backpressure
  <2> SUFFICES ASSUME Open, NEW d \in Steps, MaxConc[d] > 0, NEW u \in Upstream[d] \ {Input}
               PROVE  Cardinality({n \in 1 .. Len(output[u]) : worker[d][n].pc # "over"})
                        <= QueueMax + MaxConc[d] + 1 + Cardinality(Live(u))
    BY DEF Backpressure
  <2> DEFINE S == {n \in 1 .. Len(output[u]) : worker[d][n].pc # "over"}
             P == Pending(u, d)
             Q == Queued(u, d)
             L == Holding(d)
             T == (P \cup Q) \cup (L \cup {held[d]})
  <2>1. /\ ~IsMerge(d) /\ Slots(d) = Ordinals /\ MaxConc[d] \in Nat
        /\ IsFiniteSet(L) /\ Cardinality(L) \in Nat
    BY HoldingType
  <2>2. u \in Steps /\ <<u, d>> \in Edges /\ TypeOK /\ ExactlyOnce
    BY <1>1, EdgeType, DeliveryImpliesExactlyOnce DEF DeliveryInv, TypeInv
  <2>3. Cardinality(L) <= MaxConc[d]
    <3>1. permits[d] \in Nat /\ permits[d] + Cardinality(L) = MaxConc[d]
      BY <1>1, <2>2 DEF PermitsInv, PermitsHeld, TypeOK
    <3> HIDE DEF L
    <3> QED BY <2>1, <3>1
  <2>4. S \subseteq T
    <3>1. P \cup Q \cup Received(u, d) = 1 .. Len(output[u])
      BY <2>2 DEF ExactlyOnce
    <3>2. \A n \in Received(u, d) : worker[d][n].pc = "over" \/ n \in L \/ n = held[d]
      BY <2>1 DEF Received, Holding
    <3> HIDE DEF P, Q, L
    <3> QED BY <3>1, <3>2
  <2>5. /\ IsFiniteSet(P) /\ Cardinality(P) \in Nat
        /\ Cardinality(Live(u)) \in Nat /\ Cardinality(P) <= Cardinality(Live(u))
    BY <2>2, PendingCount
  <2>6. IsFiniteSet(Q) /\ Cardinality(Q) \in Nat /\ Cardinality(Q) <= QueueMax
    BY <1>1, <2>2, QueuedCount
  <2> HIDE DEF P, Q, L
  <2>7. IsFiniteSet(P \cup Q) /\ Cardinality(P \cup Q) \in Nat
        /\ Cardinality(P \cup Q) <= Cardinality(P) + Cardinality(Q)
    BY <2>5, <2>6, UnionCount
  <2>8. IsFiniteSet({held[d]}) /\ Cardinality({held[d]}) = 1
    BY FS_Singleton
  <2>9. IsFiniteSet(L \cup {held[d]}) /\ Cardinality(L \cup {held[d]}) \in Nat
        /\ Cardinality(L \cup {held[d]}) <= Cardinality(L) + 1
    BY <2>1, <2>8, UnionCount
  <2>10. /\ IsFiniteSet(T) /\ Cardinality(T) \in Nat
         /\ Cardinality(T) <= Cardinality(P \cup Q) + Cardinality(L \cup {held[d]})
    BY <2>7, <2>9, UnionCount
  <2> HIDE DEF S, T
  <2>11. Cardinality(S) <= Cardinality(T) /\ Cardinality(S) \in Nat
    BY <2>4, <2>10, FS_Subset, FS_CardinalityType
  <2>12. QueueMax \in Nat
    BY LimitAssumption
  <2>13. Cardinality(S) <= QueueMax + MaxConc[d] + 1 + Cardinality(Live(u))
    BY <2>1, <2>3, <2>5, <2>6, <2>7, <2>9, <2>10, <2>11, <2>12
  <2> QED BY <2>13 DEF S
<1>2. Init => DeliveryInv /\ QueuesBounded /\ PermitsInv
  BY InitDelivery, InitBounded, InitPermits, InitUnbegun DEF PermitsInv
<1>3. DeliveryInv /\ QueuesBounded /\ PermitsInv /\ [Next]_vars
        => DeliveryInv' /\ QueuesBounded' /\ PermitsInv'
  BY NextDelivery, NextBounded, NextPermits
<1> QED BY <1>1, <1>2, <1>3, PTL DEF Spec

-----------------------------------------------------------------------------
(* What a merge joins. *)

(* A value that arrived waits, has fired, or was replaced by another one of *)
(* its source under its key.                                                *)
Remembered(m, a) ==
  \/ bucket[m][a.key][a.src] = a.n
  \/ \E f \in fired[m] : f.key = a.key /\ f.vals[a.src] = a.n
  \/ \E b \in arrived[m] : b.key = a.key /\ b.src = a.src /\ b.n # a.n

(* A merge: nothing that arrived is forgotten, values arrive under their    *)
(* own keys, and a strict merge that ended by itself has reported what      *)
(* waits.                                                                   *)
JoinOK(m) ==
  /\ \A a \in arrived[m] : Remembered(m, a)
  /\ m \notin CustomKey => \A a \in arrived[m] : output[a.src][a.n] = a.key
  /\ Upstream[m] = {} => fired[m] = {}
  /\ (Open /\ m \in Strict /\ KeyRaises = {}) =>
       reported[m] = IF runner[m] \in Closing THEN Incomplete(m) ELSE {}

JoinInv ==
  /\ AccountInv
  /\ EndInv
  /\ \A m \in Steps : IsMerge(m) => JoinOK(m)

LEMMA InitJoin == Init => JoinInv
<1> SUFFICES ASSUME Init PROVE JoinInv
  OBVIOUS
<1>1. ASSUME NEW m \in Steps PROVE JoinOK(m)
  <2>1. arrived[m] = {} /\ fired[m] = {} /\ reported[m] = {} /\ runner[m] = "created"
    BY <1>1 DEF Init
  <2> QED BY <2>1 DEF JoinOK, Closing, Ended
<1> QED BY <1>1, InitAccount, InitEnd DEF JoinInv

(* What arrived was produced. *)
LEMMA ArrivedOutputs ==
  ASSUME DeliveryInv, NEW m \in Steps, IsMerge(m), NEW a \in arrived[m]
  PROVE  /\ a.key \in Keys /\ a.src \in Upstream[m] /\ a.n \in Ordinals
         /\ a.src \in Steps /\ a.src # Input
         /\ a.n \in 1 .. Len(output[a.src])
         /\ \A b \in arrived[m] : (b.key = a.key /\ b.src = a.src /\ b.n = a.n) => b = a
<1>1. arrived[m] \subseteq [key : Keys, src : Upstream[m], n : Ordinals] /\ TypeInv
  BY DEF DeliveryInv, TypeInv, TypeOK
<1>2. a.key \in Keys /\ a.src \in Upstream[m] /\ a.n \in Ordinals
  BY <1>1
<1>3. a.src \in Steps /\ a.src # Input
  BY <1>2, TopologyAssumption DEF IsMerge
<1>4. a.n <= Len(output[a.src])
  <2>1. EdgeOK(a.src, m) /\ Taken(a.src, m, a.n)
    BY <1>2 DEF DeliveryInv, Taken
  <2> QED BY <1>2, <1>3, <2>1 DEF EdgeOK, Produced
<1>5. Len(output[a.src]) \in Nat
  BY <1>1, <1>3, OutputOrdinals
<1>6. a.n \in 1 .. Len(output[a.src])
  <2> DEFINE l == Len(output[a.src])
             n == a.n
  <2>1. l \in Nat /\ n \in 1 .. MaxItems /\ n <= l /\ MaxItems \in Nat
    BY <1>2, <1>4, <1>5, LimitAssumption DEF Ordinals
  <2> HIDE DEF l, n
  <2>2. n \in 1 .. l
    BY <2>1
  <2> QED BY <2>2 DEF l, n
<1>7. \A b \in arrived[m] : (b.key = a.key /\ b.src = a.src /\ b.n = a.n) => b = a
  BY <1>1
<1> QED BY <1>2, <1>3, <1>6, <1>7

(* Outputs are only added. *)
LEMMA OutputsStay ==
  ASSUME DeliveryInv, [Next]_vars, NEW s \in Steps, NEW n \in 1 .. Len(output[s])
  PROVE  output'[s][n] = output[s][n]
<1>1. output \in [Steps -> Seq(Keys)]
  BY DEF DeliveryInv, TypeInv, TypeOK
<1>2. ASSUME NEW t \in Steps, NEW i \in Slots(t), Emit(t, i)
      PROVE  output'[s][n] = output[s][n]
  <2> DEFINE x == OutKey(t, worker[t][i])
  <2>1. output' = [output EXCEPT ![t] = Append(output[t], x)]
    BY <1>2 DEF Emit
  <2> HIDE DEF x
  <2>2. CASE s = t
    <3> DEFINE q == output[s]
    <3>1. output'[s] = Append(q, x) /\ q \in Seq(Keys)
      BY <1>1, <2>1, <2>2
    <3>2. n \in 1 .. Len(q)
      OBVIOUS
    <3> HIDE DEF q
    <3>3. Append(q, x)[n] = q[n]
      BY <3>1, <3>2
    <3> QED BY <3>1, <3>3 DEF q
  <2>3. CASE s # t
    BY <1>1, <2>1, <2>3
  <2> QED BY <2>2, <2>3
<1>3. CASE output' = output
  BY <1>3
<1>4. CASE output' # output
  <2>1. ASSUME NEW t \in Steps, RunnerStep(t) PROVE output' = output
    BY <2>1 DEF RunnerStep, Start, Join, PutDone, Take, Acquire
  <2>2. ASSUME NEW t \in Steps, WorkerStep(t)
        PROVE  output' = output \/ \E i \in Slots(t) : Emit(t, i)
    BY <2>2 DEF WorkerStep, Begin, Put, Return, Raise, MergeTake, MergeTakeDone, MergeKeyRaise
  <2>3. ASSUME FinishPipeline \/ FinishClose \/ Close \/ CancelAgain \/ Stopped \/ UNCHANGED vars
        PROVE  output' = output
    BY <2>3 DEF FinishPipeline, FinishClose, Close, CancelAgain, CancelRunners, Stopped, vars
  <2> QED BY <1>2, <1>4, <2>1, <2>2, <2>3 DEF Next, LoopStep
<1> QED BY <1>3, <1>4

(* The value a consume_source task stores or fires. *)
LEMMA MergeTakeJoin ==
  ASSUME JoinInv, NEW m \in Steps, IsMerge(m), NEW u \in Upstream[m], MergeTake(m, u)
  PROVE  /\ \A t \in Steps \ {m} : /\ bucket'[t] = bucket[t] /\ fired'[t] = fired[t]
                                    /\ arrived'[t] = arrived[t]
         /\ \A a \in arrived'[m] : Remembered(m, a)'
         /\ m \notin CustomKey => \A a \in arrived'[m] : output[a.src][a.n] = a.key
<1>1. DeliveryInv /\ TypeOK /\ JoinOK(m)
  BY DEF JoinInv, EndInv, FlowEnds, DeliveryInv, TypeInv
<1>2. PICK n \in Ordinals, k \in Keys :
           /\ k \in MergeKeys(m, u, n)
           /\ \A a \in arrived[m] : ~(a.src = u /\ a.n = n)
           /\ arrived' = [arrived EXCEPT ![m] =
                            arrived[m] \cup {[key |-> k, src |-> u, n |-> n]}]
           /\ LET b == Stored(m, u, n, k) IN
              \/ /\ Complete(m, b, k)
                 /\ bucket' = [bucket EXCEPT ![m] = Cleared(m, b, k)]
                 /\ fired' = [fired EXCEPT ![m] =
                                fired[m] \cup {[key |-> k, vals |-> b[k]]}]
                 /\ worker' = [worker EXCEPT ![m][u] = Running(k)]
              \/ /\ ~Complete(m, b, k)
                 /\ bucket' = [bucket EXCEPT ![m] = b]
                 /\ UNCHANGED <<fired, worker>>
  BY <1>1, MergeTakeBuckets
<1> DEFINE b == Stored(m, u, n, k)
           new == [key |-> k, src |-> u, n |-> n]
<1>3. /\ \A t \in Steps \ {m} : bucket'[t] = bucket[t] /\ fired'[t] = fired[t]
                                 /\ arrived'[t] = arrived[t]
      /\ arrived'[m] = arrived[m] \cup {new}
      /\ \/ /\ bucket'[m] = Cleared(m, b, k)
            /\ fired'[m] = fired[m] \cup {[key |-> k, vals |-> b[k]]}
         \/ bucket'[m] = b /\ fired'[m] = fired[m]
  BY <1>1, <1>2 DEF TypeOK
<1>4. /\ \A j \in Keys : \A v \in Upstream[m] :
           b[j][v] = IF j = k /\ v = u THEN n ELSE bucket[m][j][v]
      /\ \A j \in Keys : \A v \in Upstream[m] :
           Cleared(m, b, k)[j][v] = IF j = k THEN DONE ELSE bucket[m][j][v]
  BY <1>1, StoredValues
<1> HIDE DEF b
<1>5. ASSUME NEW a \in arrived'[m], a.key \in Keys, a.src \in Upstream[m],
             b[a.key][a.src] = a.n
      PROVE  Remembered(m, a)'
  <2>1. CASE bucket'[m] = b
    BY <1>5, <2>1 DEF Remembered
  <2>2. CASE /\ bucket'[m] = Cleared(m, b, k)
             /\ fired'[m] = fired[m] \cup {[key |-> k, vals |-> b[k]]}
    <3>1. CASE a.key = k
      <4> DEFINE f == [key |-> k, vals |-> b[k]]
      <4>1. f.key = a.key /\ f.vals[a.src] = a.n /\ f \in fired'[m]
        BY <1>5, <2>2, <3>1
      <4> QED BY <4>1 DEF Remembered
    <3>2. CASE a.key # k
      <4>1. bucket'[m][a.key][a.src] = a.n
        BY <1>4, <1>5, <2>2, <3>2
      <4> QED BY <4>1 DEF Remembered
    <3> QED BY <3>1, <3>2
  <2> QED BY <1>3, <2>1, <2>2
<1>6. ASSUME NEW a \in arrived'[m] PROVE Remembered(m, a)'
  <2>1. CASE a = new
    <3>1. a.key = k /\ a.src = u /\ a.n = n
      BY <2>1
    <3> QED BY <1>4, <1>5, <3>1
  <2>2. CASE a \in arrived[m]
    <3>1. a.key \in Keys /\ a.src \in Upstream[m] /\ Remembered(m, a)
      BY <1>1, <2>2, ArrivedOutputs DEF JoinOK
    <3>2. CASE bucket[m][a.key][a.src] = a.n
      <4>1. CASE a.key = k /\ a.src = u
        <5>1. new \in arrived'[m] /\ new.key = a.key /\ new.src = a.src /\ new.n # a.n
          BY <1>2, <1>3, <2>2, <4>1
        <5> HIDE DEF new
        <5> QED BY <5>1 DEF Remembered
      <4>2. CASE ~(a.key = k /\ a.src = u)
        BY <1>4, <1>5, <3>1, <3>2, <4>2
      <4> QED BY <4>1, <4>2
    <3>3. CASE \E f \in fired[m] : f.key = a.key /\ f.vals[a.src] = a.n
      BY <1>3, <3>3 DEF Remembered
    <3>4. CASE \E c \in arrived[m] : c.key = a.key /\ c.src = a.src /\ c.n # a.n
      BY <1>3, <3>4 DEF Remembered
    <3> QED BY <3>1, <3>2, <3>3, <3>4 DEF Remembered
  <2> QED BY <1>3, <2>1, <2>2
<1>7. ASSUME m \notin CustomKey, NEW a \in arrived'[m] PROVE output[a.src][a.n] = a.key
  <2>1. CASE a = new
    <3>1. k = KeyOf(u, n) /\ u # Input
      BY <1>2, <1>7, TopologyAssumption DEF MergeKeys, IsMerge
    <3> QED BY <2>1, <3>1 DEF KeyOf
  <2>2. CASE a \in arrived[m]
    BY <1>1, <1>7, <2>2 DEF JoinOK
  <2> QED BY <1>3, <2>1, <2>2
<1> QED BY <1>3, <1>6, <1>7

(* The report of a strict merge, in a step that leaves its buckets alone.   *)
LEMMA ReportStays ==
  ASSUME JoinInv, [Next]_vars, UNCHANGED <<bucket, arrived, fired>>,
         NEW m \in Steps, IsMerge(m), m \in Strict, KeyRaises = {}, Open'
  PROVE  reported'[m] = IF runner'[m] \in Closing THEN Incomplete(m)' ELSE {}
<1>1. TypeOK /\ JoinOK(m) /\ TypeInv /\ DeliveryInv
  BY DEF JoinInv, EndInv, FlowEnds, DeliveryInv, TypeInv
<1>2. Incomplete(m)' = Incomplete(m)
  BY DEF Incomplete
<1>3. Open
  BY OpenBefore
<1>4. reported[m] = IF runner[m] \in Closing THEN Incomplete(m) ELSE {}
  BY <1>1, <1>3 DEF JoinOK
<1>5. ASSUME reported'[m] = reported[m], runner'[m] \in Closing <=> runner[m] \in Closing
      PROVE  reported'[m] = IF runner'[m] \in Closing THEN Incomplete(m)' ELSE {}
  BY <1>2, <1>4, <1>5
<1>6. ASSUME NEW s \in Steps, RunnerStep(s)
      PROVE  reported'[m] = IF runner'[m] \in Closing THEN Incomplete(m)' ELSE {}
  <2>1. CASE Start(s)
    <3>1. /\ reported' = reported /\ runner[s] = "created"
          /\ runner'[s] \in {"joining", "receiving"}
          /\ \A t \in Steps \ {s} : runner'[t] = runner[t]
      BY <1>1, <2>1 DEF Start, TypeOK, mergeVars
    <3> QED BY <1>5, <3>1 DEF Closing, Ended
  <2>2. CASE Join(s)
    <3>1. /\ runner[s] = "joining" /\ runner'[s] \in {"closing", "done"}
          /\ \A t \in Steps \ {s} : runner'[t] = runner[t]
      BY <1>1, <2>2, BeginClosingMoves DEF Join
    <3>2. CASE s = m
      <4>1. reported[m] = {}
        BY <1>4, <3>1, <3>2 DEF Closing, Ended
      <4>2. IF Incomplete(m) # {} THEN reported'[m] = Incomplete(m)
            ELSE reported' = reported
        BY <1>1, <2>2, <3>2 DEF Join, TypeOK
      <4>3. reported'[m] = Incomplete(m)
        BY <4>1, <4>2
      <4> QED BY <1>2, <3>1, <3>2, <4>3 DEF Closing, Ended
    <3>3. CASE s # m
      <4>1. reported'[m] = reported[m]
        BY <1>1, <2>2, <3>3 DEF Join, TypeOK
      <4> QED BY <1>5, <3>1, <3>3, <4>1
    <3> QED BY <3>2, <3>3
  <2>3. CASE PutDone(s)
    <3>1. PICK d \in owed[s] :
            runner' = [runner EXCEPT ![s] = IF owed[s] = {d} THEN "done" ELSE @]
      BY <2>3 DEF PutDone
    <3>2. runner[s] = "closing" /\ reported' = reported
      BY <2>3 DEF PutDone, mergeVars
    <3>3. /\ runner'[s] \in {"closing", "done"}
          /\ \A t \in Steps \ {s} : runner'[t] = runner[t]
      BY <1>1, <3>1, <3>2 DEF TypeOK
    <3> QED BY <1>5, <3>2, <3>3 DEF Closing, Ended
  <2>4. CASE ~IsMerge(s) /\ \E u \in Upstream[s] : Take(s, u) \/ Acquire(s, u)
    <3>1. PICK u \in Upstream[s] : Take(s, u) \/ Acquire(s, u)
      BY <2>4
    <3>2. \A t \in Steps \ {s} : runner'[t] = runner[t]
      BY <1>1, <2>4, <3>1, TakeMoves
    <3>3. reported' = reported /\ s # m
      BY <2>4, <3>1 DEF Take, Acquire, mergeVars
    <3> QED BY <1>5, <3>2, <3>3
  <2> QED BY <1>6, <2>1, <2>2, <2>3, <2>4 DEF RunnerStep
<1>7. ASSUME NEW s \in Steps, WorkerStep(s) PROVE reported' = reported /\ runner' = runner
  BY <1>7 DEF WorkerStep, Begin, Emit, Put, Return, Raise, MergeTake, MergeTakeDone,
              MergeKeyRaise, mergeVars
<1>8. CASE FinishPipeline \/ FinishClose \/ Stopped \/ UNCHANGED vars
  <2>1. reported' = reported /\ runner' = runner
    BY <1>8 DEF FinishPipeline, FinishClose, Stopped, vars, mergeVars
  <2> QED BY <1>5, <2>1
<1>9. CASE Close \/ CancelAgain
  BY <1>9 DEF Close, CancelAgain, Open
<1> QED BY <1>5, <1>6, <1>7, <1>8, <1>9 DEF Next, LoopStep

LEMMA NextJoin == JoinInv /\ [Next]_vars => JoinInv'
<1> SUFFICES ASSUME JoinInv, [Next]_vars PROVE JoinInv'
  OBVIOUS
<1>1. AccountInv' /\ EndInv' /\ DeliveryInv
  BY NextAccount, NextEnd DEF JoinInv, EndInv, FlowEnds
<1>2. ASSUME NEW m \in Steps, IsMerge(m), NEW a \in arrived[m]
      PROVE  output'[a.src][a.n] = output[a.src][a.n]
  BY <1>1, <1>2, ArrivedOutputs, OutputsStay
<1>3. ASSUME UNCHANGED <<bucket, arrived, fired>>, NEW m \in Steps, IsMerge(m)
      PROVE  JoinOK(m)'
  <2>1. JoinOK(m)
    BY <1>3 DEF JoinInv
  <2>2. \A a \in arrived'[m] : Remembered(m, a)'
    BY <1>3, <2>1 DEF JoinOK, Remembered
  <2>3. m \notin CustomKey => \A a \in arrived'[m] : output'[a.src][a.n] = a.key
    BY <1>2, <1>3, <2>1 DEF JoinOK
  <2>4. Upstream[m] = {} => fired'[m] = {}
    BY <1>3, <2>1 DEF JoinOK
  <2>5. (Open' /\ m \in Strict /\ KeyRaises = {}) =>
          reported'[m] = IF runner'[m] \in Closing THEN Incomplete(m)' ELSE {}
    BY <1>3, ReportStays
  <2> QED BY <2>2, <2>3, <2>4, <2>5 DEF JoinOK
<1>4. ASSUME NEW s \in Steps, IsMerge(s), NEW u \in Upstream[s], MergeTake(s, u),
             NEW m \in Steps, IsMerge(m)
      PROVE  JoinOK(m)'
  <2>1. /\ \A t \in Steps \ {s} : /\ bucket'[t] = bucket[t] /\ fired'[t] = fired[t]
                                    /\ arrived'[t] = arrived[t]
        /\ \A a \in arrived'[s] : Remembered(s, a)'
        /\ s \notin CustomKey => \A a \in arrived'[s] : output[a.src][a.n] = a.key
    BY <1>4, MergeTakeJoin
  <2>2. JoinOK(m) /\ UNCHANGED <<output, runner, reported>> /\ (Open' <=> Open)
    BY <1>4 DEF JoinInv, MergeTake, Open, consumerVars
  <2>3. CASE m = s
    <3>1. KeyRaises = {} => runner[m] \notin Closing
      <4>1. u \in Live(m) /\ StepEnds(m)
        BY <1>4, <2>3 DEF MergeTake, Live, Slots, JoinInv, EndInv, FlowEnds
      <4> QED BY <4>1 DEF StepEnds
    <3> QED BY <1>4, <2>1, <2>2, <2>3, <3>1 DEF JoinOK
  <2>4. CASE m # s
    <3>1. /\ bucket'[m] = bucket[m] /\ fired'[m] = fired[m] /\ arrived'[m] = arrived[m]
      BY <2>1, <2>4
    <3>2. Incomplete(m)' = Incomplete(m)
      BY <3>1 DEF Incomplete
    <3>3. \A a \in arrived'[m] : Remembered(m, a)'
      BY <2>2, <3>1 DEF JoinOK, Remembered
    <3> QED BY <2>2, <3>1, <3>2, <3>3 DEF JoinOK
  <2> QED BY <2>3, <2>4
<1>5. \/ UNCHANGED <<bucket, arrived, fired>>
      \/ \E s \in Steps : IsMerge(s) /\ \E u \in Upstream[s] : MergeTake(s, u)
  <2>1. ASSUME NEW t \in Steps, RunnerStep(t) PROVE UNCHANGED <<bucket, arrived, fired>>
    BY <2>1 DEF RunnerStep, Start, Join, PutDone, Take, Acquire, mergeVars
  <2>2. ASSUME NEW t \in Steps, WorkerStep(t)
        PROVE  \/ UNCHANGED <<bucket, arrived, fired>>
               \/ IsMerge(t) /\ \E u \in Upstream[t] : MergeTake(t, u)
    BY <2>2 DEF WorkerStep, Begin, Emit, Put, Return, Raise, MergeTakeDone, MergeKeyRaise,
                mergeVars
  <2>3. ASSUME FinishPipeline \/ FinishClose \/ Close \/ CancelAgain \/ Stopped \/ UNCHANGED vars
        PROVE  UNCHANGED <<bucket, arrived, fired>>
    BY <2>3 DEF FinishPipeline, FinishClose, Close, CancelAgain, CancelRunners, Stopped,
                vars, mergeVars
  <2> QED BY <2>1, <2>2, <2>3 DEF Next, LoopStep
<1>6. \A m \in Steps : IsMerge(m) => JoinOK(m)'
  BY <1>3, <1>4, <1>5
<1> QED BY <1>1, <1>6 DEF JoinInv

(* A merge that ended by itself has taken everything its sources produced.  *)
LEMMA AllArrived ==
  ASSUME JoinInv, KeyRaises = {}, Open, NEW m \in Steps, IsMerge(m),
         runner[m] \in Closing, NEW u \in Upstream[m]
  PROVE  Received(u, m) = 1 .. Len(output[u])
<1>1. ExactlyOnce /\ StepEnds(m) /\ EdgeEnds(u, m)
  BY DeliveryImpliesExactlyOnce DEF JoinInv, EndInv, FlowEnds
<1>2. u \in Steps /\ u # Input
  BY TopologyAssumption DEF IsMerge
<1>3. SawDone(u, m)
  <2>1. Live(m) = {} /\ worker[m][u].pc # "idle" /\ u \in Slots(m)
    BY <1>1 DEF StepEnds, Slots, Closing, Ended
  <2>2. worker[m][u].pc # "dropped"
    BY <2>1 DEF JoinInv, EndInv, Unbegun
  <2> QED BY <2>1, <2>2 DEF SawDone, Live
<1>4. queue[<<u, m>>] = <<>> /\ runner[u] \in Closing
  BY <1>1, <1>2, <1>3 DEF EdgeEnds
<1>5. Queued(u, m) = {} /\ Pending(u, m) = {}
  <2>1. Live(u) = {}
    BY <1>2, <1>4 DEF JoinInv, EndInv, FlowEnds, StepEnds
  <2> QED BY <1>4, <2>1 DEF Queued, Pending, Live
<1>6. Pending(u, m) \cup Queued(u, m) \cup Received(u, m) = 1 .. Len(output[u])
  BY <1>1, <1>2 DEF ExactlyOnce
<1> QED BY <1>5, <1>6

(* The join is right in every DAG and whatever keys merge_key computes, as  *)
(* long as it does not raise: a merge that ended took every output of its   *)
(* sources, fired once for each key all of them gave, if none gave a key    *)
(* twice, and reported the others if it is strict.                          *)
THEOREM JoinsRight ==
  ASSUME KeyRaises = {}
  PROVE  Spec => []MergeJoins
<1>1. ASSUME JoinInv PROVE MergeJoins
  <2> SUFFICES ASSUME NEW m \in Steps, IsMerge(m), Open, runner[m] \in {"closing", "done"}
               PROVE  LET some == UNION {KeysFrom(m, u) : u \in Upstream[m]}
                          common == {k \in some : \A u \in Upstream[m] : k \in KeysFrom(m, u)}
                      IN /\ \A u \in Upstream[m] : Received(u, m) = 1 .. Len(output[u])
                         /\ m \notin CustomKey =>
                              \A a \in arrived[m] : a.key = output[a.src][a.n]
                         /\ OneEach(m) =>
                              /\ {f.key : f \in fired[m]} = common
                              /\ Cardinality(fired[m]) = Cardinality(common)
                              /\ \A f \in fired[m], u \in Upstream[m] :
                                   [key |-> f.key, src |-> u, n |-> f.vals[u]] \in arrived[m]
                              /\ m \in Strict => reported[m] = some \ common
    BY DEF MergeJoins
  <2> DEFINE some == UNION {KeysFrom(m, u) : u \in Upstream[m]}
             common == {k \in some : \A u \in Upstream[m] : k \in KeysFrom(m, u)}
  <2>1. DeliveryInv /\ TypeOK /\ JoinOK(m) /\ BucketsOK(m) /\ runner[m] \in Closing
    <3>1. DeliveryInv /\ JoinOK(m) /\ BucketsOK(m)
      BY <1>1 DEF JoinInv, AccountInv
    <3> QED BY <3>1 DEF DeliveryInv, TypeInv, Closing, Ended
  <2>2. \A u \in Upstream[m] : Received(u, m) = 1 .. Len(output[u])
    BY <1>1, <2>1, AllArrived
  <2>3. m \notin CustomKey => \A a \in arrived[m] : a.key = output[a.src][a.n]
    BY <2>1 DEF JoinOK
  <2>4. ASSUME NEW a \in arrived[m]
        PROVE  a.key \in Keys /\ a.src \in Upstream[m] /\ a.n # DONE
               /\ a.key \in KeysFrom(m, a.src)
    BY <2>1, ArrivedOutputs, DoneIsNoOrdinal DEF KeysFrom
  <2>5. ASSUME NEW f \in fired[m], NEW u \in Upstream[m]
        PROVE  [key |-> f.key, src |-> u, n |-> f.vals[u]] \in arrived[m]
    BY <2>1 DEF BucketsOK
  <2>6. ASSUME OneEach(m), NEW a \in arrived[m]
        PROVE  \/ bucket[m][a.key][a.src] = a.n
               \/ \E f \in fired[m] : f.key = a.key /\ f.vals[a.src] = a.n
    BY <2>1, <2>6 DEF JoinOK, Remembered, OneEach
  <2>7. ASSUME NEW f \in fired[m] PROVE f.key \in common
    <3>1. PICK u : u \in Upstream[m]
      BY <2>1 DEF JoinOK
    <3>2. \A v \in Upstream[m] : f.key \in KeysFrom(m, v)
      <4> TAKE v \in Upstream[m]
      <4> DEFINE a == [key |-> f.key, src |-> v, n |-> f.vals[v]]
      <4>1. a \in arrived[m] /\ a.key = f.key /\ a.src = v
        BY <2>5
      <4> HIDE DEF a
      <4> QED BY <2>4, <4>1
    <3> QED BY <3>1, <3>2
  <2>8. ASSUME OneEach(m), NEW k \in common PROVE \E f \in fired[m] : f.key = k
    <3>1. PICK v \in Upstream[m] : k \in KeysFrom(m, v)
      OBVIOUS
    <3>2. k \in Keys
      BY <2>4, <3>1 DEF KeysFrom
    <3>3. PICK u \in Upstream[m] : bucket[m][k][u] = DONE
      BY <2>1, <3>1, <3>2 DEF BucketsOK
    <3>4. PICK a \in arrived[m] : a.src = u /\ a.key = k
      BY DEF KeysFrom
    <3> QED BY <2>4, <2>6, <2>8, <3>3, <3>4
  <2>9. ASSUME OneEach(m) PROVE {f.key : f \in fired[m]} = common
    BY <2>7, <2>8, <2>9
  <2>10. ASSUME OneEach(m), NEW f \in fired[m], NEW g \in fired[m], f.key = g.key
         PROVE  f = g
    <3>1. PICK u : u \in Upstream[m]
      BY <2>1 DEF JoinOK
    <3> DEFINE a == [key |-> f.key, src |-> u, n |-> f.vals[u]]
               b == [key |-> g.key, src |-> u, n |-> g.vals[u]]
    <3>2. a = b
      BY <2>5, <2>10, <3>1 DEF OneEach
    <3>3. f.vals[u] = g.vals[u]
      BY <3>2
    <3> QED BY <2>1, <3>1, <3>3 DEF BucketsOK
  <2>11. ASSUME OneEach(m), m \in Strict PROVE reported[m] = some \ common
    <3>1. reported[m] = Incomplete(m)
      BY <2>1, <2>11 DEF JoinOK
    <3>2. ASSUME NEW k \in Incomplete(m) PROVE k \in some \ common
      <4>1. PICK u \in Upstream[m] : k \in Keys /\ bucket[m][k][u] # DONE
        BY DEF Incomplete
      <4> DEFINE a == [key |-> k, src |-> u, n |-> bucket[m][k][u]]
      <4>2. a \in arrived[m] /\ a.key = k /\ a.src = u /\ a.n = bucket[m][k][u]
        BY <2>1, <4>1 DEF BucketsOK
      <4> HIDE DEF a
      <4>3. k \in some
        BY <2>4, <4>1, <4>2
      <4>4. ASSUME NEW f \in fired[m], f.key = k PROVE FALSE
        <5> DEFINE b == [key |-> f.key, src |-> u, n |-> f.vals[u]]
        <5>1. b \in arrived[m] /\ b.key = k /\ b.src = u /\ b.n = f.vals[u]
          BY <2>5, <4>1, <4>4
        <5> HIDE DEF b
        <5>2. f.vals[u] = bucket[m][k][u]
          BY <2>11, <4>2, <5>1 DEF OneEach
        <5> QED BY <2>1, <4>1, <5>2 DEF BucketsOK
      <4> QED BY <2>8, <2>11, <4>3, <4>4
    <3>3. ASSUME NEW k \in some \ common PROVE k \in Incomplete(m)
      <4>1. PICK u \in Upstream[m] : k \in KeysFrom(m, u)
        OBVIOUS
      <4>2. PICK a \in arrived[m] : a.src = u /\ a.key = k
        BY <4>1 DEF KeysFrom
      <4>3. \A f \in fired[m] : f.key # k
        BY <2>7, <3>3
      <4>4. bucket[m][k][u] = a.n
        BY <2>6, <2>11, <4>2, <4>3
      <4> QED BY <2>4, <4>2, <4>4 DEF Incomplete
    <3> QED BY <3>1, <3>2, <3>3
  <2>12. common \subseteq Keys
    <3>1. \A u \in Upstream[m] : KeysFrom(m, u) \subseteq Keys
      BY <2>4 DEF KeysFrom
    <3> QED BY <3>1
  <2> HIDE DEF some, common
  <2>13. ASSUME OneEach(m) PROVE Cardinality(fired[m]) = Cardinality(common)
    <3> DEFINE key == [f \in fired[m] |-> f.key]
    <3>1. key \in Injection(fired[m], common) /\ key \in Surjection(fired[m], common)
      <4>1. key \in [fired[m] -> common] /\ \A f \in fired[m] : key[f] = f.key
        BY <2>9, <2>13
      <4>2. \A k \in common : \E f \in fired[m] : key[f] = k
        BY <2>9, <2>13, <4>1
      <4>3. \A f, g \in fired[m] : key[f] = key[g] => f = g
        BY <2>10, <2>13, <4>1
      <4> HIDE DEF key
      <4> QED BY <4>1, <4>2, <4>3 DEF Injection, IsInjective, Surjection
    <3>2. IsFiniteSet(Keys)
      BY FS_Interval, LimitAssumption DEF Keys
    <3>3. IsFiniteSet(common)
      BY <2>12, <3>2, FS_Subset
    <3> HIDE DEF key
    <3> QED BY <3>1, <3>3, FS_Injection
  <2> QED BY <2>2, <2>3, <2>5, <2>9, <2>11, <2>13 DEF some, common
<1> QED BY <1>1, InitJoin, NextJoin, PTL DEF Spec
=============================================================================
