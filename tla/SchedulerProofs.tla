-------------------------- MODULE SchedulerProofs --------------------------
(***************************************************************************)
(* Proofs about the executor, for every DAG, queue size, concurrency cap   *)
(* and number of outputs.                                                  *)
(***************************************************************************)
EXTENDS SchedulerProperties, FiniteSetTheorems, SequenceTheorems, TLAPS

(* The ordinals that stand for values produced by u.                        *)
Produced(u) == IF u = Input THEN 1 ELSE Len(output[u])

(* What travels between the steps has been produced, so that its key is     *)
(* defined: TypeOK alone is not inductive.                                  *)
Travelling ==
  /\ \A s \in Steps : Len(output[s]) <= Yields[s]
  /\ \A d \in Steps : \A u \in Upstream[d] :
       /\ \A j \in 1 .. Len(queue[<<u, d>>]) : queue[<<u, d>>][j] <= Produced(u)
       /\ held[d] <= Produced(u)
  /\ \A s \in Steps : \A i \in Slots(s) :
       /\ worker[s][i].out <= Len(output[s])
       /\ worker[s][i].pend \subseteq Downstream(s)
  /\ \A s \in Steps : owed[s] \subseteq Downstream(s)
  /\ \A s \in Steps : runner[s] = "acquiring" => held[s] # DONE

TypeInv == TypeOK /\ Travelling

-----------------------------------------------------------------------------
(* The topology. *)

LEMMA EdgeType ==
  ASSUME NEW d \in Steps, NEW u \in Upstream[d]
  PROVE  /\ <<u, d>> \in Edges
         /\ u \in Steps \cup {Input}
BY TopologyAssumption DEF Edges

LEMMA DownstreamType ==
  ASSUME NEW s \in Steps, NEW d \in Downstream(s)
  PROVE  /\ d \in Steps /\ s \in Upstream[d] /\ s # Input
         /\ <<s, d>> \in Edges
BY TopologyAssumption DEF Edges, Downstream

(* Items that have been produced have a key. *)
LEMMA KeyType ==
  ASSUME TypeOK, NEW u \in Steps \cup {Input}, NEW n \in Ordinals, n <= Produced(u)
  PROVE  KeyOf(u, n) \in Keys
BY LimitAssumption DEF TypeOK, KeyOf, Keys, Ordinals, Produced

LEMMA WorkerType ==
  /\ Idle \in Worker /\ Over \in Worker /\ Taking \in Worker /\ Dropped \in Worker
  /\ \A k \in Keys : Created(k) \in Worker /\ Running(k) \in Worker
BY LimitAssumption DEF At, Idle, Over, Taking, Dropped, Created, Running, Worker, Keys, DONE

LEMMA InitTypeInv == Init => TypeInv
<1> SUFFICES ASSUME Init PROVE TypeInv
  OBVIOUS
<1>1. queue \in [Edges -> Seq({DONE} \cup Ordinals)]
  <2>1. 1 \in {DONE} \cup Ordinals /\ DONE \in {DONE} \cup Ordinals
    BY LimitAssumption DEF Ordinals, DONE
  <2>2. <<1, DONE>> \in Seq({DONE} \cup Ordinals)
    BY <2>1
  <2>3. <<>> \in Seq({DONE} \cup Ordinals)
    OBVIOUS
  <2> QED BY <2>2, <2>3 DEF Init
<1>2. \A s \in Steps : worker[s] \in [Slots(s) -> Worker]
  BY WorkerType DEF Init
<1>3. permits \in [Steps -> Nat]
  BY LimitAssumption DEF Init
<1>4. TypeOK
  BY <1>1, <1>2, <1>3, LimitAssumption DEF Init, TypeOK, Keys, Ordinals, DONE
<1>5. Travelling
  <2>1. \A d \in Steps : \A u \in Upstream[d] :
          \A j \in 1 .. Len(queue[<<u, d>>]) : queue[<<u, d>>][j] <= Produced(u)
    <3> SUFFICES ASSUME NEW d \in Steps, NEW u \in Upstream[d],
                        NEW j \in 1 .. Len(queue[<<u, d>>])
                 PROVE  queue[<<u, d>>][j] <= Produced(u)
      OBVIOUS
    <3>1. queue[<<u, d>>] = IF u = Input THEN <<1, DONE>> ELSE <<>>
      BY EdgeType DEF Init
    <3>2. u = Input
      BY <3>1
    <3>3. Len(<<1, DONE>>) = 2 /\ <<1, DONE>>[1] = 1 /\ <<1, DONE>>[2] = DONE
      OBVIOUS
    <3> QED BY <3>1, <3>2, <3>3 DEF DONE, Produced
  <2>2. \A s \in Steps :
          /\ Len(output[s]) = 0 /\ owed[s] = {}
          /\ \A i \in Slots(s) : worker[s][i].out = 0 /\ worker[s][i].pend = {}
    BY DEF Init, Idle, At, DONE
  <2>3. \A d \in Steps : \A u \in Upstream[d] : held[d] <= Produced(u)
    <3>1. \A d \in Steps : held[d] = 0
      BY DEF Init, DONE
    <3> QED BY <2>2, <3>1, EdgeType DEF Produced
  <2>4. \A s \in Steps : Yields[s] >= 0 /\ runner[s] = "created"
    BY LimitAssumption DEF Init
  <2> QED BY <2>1, <2>2, <2>3, <2>4 DEF Travelling
<1> QED BY <1>4, <1>5 DEF TypeInv

-----------------------------------------------------------------------------
(* What the assignments the actions share do to the types. *)

LEMMA WorkerUpdate ==
  ASSUME TypeOK, NEW s \in Steps, NEW i \in Slots(s), NEW w \in Worker,
         worker' = [worker EXCEPT ![s][i] = w]
  PROVE  /\ worker' = [t \in Steps |-> worker'[t]]
         /\ \A t \in Steps : worker'[t] \in [Slots(t) -> Worker]
         /\ \A t \in Steps : \A j \in Slots(t) :
              worker'[t][j] = IF t = s /\ j = i THEN w ELSE worker[t][j]
<1>1. worker = [t \in Steps |-> worker[t]] /\ worker[s] \in [Slots(s) -> Worker]
  BY DEF TypeOK
<1>2. worker' = [worker EXCEPT ![s] = [worker[s] EXCEPT ![i] = w]]
  OBVIOUS
<1>3. \A t \in Steps : worker'[t] = IF t = s THEN [worker[s] EXCEPT ![i] = w] ELSE worker[t]
  BY <1>1, <1>2
<1>4. worker' = [t \in Steps |-> worker'[t]]
  BY <1>1, <1>2
<1>5. [worker[s] EXCEPT ![i] = w] \in [Slots(s) -> Worker]
  BY <1>1
<1> QED BY <1>1, <1>3, <1>4, <1>5 DEF TypeOK

LEMMA AdvanceType ==
  ASSUME TypeOK, NEW s \in Steps, NEW i \in Slots(s), NEW w \in Worker, Advance(s, i, w)
  PROVE  /\ worker' = [t \in Steps |-> worker'[t]]
         /\ \A t \in Steps : worker'[t] \in [Slots(t) -> Worker]
         /\ \A t \in Steps : \A j \in Slots(t) :
              worker'[t][j] = IF t = s /\ j = i THEN w ELSE worker[t][j]
         /\ permits' \in [Steps -> Nat]
<1>1. permits' \in [Steps -> Nat]
  BY LimitAssumption DEF Advance, TypeOK
<1>2. worker' = [worker EXCEPT ![s][i] = w]
  BY DEF Advance
<1> QED BY <1>1, <1>2, WorkerUpdate, ZenonT(40)

LEMMA TakeFromQueue ==
  ASSUME TypeOK, NEW e \in Edges, queue[e] # <<>>,
         queue' = [queue EXCEPT ![e] = Tail(queue[e])]
  PROVE  /\ queue' \in [Edges -> Seq({DONE} \cup Ordinals)]
         /\ Head(queue[e]) \in {DONE} \cup Ordinals
         /\ Head(queue[e]) = queue[e][1] /\ 1 \in 1 .. Len(queue[e])
         /\ \A f \in Edges : \A j \in 1 .. Len(queue'[f]) :
              \E k \in 1 .. Len(queue[f]) : queue'[f][j] = queue[f][k]
<1>1. queue \in [Edges -> Seq({DONE} \cup Ordinals)]
  BY DEF TypeOK
<1> DEFINE q == queue[e]
<1>2. /\ q \in Seq({DONE} \cup Ordinals) /\ q # <<>>
  BY <1>1
<1> HIDE DEF q
<1>3. /\ Tail(q) \in Seq({DONE} \cup Ordinals) /\ Head(q) \in {DONE} \cup Ordinals
      /\ Head(q) = q[1] /\ 1 \in 1 .. Len(q)
      /\ Len(Tail(q)) = Len(q) - 1
      /\ \A j \in 1 .. Len(Tail(q)) : j + 1 \in 1 .. Len(q) /\ Tail(q)[j] = q[j + 1]
  BY <1>2
<1>4. \A f \in Edges : queue'[f] = IF f = e THEN Tail(q) ELSE queue[f]
  BY <1>1 DEF q
<1>5. queue' \in [Edges -> Seq({DONE} \cup Ordinals)]
  BY <1>1, <1>3 DEF q
<1>6. ASSUME NEW f \in Edges, NEW j \in 1 .. Len(queue'[f])
      PROVE  \E k \in 1 .. Len(queue[f]) : queue'[f][j] = queue[f][k]
  <2>1. CASE f = e
    <3>1. j \in 1 .. Len(Tail(q)) /\ queue'[f][j] = Tail(q)[j]
      BY <1>4, <2>1
    <3>2. j + 1 \in 1 .. Len(queue[f]) /\ queue'[f][j] = queue[f][j + 1]
      BY <1>3, <2>1, <3>1 DEF q
    <3> QED BY <3>2
  <2>2. CASE f # e
    BY <1>4, <2>2
  <2> QED BY <2>1, <2>2
<1> QED BY <1>3, <1>5, <1>6 DEF q

LEMMA PutInQueue ==
  ASSUME TypeOK, NEW e \in Edges, NEW x \in {DONE} \cup Ordinals,
         queue' = [queue EXCEPT ![e] = Append(queue[e], x)]
  PROVE  /\ queue' \in [Edges -> Seq({DONE} \cup Ordinals)]
         /\ \A f \in Edges : \A j \in 1 .. Len(queue'[f]) :
              \/ j \in 1 .. Len(queue[f]) /\ queue'[f][j] = queue[f][j]
              \/ f = e /\ queue'[f][j] = x
<1>1. queue \in [Edges -> Seq({DONE} \cup Ordinals)]
  BY DEF TypeOK
<1> DEFINE q == queue[e]
<1>2. q \in Seq({DONE} \cup Ordinals)
  BY <1>1
<1> HIDE DEF q
<1>3. /\ Append(q, x) \in Seq({DONE} \cup Ordinals)
      /\ Len(Append(q, x)) = Len(q) + 1
      /\ \A j \in 1 .. Len(q) : Append(q, x)[j] = q[j]
      /\ Append(q, x)[Len(q) + 1] = x
      /\ Len(q) \in Nat
  BY <1>2
<1>4. \A f \in Edges : queue'[f] = IF f = e THEN Append(q, x) ELSE queue[f]
  BY <1>1 DEF q
<1>5. queue' \in [Edges -> Seq({DONE} \cup Ordinals)]
  BY <1>1, <1>3 DEF q
<1>6. ASSUME NEW f \in Edges, NEW j \in 1 .. Len(queue'[f])
      PROVE  \/ j \in 1 .. Len(queue[f]) /\ queue'[f][j] = queue[f][j]
             \/ f = e /\ queue'[f][j] = x
  <2>1. CASE f = e
    <3>1. j \in 1 .. Len(q) + 1 /\ queue'[f][j] = Append(q, x)[j]
      BY <1>3, <1>4, <2>1
    <3> QED BY <1>3, <2>1, <3>1 DEF q
  <2>2. CASE f # e
    BY <1>4, <2>2
  <2> QED BY <2>1, <2>2
<1> QED BY <1>5, <1>6

LEMMA OutputGrows ==
  ASSUME TypeOK, NEW s \in Steps, NEW k \in Keys,
         output' = [output EXCEPT ![s] = Append(@, k)]
  PROVE  /\ output' \in [Steps -> Seq(Keys)]
         /\ \A t \in Steps : Len(output'[t]) = IF t = s THEN Len(output[s]) + 1
                                              ELSE Len(output[t])
         /\ \A t \in Steps : Len(output[t]) \in Nat
BY DEF TypeOK

-----------------------------------------------------------------------------
(* Every step preserves the invariant: the runners. *)

LEMMA StartTypeInv ==
  ASSUME TypeInv, NEW s \in Steps, Start(s)
  PROVE  TypeInv'
<1> USE DEF TypeInv
<1>1. \A t \in Steps : worker'[t] = IF t = s /\ IsMerge(s) THEN [i \in Slots(s) |-> Taking]
                                   ELSE worker[t]
  BY DEF Start, TypeOK
<1>2. worker' = [t \in Steps |-> worker'[t]]
  <2>1. worker = [t \in Steps |-> worker[t]]
    BY DEF TypeOK
  <2> DEFINE w == IF IsMerge(s) THEN [i \in Slots(s) |-> Taking] ELSE worker[s]
  <2>2. worker' = [worker EXCEPT ![s] = w]
    BY DEF Start
  <2> HIDE DEF w
  <2> QED BY <2>1, <2>2
<1>3. ASSUME NEW t \in Steps PROVE worker'[t] \in [Slots(t) -> Worker]
  <2>1. worker[t] \in [Slots(t) -> Worker]
    BY DEF TypeOK
  <2>2. [i \in Slots(t) |-> Taking] \in [Slots(t) -> Worker]
    BY WorkerType
  <2> QED BY <1>1, <2>1, <2>2
<1>4. runner' \in [Steps -> {"created", "receiving", "acquiring", "joining", "closing"}
                            \cup Ended]
  BY DEF Start, TypeOK
<1>5. TypeOK'
  BY <1>2, <1>3, <1>4 DEF Start, TypeOK, mergeVars, consumerVars
<1>6. Travelling'
  <2>1. \A t \in Steps : Len(output[t]) \in Nat
    BY DEF TypeOK
  <2>2. \A t \in Steps : \A i \in Slots(t) :
          worker'[t][i].out <= Len(output[t]) /\ worker'[t][i].pend \subseteq Downstream(t)
    BY <1>1, <2>1 DEF Travelling, Taking, At, DONE
  <2>3. \A t \in Steps : runner'[t] = "acquiring" => runner[t] = "acquiring"
    BY DEF Start, TypeOK
  <2> QED BY <2>2, <2>3 DEF Start, Travelling, Produced
<1> QED BY <1>5, <1>6

(* An invocation is created with an item that has been produced. *)
LEMMA SpawnType ==
  ASSUME TypeInv, NEW s \in Steps, NEW u \in Upstream[s], ~IsMerge(s),
         NEW n \in Ordinals, n <= Produced(u), ~NoPermit(s), Spawn(s, u, n)
  PROVE  /\ worker' = [t \in Steps |-> worker'[t]]
         /\ \A t \in Steps : worker'[t] \in [Slots(t) -> Worker]
         /\ \A t \in Steps : \A j \in Slots(t) :
              worker'[t][j] = IF t = s /\ j = n THEN Created(KeyOf(u, n)) ELSE worker[t][j]
         /\ permits' \in [Steps -> Nat]
<1>1. Created(KeyOf(u, n)) \in Worker
  BY EdgeType, KeyType, WorkerType DEF TypeInv
<1>2. n \in Slots(s)
  BY DEF Slots
<1>3. permits' \in [Steps -> Nat]
  BY LimitAssumption DEF Spawn, NoPermit, TypeInv, TypeOK
<1> DEFINE w == Created(KeyOf(u, n))
<1>4. worker' = [worker EXCEPT ![s][n] = w] /\ TypeOK
  BY DEF Spawn, TypeInv
<1> HIDE DEF w
<1>5. /\ worker' = [t \in Steps |-> worker'[t]]
      /\ \A t \in Steps : worker'[t] \in [Slots(t) -> Worker]
      /\ \A t \in Steps : \A j \in Slots(t) :
           worker'[t][j] = IF t = s /\ j = n THEN w ELSE worker[t][j]
  <2>1. w \in Worker
    BY <1>1 DEF w
  <2> HIDE DEF TypeInv
  <2> QED BY <2>1, <1>2, <1>4, WorkerUpdate, ZenonT(40)
<1> QED BY <1>3, <1>5 DEF w

LEMMA TakeTypeInv ==
  ASSUME TypeInv, NEW s \in Steps, NEW u \in Upstream[s], ~IsMerge(s), Take(s, u)
  PROVE  TypeInv'
<1> USE DEF TypeInv
<1> DEFINE n == Head(queue[<<u, s>>])
<1>0. <<u, s>> \in Edges
  BY EdgeType
<1>1. /\ queue' \in [Edges -> Seq({DONE} \cup Ordinals)]
      /\ n \in {DONE} \cup Ordinals /\ n <= Produced(u)
      /\ \A f \in Edges : \A j \in 1 .. Len(queue'[f]) :
           \E k \in 1 .. Len(queue[f]) : queue'[f][j] = queue[f][k]
  <2>1. /\ queue[<<u, s>>] # <<>>
        /\ queue' = [queue EXCEPT ![<<u, s>>] = Tail(queue[<<u, s>>])]
    BY DEF Take
  <2>2. /\ n \in {DONE} \cup Ordinals
        /\ n = queue[<<u, s>>][1] /\ 1 \in 1 .. Len(queue[<<u, s>>])
    BY <1>0, <2>1, TakeFromQueue
  <2>3. n <= Produced(u)
    BY <2>2 DEF Travelling
  <2> HIDE DEF n, TypeInv
  <2> QED BY <1>0, <2>1, <2>2, <2>3, TakeFromQueue DEF TypeInv
<1>2. \A d \in Steps : \A v \in Upstream[d] :
        \A j \in 1 .. Len(queue'[<<v, d>>]) : queue'[<<v, d>>][j] <= Produced(v)
  BY <1>1, EdgeType, ZenonT(40) DEF Travelling
<1>3. \A v \in Upstream[s] : v = u
  BY TopologyAssumption DEF IsMerge
<1> HIDE DEF n
<1>4. CASE n = DONE /\ runner' = [runner EXCEPT ![s] = "joining"]
           /\ UNCHANGED <<held, worker, permits>>
  <2>1. TypeOK'
    BY <1>1, <1>4 DEF Take, TypeOK, mergeVars, consumerVars
  <2>2. Travelling'
    BY <1>2, <1>4 DEF Take, TypeOK, Travelling, Produced
  <2> QED BY <2>1, <2>2
<1>5. CASE n # DONE /\ AwaitPermit(s, n) /\ UNCHANGED <<worker, permits>>
  <2>1. TypeOK'
    BY <1>1, <1>5 DEF Take, AwaitPermit, TypeOK, mergeVars, consumerVars
  <2>2. Travelling'
    BY <1>1, <1>2, <1>3, <1>5, ZenonT(40) DEF Take, AwaitPermit, TypeOK, Travelling, Produced
  <2> QED BY <2>1, <2>2
<1>6. CASE n # DONE /\ ~NoPermit(s) /\ Spawn(s, u, n) /\ UNCHANGED <<runner, held>>
  <2>1. n \in Ordinals
    BY <1>1, <1>6
  <2>2. /\ worker' = [t \in Steps |-> worker'[t]]
        /\ \A t \in Steps : worker'[t] \in [Slots(t) -> Worker]
        /\ \A t \in Steps : \A j \in Slots(t) :
             worker'[t][j] = IF t = s /\ j = n THEN Created(KeyOf(u, n)) ELSE worker[t][j]
        /\ permits' \in [Steps -> Nat]
    BY <1>1, <1>6, <2>1, SpawnType
  <2>3. TypeOK'
    BY <1>1, <1>6, <2>2 DEF Take, TypeOK, mergeVars, consumerVars
  <2>4. \A t \in Steps : \A j \in Slots(t) :
          worker'[t][j].out <= Len(output[t]) /\ worker'[t][j].pend \subseteq Downstream(t)
    <3>1. \A t \in Steps : Len(output[t]) \in Nat
      BY DEF TypeOK
    <3> QED BY <2>2, <3>1 DEF Travelling, Created, At, DONE
  <2>5. Travelling'
    BY <1>2, <1>6, <2>4 DEF Take, Travelling, Produced
  <2> QED BY <2>3, <2>5
<1> QED BY <1>4, <1>5, <1>6 DEF Take, n

LEMMA AcquireTypeInv ==
  ASSUME TypeInv, NEW s \in Steps, NEW u \in Upstream[s], ~IsMerge(s), Acquire(s, u)
  PROVE  TypeInv'
<1> USE DEF TypeInv
<1>1. held[s] \in Ordinals /\ held[s] <= Produced(u) /\ ~NoPermit(s)
  <2>1. runner[s] = "acquiring" /\ permits[s] > 0
    BY DEF Acquire
  <2>2. permits[s] \in Nat /\ held[s] \in {DONE} \cup Ordinals
    BY DEF TypeOK
  <2>3. held[s] # DONE /\ held[s] <= Produced(u)
    BY <2>1 DEF Travelling
  <2> QED BY <2>1, <2>2, <2>3 DEF NoPermit
<1>2. /\ worker' = [t \in Steps |-> worker'[t]]
      /\ \A t \in Steps : worker'[t] \in [Slots(t) -> Worker]
      /\ \A t \in Steps : \A j \in Slots(t) :
           worker'[t][j] = IF t = s /\ j = held[s] THEN Created(KeyOf(u, held[s]))
                           ELSE worker[t][j]
      /\ permits' \in [Steps -> Nat]
  BY <1>1, SpawnType DEF Acquire
<1>3. TypeOK'
  BY <1>2 DEF Acquire, TypeOK, mergeVars, consumerVars
<1>4. \A t \in Steps : \A j \in Slots(t) :
        worker'[t][j].out <= Len(output[t]) /\ worker'[t][j].pend \subseteq Downstream(t)
  <2>1. \A t \in Steps : Len(output[t]) \in Nat
    BY DEF TypeOK
  <2> QED BY <1>2, <2>1 DEF Travelling, Created, At, DONE
<1>5. \A d \in Steps : \A v \in Upstream[d] : held'[d] <= Produced(v)
  <2>1. \A d \in Steps : \A v \in Upstream[d] : Produced(v) \in Nat
    BY EdgeType DEF TypeOK, Produced
  <2>2. \A d \in Steps : held'[d] = IF d = s THEN 0 ELSE held[d]
    BY DEF Acquire, TypeOK, DONE
  <2>3. \A d \in Steps : \A v \in Upstream[d] : held[d] <= Produced(v)
    BY DEF Travelling
  <2> QED BY <2>1, <2>2, <2>3
<1>6. \A t \in Steps : runner'[t] = "acquiring" => held'[t] # DONE
  BY DEF Acquire, TypeOK, Travelling
<1>7. Travelling'
  BY <1>4, <1>5, <1>6 DEF Acquire, Travelling, Produced
<1> QED BY <1>3, <1>7

LEMMA BeginClosingType ==
  ASSUME TypeInv, NEW s \in Steps, BeginClosing(s)
  PROVE  /\ owed' \in [Steps -> SUBSET Steps]
         /\ \A t \in Steps : owed'[t] \subseteq Downstream(t)
         /\ runner' \in [Steps -> {"created", "receiving", "acquiring", "joining", "closing"}
                                     \cup Ended]
         /\ \A t \in Steps : runner'[t] = "acquiring" => runner[t] = "acquiring"
BY DEF BeginClosing, TypeInv, TypeOK, Travelling, Ended, Downstream

LEMMA JoinTypeInv ==
  ASSUME TypeInv, NEW s \in Steps, Join(s)
  PROVE  TypeInv'
<1> USE DEF TypeInv
<1>1. BeginClosing(s)
  BY DEF Join
<1>2. Incomplete(s) \subseteq Keys
  BY DEF Incomplete
<1>3. reported' \in [Steps -> SUBSET Keys] /\ failed' \subseteq Steps
  <2>1. \/ /\ reported' = [reported EXCEPT ![s] = Incomplete(s)]
           /\ failed' = failed \cup {s}
        \/ reported' = reported /\ failed' = failed
    BY DEF Join
  <2>2. reported \in [Steps -> SUBSET Keys] /\ failed \subseteq Steps
    BY DEF TypeOK
  <2> QED BY <1>2, <2>1, <2>2
<1>4. TypeOK'
  BY <1>1, <1>3, BeginClosingType DEF Join, TypeOK, consumerVars
<1>5. Travelling'
  BY <1>1, BeginClosingType DEF Join, Travelling, Produced
<1> QED BY <1>4, <1>5

LEMMA PutDoneTypeInv ==
  ASSUME TypeInv, NEW s \in Steps, PutDone(s)
  PROVE  TypeInv'
<1> USE DEF TypeInv
<1>1. PICK d \in owed[s] :
        /\ queue' = [queue EXCEPT ![<<s, d>>] = Append(queue[<<s, d>>], DONE)]
        /\ owed' = [owed EXCEPT ![s] = @ \ {d}]
        /\ runner' = [runner EXCEPT ![s] = IF owed[s] = {d} THEN "done" ELSE @]
  BY DEF PutDone
<1>2. <<s, d>> \in Edges
  BY DownstreamType DEF Travelling
<1>3. /\ queue' \in [Edges -> Seq({DONE} \cup Ordinals)]
      /\ \A f \in Edges : \A j \in 1 .. Len(queue'[f]) :
           \/ j \in 1 .. Len(queue[f]) /\ queue'[f][j] = queue[f][j]
           \/ f = <<s, d>> /\ queue'[f][j] = DONE
  <2>1. DONE \in {DONE} \cup Ordinals
    OBVIOUS
  <2>2. queue' = [queue EXCEPT ![<<s, d>>] = Append(queue[<<s, d>>], DONE)]
    BY <1>1
  <2> DEFINE e == <<s, d>>
             x == DONE
  <2>3. /\ e \in Edges /\ x \in {DONE} \cup Ordinals
        /\ queue' = [queue EXCEPT ![e] = Append(queue[e], x)]
    BY <1>2, <2>1, <2>2
  <2> HIDE DEF e, x
  <2>4. /\ queue' \in [Edges -> Seq({DONE} \cup Ordinals)]
        /\ \A f \in Edges : \A j \in 1 .. Len(queue'[f]) :
             \/ j \in 1 .. Len(queue[f]) /\ queue'[f][j] = queue[f][j]
             \/ f = e /\ queue'[f][j] = x
    BY <2>3, PutInQueue, ZenonT(40)
  <2> QED BY <2>4 DEF e, x
<1>4. owed' \in [Steps -> SUBSET Steps] /\ \A t \in Steps : owed'[t] \subseteq owed[t]
  BY <1>1 DEF TypeOK
<1>5. runner' \in [Steps -> {"created", "receiving", "acquiring", "joining", "closing"}
                            \cup Ended]
  BY <1>1 DEF TypeOK, Ended
<1>6. TypeOK'
  BY <1>3, <1>4, <1>5 DEF PutDone, TypeOK, mergeVars, consumerVars
<1>7. ASSUME NEW e \in Steps, NEW v \in Upstream[e], NEW j \in 1 .. Len(queue'[<<v, e>>])
      PROVE  queue'[<<v, e>>][j] <= Produced(v)
  <2>1. Produced(v) \in Nat
    BY EdgeType DEF TypeOK, Produced
  <2>2. <<v, e>> \in Edges
    BY EdgeType
  <2> QED BY <1>3, <2>1, <2>2 DEF Travelling, DONE
<1>8. \A t \in Steps : runner'[t] = "acquiring" => runner[t] = "acquiring"
  BY <1>1 DEF TypeOK
<1>9. Travelling'
  BY <1>4, <1>7, <1>8 DEF PutDone, Travelling, Produced
<1> QED BY <1>6, <1>9

-----------------------------------------------------------------------------
(* Every step preserves the invariant: the invocations. *)

(* An invocation that ends or goes on without an output in hand. *)
LEMMA AdvanceTypeInv ==
  ASSUME TypeInv, NEW s \in Steps, NEW i \in Slots(s), NEW w \in Worker,
         w.out = DONE, w.pend = {}, Advance(s, i, w),
         UNCHANGED <<runner, queue, held, owed, output, mergeVars, consumerVars>>,
         failed' \subseteq Steps
  PROVE  TypeInv'
<1> USE DEF TypeInv
<1>1. /\ worker' = [t \in Steps |-> worker'[t]]
      /\ \A t \in Steps : worker'[t] \in [Slots(t) -> Worker]
      /\ \A t \in Steps : \A j \in Slots(t) :
           worker'[t][j] = IF t = s /\ j = i THEN w ELSE worker[t][j]
      /\ permits' \in [Steps -> Nat]
  BY AdvanceType
<1>2. TypeOK'
  BY <1>1 DEF TypeOK, mergeVars, consumerVars
<1>3. \A t \in Steps : \A j \in Slots(t) :
        worker'[t][j].out <= Len(output[t]) /\ worker'[t][j].pend \subseteq Downstream(t)
  <2>1. \A t \in Steps : Len(output[t]) \in Nat
    BY DEF TypeOK
  <2> QED BY <1>1, <2>1 DEF Travelling, DONE
<1>4. Travelling'
  BY <1>3 DEF Travelling, Produced
<1> QED BY <1>2, <1>4

LEMMA ReturnTypeInv ==
  ASSUME TypeInv, NEW s \in Steps, NEW i \in Slots(s), Return(s, i) \/ Raise(s, i)
  PROVE  TypeInv'
<1>1. Returned(s) \in Worker /\ Returned(s).out = DONE /\ Returned(s).pend = {}
  BY WorkerType DEF Returned, Taking, Over, At
<1>2. Advance(s, i, Returned(s)) /\ failed' \subseteq Steps
  BY DEF Return, Raise, TypeInv, TypeOK
<1>3. UNCHANGED <<runner, queue, held, owed, output, mergeVars, consumerVars>>
  BY DEF Return, Raise
<1> QED BY <1>1, <1>2, <1>3, AdvanceTypeInv

LEMMA BeginTypeInv ==
  ASSUME TypeInv, NEW s \in Steps, NEW i \in Slots(s), Begin(s, i)
  PROVE  TypeInv'
<1> DEFINE w == Running(worker[s][i].key)
<1>1. worker[s][i].key \in Keys
  BY DEF TypeInv, TypeOK, Worker
<1>2. w \in Worker /\ w.out = DONE /\ w.pend = {}
  BY <1>1, WorkerType DEF Running, At
<1>3. /\ Advance(s, i, w)
      /\ UNCHANGED <<runner, queue, held, owed, output, failed, mergeVars, consumerVars>>
  BY DEF Begin
<1>4. failed' \subseteq Steps
  BY <1>3 DEF TypeInv, TypeOK
<1> HIDE DEF w
<1> QED BY <1>2, <1>3, <1>4, AdvanceTypeInv

LEMMA DeliveredType ==
  ASSUME NEW s \in Steps, NEW w \in Worker
  PROVE  /\ Delivered(s, w) \in Worker
         /\ Delivered(s, w).out = DONE /\ Delivered(s, w).pend = {}
<1>1. w.key \in Keys
  BY DEF Worker
<1> QED BY <1>1, WorkerType DEF Delivered, Running, Over, At

LEMMA EmitTypeInv ==
  ASSUME TypeInv, NEW s \in Steps, NEW i \in Slots(s), Emit(s, i)
  PROVE  TypeInv'
<1> USE DEF TypeInv
<1> DEFINE w == worker[s][i]
           x == IF Downstream(s) = {} THEN Delivered(s, w)
                ELSE [pc |-> "putting", key |-> w.key, out |-> Len(output[s]) + 1,
                      pend |-> Downstream(s)]
<1>1. w \in Worker /\ w.key \in Keys
  BY DEF TypeOK, Worker
<1>2. Len(output[s]) \in Nat /\ Len(output[s]) < Yields[s] /\ Yields[s] \in 0 .. MaxItems
  <2>1. Len(output[s]) \in Nat
    BY DEF TypeOK
  <2>2. Len(output[s]) < Yields[s]
    BY DEF Emit
  <2> QED BY <2>1, <2>2, LimitAssumption
<1>3. OutKey(s, w) \in Keys
  BY <1>1, <1>2, LimitAssumption DEF OutKey, Keys
<1>4. /\ output' \in [Steps -> Seq(Keys)]
      /\ \A t \in Steps : Len(output'[t]) = IF t = s THEN Len(output[s]) + 1
                                           ELSE Len(output[t])
      /\ \A t \in Steps : Len(output[t]) \in Nat
  <2>1. output' = [output EXCEPT ![s] = Append(@, OutKey(s, w))]
    BY DEF Emit
  <2> HIDE DEF w
  <2> QED BY <1>3, <2>1, OutputGrows
<1>5. /\ x \in Worker
      /\ x.out <= Len(output[s]) + 1
      /\ x.pend \subseteq Downstream(s)
  <2>1. CASE Downstream(s) = {}
    BY <1>1, <1>2, <2>1, DeliveredType DEF DONE
  <2>2. CASE Downstream(s) # {}
    <3>1. Len(output[s]) + 1 \in Ordinals
      BY <1>2, LimitAssumption DEF Ordinals
    <3>2. Downstream(s) \subseteq Steps
      BY DEF Downstream
    <3> QED BY <1>1, <1>2, <2>2, <3>1, <3>2 DEF Worker
  <2> QED BY <2>1, <2>2
<1>6. Advance(s, i, x)
  BY DEF Emit
<1> HIDE DEF x, w
<1>7. /\ worker' = [t \in Steps |-> worker'[t]]
      /\ \A t \in Steps : worker'[t] \in [Slots(t) -> Worker]
      /\ \A t \in Steps : \A j \in Slots(t) :
           worker'[t][j] = IF t = s /\ j = i THEN x ELSE worker[t][j]
      /\ permits' \in [Steps -> Nat]
  BY <1>5, <1>6, AdvanceType
<1>8. UNCHANGED <<runner, queue, held, owed, failed, mergeVars, consumerVars>>
  BY DEF Emit
<1>9. TypeOK'
  BY <1>4, <1>7, <1>8 DEF TypeOK, mergeVars, consumerVars
<1>10. Travelling'
  <2>1. \A t \in Steps : Len(output'[t]) <= Yields[t]
    BY <1>2, <1>4 DEF Travelling
  <2>2. \A v \in Steps \cup {Input} :
          Produced(v) \in Nat /\ Produced(v)' \in Nat /\ Produced(v) <= Produced(v)'
    BY <1>4 DEF Produced
  <2>3. \A d \in Steps : \A v \in Upstream[d] :
          /\ \A j \in 1 .. Len(queue[<<v, d>>]) : queue[<<v, d>>][j] <= Produced(v)'
          /\ held[d] <= Produced(v)'
    <3> SUFFICES ASSUME NEW d \in Steps, NEW v \in Upstream[d]
                 PROVE  /\ \A j \in 1 .. Len(queue[<<v, d>>]) :
                             queue[<<v, d>>][j] <= Produced(v)'
                        /\ held[d] <= Produced(v)'
      OBVIOUS
    <3>1. \A j \in 1 .. Len(queue[<<v, d>>]) : queue[<<v, d>>][j] \in Nat
      <4>1. queue[<<v, d>>] \in Seq({DONE} \cup Ordinals)
        BY EdgeType DEF TypeOK
      <4> QED BY <4>1 DEF DONE, Ordinals
    <3>2. held[d] \in Nat
      BY DEF TypeOK, DONE, Ordinals
    <3>3. /\ \A j \in 1 .. Len(queue[<<v, d>>]) : queue[<<v, d>>][j] <= Produced(v)
          /\ held[d] <= Produced(v)
      BY DEF Travelling
    <3>4. Produced(v) \in Nat /\ Produced(v)' \in Nat /\ Produced(v) <= Produced(v)'
      <4>1. v \in Steps \cup {Input}
        BY EdgeType
      <4> QED BY <2>2, <4>1
    <3>5. \A a, b, c \in Nat : a <= b /\ b <= c => a <= c
      OBVIOUS
    <3> QED BY <3>1, <3>2, <3>3, <3>4, <3>5
  <2>4. \A t \in Steps : \A j \in Slots(t) :
          worker'[t][j].out <= Len(output'[t]) /\ worker'[t][j].pend \subseteq Downstream(t)
    <3>1. \A t \in Steps : \A j \in Slots(t) :
            worker[t][j].out \in Nat /\ worker[t][j].out <= Len(output[t])
      <4>1. \A t \in Steps : \A j \in Slots(t) : worker[t][j] \in Worker
        BY DEF TypeOK
      <4>2. \A v \in Worker : v.out \in Nat
        BY DEF Worker, DONE, Ordinals
      <4> QED BY <4>1, <4>2 DEF Travelling
    <3>2. \A t \in Steps : \A j \in Slots(t) : worker[t][j].pend \subseteq Downstream(t)
      BY DEF Travelling
    <3>3. ASSUME NEW t \in Steps, NEW j \in Slots(t)
          PROVE  worker'[t][j].out <= Len(output'[t]) /\ worker'[t][j].pend \subseteq Downstream(t)
      <4>1. CASE t = s /\ j = i
        BY <1>4, <1>5, <1>7, <4>1
      <4>2. CASE ~(t = s /\ j = i)
        BY <1>4, <1>7, <3>1, <3>2, <4>2, SMTT(30)
      <4> QED BY <4>1, <4>2
    <3> QED BY <3>3
  <2> QED BY <1>8, <2>1, <2>3, <2>4 DEF Travelling
<1> QED BY <1>9, <1>10

LEMMA PutTypeInv ==
  ASSUME TypeInv, NEW s \in Steps, NEW i \in Slots(s), Put(s, i)
  PROVE  TypeInv'
<1> USE DEF TypeInv
<1> DEFINE w == worker[s][i]
<1>1. w \in Worker /\ w.pend \subseteq Downstream(s) /\ w.out <= Len(output[s])
  BY DEF TypeOK, Travelling
<1>2. PICK d \in w.pend :
        /\ queue' = [queue EXCEPT ![<<s, d>>] = Append(queue[<<s, d>>], w.out)]
        /\ Advance(s, i, IF Remaining(w, d) = {} THEN Delivered(s, w)
                         ELSE [w EXCEPT !.pend = Remaining(w, d)])
  BY DEF Put
<1> DEFINE e == <<s, d>>
           x == IF Remaining(w, d) = {} THEN Delivered(s, w)
                ELSE [w EXCEPT !.pend = Remaining(w, d)]
<1>3. e \in Edges /\ w.out \in {DONE} \cup Ordinals /\ w.out \in Nat
  BY <1>1, DownstreamType DEF Worker, DONE, Ordinals
<1>4. UNCHANGED <<runner, held, owed, output, failed, mergeVars, consumerVars>>
  BY DEF Put
<1>5. Len(output[s]) \in Nat
  BY DEF TypeOK
<1>6. x \in Worker /\ x.out <= Len(output[s]) /\ x.pend \subseteq Downstream(s)
  <2>1. CASE Remaining(w, d) = {}
    BY <1>1, <1>5, <2>1, DeliveredType DEF DONE
  <2>2. CASE Remaining(w, d) # {}
    <3>1. Remaining(w, d) \subseteq w.pend
      BY DEF Remaining
    <3> QED BY <1>1, <2>2, <3>1 DEF Worker
  <2> QED BY <2>1, <2>2
<1>7. /\ queue' = [queue EXCEPT ![e] = Append(queue[e], w.out)]
      /\ Advance(s, i, x)
  BY <1>2
<1> HIDE DEF x, w, e
<1>8. /\ worker' = [t \in Steps |-> worker'[t]]
      /\ \A t \in Steps : worker'[t] \in [Slots(t) -> Worker]
      /\ \A t \in Steps : \A j \in Slots(t) :
           worker'[t][j] = IF t = s /\ j = i THEN x ELSE worker[t][j]
      /\ permits' \in [Steps -> Nat]
  BY <1>6, <1>7, AdvanceType
<1>9. /\ queue' \in [Edges -> Seq({DONE} \cup Ordinals)]
      /\ \A f \in Edges : \A j \in 1 .. Len(queue'[f]) :
           \/ j \in 1 .. Len(queue[f]) /\ queue'[f][j] = queue[f][j]
           \/ f = e /\ queue'[f][j] = w.out
  BY <1>3, <1>7, PutInQueue, ZenonT(40)
<1>10. TypeOK'
  BY <1>4, <1>8, <1>9 DEF TypeOK, mergeVars, consumerVars
<1>11. ASSUME NEW c \in Steps, NEW v \in Upstream[c], NEW j \in 1 .. Len(queue'[<<v, c>>])
       PROVE  queue'[<<v, c>>][j] <= Produced(v)
  <2>1. <<v, c>> \in Edges
    BY EdgeType
  <2>2. CASE j \in 1 .. Len(queue[<<v, c>>]) /\ queue'[<<v, c>>][j] = queue[<<v, c>>][j]
    BY <2>2 DEF Travelling
  <2>3. CASE <<v, c>> = e /\ queue'[<<v, c>>][j] = w.out
    <3>1. v = s /\ s # Input
      BY <2>3, TopologyAssumption DEF e
    <3> QED BY <1>1, <2>3, <3>1 DEF Produced
  <2> QED BY <1>9, <2>1, <2>2, <2>3
<1>12. Travelling'
  BY <1>4, <1>6, <1>8, <1>11 DEF Travelling, Produced
<1> QED BY <1>10, <1>12

-----------------------------------------------------------------------------
(* Every step preserves the invariant: the merges. *)

(* Reading an item from a queue leaves only produced items there. *)
LEMMA TakeTravelling ==
  ASSUME TypeInv, NEW s \in Steps, NEW u \in Upstream[s], queue[<<u, s>>] # <<>>,
         queue' = [queue EXCEPT ![<<u, s>>] = Tail(queue[<<u, s>>])]
  PROVE  /\ queue' \in [Edges -> Seq({DONE} \cup Ordinals)]
         /\ \A d \in Steps : \A v \in Upstream[d] :
              \A j \in 1 .. Len(queue'[<<v, d>>]) : queue'[<<v, d>>][j] <= Produced(v)
         /\ Head(queue[<<u, s>>]) \in {DONE} \cup Ordinals
         /\ Head(queue[<<u, s>>]) <= Produced(u)
<1> DEFINE e == <<u, s>>
<1>1. e \in Edges /\ queue[e] # <<>> /\ queue' = [queue EXCEPT ![e] = Tail(queue[e])]
  BY EdgeType
<1>2. TypeOK /\ Travelling
  BY DEF TypeInv
<1> HIDE DEF e
<1>3. /\ queue' \in [Edges -> Seq({DONE} \cup Ordinals)]
      /\ Head(queue[e]) \in {DONE} \cup Ordinals
      /\ Head(queue[e]) = queue[e][1] /\ 1 \in 1 .. Len(queue[e])
      /\ \A f \in Edges : \A j \in 1 .. Len(queue'[f]) :
           \E k \in 1 .. Len(queue[f]) : queue'[f][j] = queue[f][k]
  BY <1>1, <1>2, TakeFromQueue
<1>4. ASSUME NEW d \in Steps, NEW v \in Upstream[d], NEW j \in 1 .. Len(queue'[<<v, d>>])
      PROVE  queue'[<<v, d>>][j] <= Produced(v)
  <2>1. <<v, d>> \in Edges
    BY EdgeType
  <2>2. PICK k \in 1 .. Len(queue[<<v, d>>]) : queue'[<<v, d>>][j] = queue[<<v, d>>][k]
    BY <1>3, <2>1
  <2> QED BY <1>2, <2>2 DEF Travelling
<1>5. \A j \in 1 .. Len(queue[e]) : queue[e][j] <= Produced(u)
  BY <1>2 DEF e, Travelling
<1>6. Head(queue[e]) <= Produced(u)
  BY <1>3, <1>5
<1> QED BY <1>3, <1>4, <1>6 DEF e

(* A consume_source task goes on with nothing in hand. *)
LEMMA ConsumerType ==
  ASSUME TypeInv, NEW m \in Steps, NEW u \in Slots(m), NEW w \in Worker,
         w.out = DONE, w.pend = {}, worker' = [worker EXCEPT ![m][u] = w]
  PROVE  /\ worker' = [t \in Steps |-> worker'[t]]
         /\ \A t \in Steps : worker'[t] \in [Slots(t) -> Worker]
         /\ \A t \in Steps : \A j \in Slots(t) :
              worker'[t][j].out <= Len(output[t]) /\ worker'[t][j].pend \subseteq Downstream(t)
<1>1. TypeOK /\ Travelling
  BY DEF TypeInv
<1>2. /\ worker' = [t \in Steps |-> worker'[t]]
      /\ \A t \in Steps : worker'[t] \in [Slots(t) -> Worker]
      /\ \A t \in Steps : \A j \in Slots(t) :
           worker'[t][j] = IF t = m /\ j = u THEN w ELSE worker[t][j]
  BY <1>1, WorkerUpdate, ZenonT(40)
<1>3. \A t \in Steps : Len(output[t]) \in Nat
  BY <1>1 DEF TypeOK
<1> QED BY <1>1, <1>2, <1>3 DEF Travelling, DONE

LEMMA MergeEndTypeInv ==
  ASSUME TypeInv, NEW m \in Steps, IsMerge(m), NEW u \in Upstream[m],
         MergeTakeDone(m, u) \/ MergeKeyRaise(m, u)
  PROVE  TypeInv'
<1> USE DEF TypeInv
<1>1. /\ queue[<<u, m>>] # <<>>
      /\ queue' = [queue EXCEPT ![<<u, m>>] = Tail(queue[<<u, m>>])]
      /\ worker' = [worker EXCEPT ![m][u] = Over]
      /\ UNCHANGED <<held, permits, output, failed, mergeVars, consumerVars>>
  BY DEF MergeTakeDone, MergeKeyRaise
<1>2. /\ queue' \in [Edges -> Seq({DONE} \cup Ordinals)]
      /\ \A d \in Steps : \A v \in Upstream[d] :
           \A j \in 1 .. Len(queue'[<<v, d>>]) : queue'[<<v, d>>][j] <= Produced(v)
  BY <1>1, TakeTravelling
<1>3. u \in Slots(m) /\ Over \in Worker /\ Over.out = DONE /\ Over.pend = {}
  BY WorkerType DEF Slots, Over, At
<1>4. /\ worker' = [t \in Steps |-> worker'[t]]
      /\ \A t \in Steps : worker'[t] \in [Slots(t) -> Worker]
      /\ \A t \in Steps : \A j \in Slots(t) :
           worker'[t][j].out <= Len(output[t]) /\ worker'[t][j].pend \subseteq Downstream(t)
  BY <1>1, <1>3, ConsumerType
<1>5. /\ owed' \in [Steps -> SUBSET Steps]
      /\ \A t \in Steps : owed'[t] \subseteq Downstream(t)
      /\ runner' \in [Steps -> {"created", "receiving", "acquiring", "joining", "closing"}
                                  \cup Ended]
      /\ \A t \in Steps : runner'[t] = "acquiring" => runner[t] = "acquiring"
  <2>1. BeginClosing(m) \/ UNCHANGED <<runner, owed>>
    BY DEF MergeTakeDone, MergeKeyRaise
  <2>2. CASE UNCHANGED <<runner, owed>>
    BY <2>2 DEF TypeOK, Travelling
  <2> QED BY <2>1, <2>2, BeginClosingType
<1>6. TypeOK'
  BY <1>1, <1>2, <1>4, <1>5 DEF TypeOK, mergeVars, consumerVars
<1>7. Travelling'
  BY <1>1, <1>2, <1>4, <1>5 DEF Travelling, Produced
<1> QED BY <1>6, <1>7

LEMMA MergeTakeTypeInv ==
  ASSUME TypeInv, NEW m \in Steps, IsMerge(m), NEW u \in Upstream[m], MergeTake(m, u)
  PROVE  TypeInv'
<1> USE DEF TypeInv
<1> DEFINE n == Head(queue[<<u, m>>])
<1>1. /\ queue[<<u, m>>] # <<>> /\ n # DONE
      /\ queue' = [queue EXCEPT ![<<u, m>>] = Tail(queue[<<u, m>>])]
      /\ UNCHANGED <<runner, held, permits, owed, output, failed, reported, consumerVars>>
  BY DEF MergeTake
<1>2. /\ queue' \in [Edges -> Seq({DONE} \cup Ordinals)]
      /\ \A d \in Steps : \A v \in Upstream[d] :
           \A j \in 1 .. Len(queue'[<<v, d>>]) : queue'[<<v, d>>][j] <= Produced(v)
      /\ n \in Ordinals /\ n <= Produced(u)
  BY <1>1, TakeTravelling
<1>3. PICK k \in MergeKeys(m, u, n) :
        LET b == Stored(m, u, n, k) IN
        /\ arrived' = [arrived EXCEPT ![m] = @ \cup {[key |-> k, src |-> u, n |-> n]}]
        /\ IF Complete(m, b, k)
           THEN /\ bucket' = [bucket EXCEPT ![m] = Cleared(m, b, k)]
                /\ fired' = [fired EXCEPT ![m] = @ \cup {[key |-> k, vals |-> b[k]]}]
                /\ worker' = [worker EXCEPT ![m][u] = Running(k)]
           ELSE /\ bucket' = [bucket EXCEPT ![m] = b]
                /\ UNCHANGED <<fired, worker>>
  BY DEF MergeTake
<1> HIDE DEF n
<1>4. k \in Keys
  BY <1>2, EdgeType, KeyType DEF MergeKeys
<1> DEFINE b == Stored(m, u, n, k)
<1>5. /\ bucket[m] \in [Keys -> [Upstream[m] -> {DONE} \cup Ordinals]]
      /\ fired[m] \subseteq [key : Keys, vals : [Upstream[m] -> Ordinals]]
      /\ arrived[m] \subseteq [key : Keys, src : Upstream[m], n : Ordinals]
      /\ bucket = [s \in Steps |-> bucket[s]]
      /\ fired = [s \in Steps |-> fired[s]]
      /\ arrived = [s \in Steps |-> arrived[s]]
  BY DEF TypeOK
<1>6. b \in [Keys -> [Upstream[m] -> {DONE} \cup Ordinals]]
  BY <1>2, <1>4, <1>5 DEF Stored
<1>7. Cleared(m, b, k) \in [Keys -> [Upstream[m] -> {DONE} \cup Ordinals]]
  BY <1>4, <1>6 DEF Cleared, Absent
<1>8. Complete(m, b, k) => b[k] \in [Upstream[m] -> Ordinals]
  BY <1>4, <1>6 DEF Complete
<1>9. /\ arrived' = [s \in Steps |-> arrived'[s]]
      /\ \A s \in Steps :
           arrived'[s] \subseteq [key : Keys, src : Upstream[s], n : Ordinals]
  <2> DEFINE a == arrived[m] \cup {[key |-> k, src |-> u, n |-> n]}
  <2>1. arrived' = [arrived EXCEPT ![m] = a]
    BY <1>3
  <2>2. a \subseteq [key : Keys, src : Upstream[m], n : Ordinals]
    BY <1>2, <1>4, <1>5
  <2> HIDE DEF a
  <2> QED BY <1>5, <2>1, <2>2 DEF TypeOK
<1> HIDE DEF b
<1>10. /\ bucket' = [s \in Steps |-> bucket'[s]]
       /\ \A s \in Steps : bucket'[s] \in [Keys -> [Upstream[s] -> {DONE} \cup Ordinals]]
  <2> DEFINE c == IF Complete(m, b, k) THEN Cleared(m, b, k) ELSE b
  <2>1. bucket' = [bucket EXCEPT ![m] = c]
    BY <1>3 DEF b
  <2>2. c \in [Keys -> [Upstream[m] -> {DONE} \cup Ordinals]]
    BY <1>6, <1>7
  <2> HIDE DEF c
  <2> QED BY <1>5, <2>1, <2>2 DEF TypeOK
<1>11. /\ fired' = [s \in Steps |-> fired'[s]]
       /\ \A s \in Steps : fired'[s] \subseteq [key : Keys, vals : [Upstream[s] -> Ordinals]]
  <2>1. CASE Complete(m, b, k)
    <3> DEFINE f == fired[m] \cup {[key |-> k, vals |-> b[k]]}
    <3>1. fired' = [fired EXCEPT ![m] = f]
      BY <1>3, <2>1 DEF b
    <3>2. f \subseteq [key : Keys, vals : [Upstream[m] -> Ordinals]]
      BY <1>4, <1>5, <1>8, <2>1
    <3> HIDE DEF f
    <3> QED BY <1>5, <3>1, <3>2 DEF TypeOK
  <2>2. CASE ~Complete(m, b, k)
    BY <1>3, <2>2 DEF b, TypeOK
  <2> QED BY <2>1, <2>2
<1>12. /\ worker' = [t \in Steps |-> worker'[t]]
       /\ \A t \in Steps : worker'[t] \in [Slots(t) -> Worker]
       /\ \A t \in Steps : \A j \in Slots(t) :
            worker'[t][j].out <= Len(output[t]) /\ worker'[t][j].pend \subseteq Downstream(t)
  <2>1. CASE Complete(m, b, k)
    <3>1. u \in Slots(m) /\ Running(k) \in Worker
          /\ Running(k).out = DONE /\ Running(k).pend = {}
      BY <1>4, WorkerType DEF Slots, Running, At
    <3>2. worker' = [worker EXCEPT ![m][u] = Running(k)]
      BY <1>3, <2>1 DEF b
    <3> QED BY <3>1, <3>2, ConsumerType
  <2>2. CASE ~Complete(m, b, k)
    BY <1>3, <2>2 DEF b, TypeOK, Travelling
  <2> QED BY <2>1, <2>2
<1>13. TypeOK'
  BY <1>1, <1>2, <1>9, <1>10, <1>11, <1>12 DEF TypeOK, consumerVars
<1>14. Travelling'
  BY <1>1, <1>2, <1>12 DEF Travelling, Produced
<1> QED BY <1>13, <1>14

-----------------------------------------------------------------------------
(* Every step preserves the invariant: the consumer. *)

LEMMA StrickenType ==
  ASSUME NEW w
  PROVE  /\ Stricken(w) \in Worker
         /\ Stricken(w).out = 0 /\ Stricken(w).pend = {}
         /\ Stricken(w).pc \in {"over", "dropped"}
         /\ Stricken(w).pc = "dropped" <=> w.pc = "created"
BY WorkerType DEF Stricken, Over, Dropped, At, DONE

(* The invocations of a capped step that have begun are finitely many.      *)
LEMMA BegunType ==
  ASSUME NEW s \in Steps, MaxConc[s] > 0
  PROVE  Cardinality({i \in Live(s) : worker[s][i].pc # "created"}) \in Nat
<1>1. ~IsMerge(s) /\ MaxItems \in Int
  BY LimitAssumption DEF IsMerge
<1>2. IsFiniteSet(Ordinals)
  BY <1>1, FS_Interval DEF Ordinals
<1>3. {i \in Live(s) : worker[s][i].pc # "created"} \subseteq Ordinals
  BY <1>1 DEF Live, Slots
<1>4. IsFiniteSet({i \in Live(s) : worker[s][i].pc # "created"})
  BY <1>2, <1>3, FS_Subset
<1> QED BY <1>4, FS_CardinalityType

LEMMA CancelRunnersType ==
  ASSUME TypeInv, CancelRunners, consumer' \in {"reading", "complete", "closing", "closed"},
         cancels' \in 0 .. MaxCancels
  PROVE  TypeInv'
<1> USE DEF TypeInv
<1>1. runner' \in [Steps -> {"created", "receiving", "acquiring", "joining", "closing"}
                              \cup Ended]
  BY DEF CancelRunners, AfterCancel, TypeOK, Ended
<1>2. owed' \in [Steps -> SUBSET Steps] /\ \A s \in Steps : owed'[s] \subseteq Downstream(s)
  BY DEF CancelRunners, Downstream
<1>3. held' = [s \in Steps |-> DONE]
  BY DEF CancelRunners
<1>4. permits' \in [Steps -> Nat]
  <2>1. permits' = [s \in Steps |-> PermitsReleased(s)] /\ permits \in [Steps -> Nat]
    BY DEF CancelRunners, TypeOK
  <2>2. ASSUME NEW s \in Steps PROVE PermitsReleased(s) \in Nat
    <3>1. CASE runner[s] = "joining" /\ MaxConc[s] > 0
      BY <2>1, <3>1, BegunType DEF PermitsReleased
    <3>2. CASE ~(runner[s] = "joining" /\ MaxConc[s] > 0)
      BY <2>1, <3>2 DEF PermitsReleased
    <3> QED BY <3>1, <3>2
  <2> QED BY <2>1, <2>2
<1>5. worker' = [s \in Steps |-> [i \in Slots(s) |->
        IF runner[s] = "joining" /\ i \in Live(s) THEN Stricken(worker[s][i])
        ELSE worker[s][i]]]
  BY DEF CancelRunners
<1>6. /\ worker' = [t \in Steps |-> worker'[t]]
      /\ \A t \in Steps : worker'[t] \in [Slots(t) -> Worker]
  BY <1>5, StrickenType DEF TypeOK
<1>7. UNCHANGED <<queue, output, failed, mergeVars>>
  BY DEF CancelRunners
<1>8. TypeOK'
  BY <1>1, <1>2, <1>3, <1>4, <1>6, <1>7 DEF TypeOK, mergeVars
<1>9. \A t \in Steps : \A j \in Slots(t) :
        worker'[t][j].out <= Len(output[t]) /\ worker'[t][j].pend \subseteq Downstream(t)
  <2>1. \A t \in Steps : Len(output[t]) \in Nat
    BY DEF TypeOK
  <2>2. \A w : Stricken(w).out = 0 /\ Stricken(w).pend = {}
    BY StrickenType
  <2> QED BY <1>5, <2>1, <2>2 DEF Travelling
<1>10. \A d \in Steps : \A v \in Upstream[d] : held'[d] <= Produced(v)
  <2>1. \A d \in Steps : \A v \in Upstream[d] : Produced(v) \in Nat
    BY EdgeType DEF TypeOK, Produced
  <2> QED BY <1>3, <2>1 DEF DONE
<1>11. \A t \in Steps : runner'[t] # "acquiring"
  BY DEF CancelRunners, AfterCancel
<1>12. Travelling'
  BY <1>2, <1>7, <1>9, <1>10, <1>11 DEF Travelling, Produced
<1> QED BY <1>8, <1>12

LEMMA ConsumerTypeInv ==
  ASSUME TypeInv, FinishPipeline \/ FinishClose \/ Close \/ CancelAgain \/ UNCHANGED vars
  PROVE  TypeInv'
<1>1. CASE FinishPipeline \/ FinishClose \/ UNCHANGED vars
  <2>1. /\ UNCHANGED <<runner, queue, held, permits, worker, owed, output, failed,
                       mergeVars, cancels>>
        /\ consumer' \in {consumer, "complete", "closed"}
    BY <1>1 DEF FinishPipeline, FinishClose, vars, consumerVars
  <2>2. TypeOK'
    BY <2>1 DEF TypeInv, TypeOK, mergeVars
  <2>3. Travelling'
    BY <2>1 DEF TypeInv, Travelling, Produced
  <2> QED BY <2>2, <2>3 DEF TypeInv
<1>2. CASE Close \/ CancelAgain
  <2>1. /\ CancelRunners /\ consumer' \in {"reading", "complete", "closing", "closed"}
        /\ cancels' \in 0 .. MaxCancels
    BY <1>2, LimitAssumption DEF Close, CancelAgain, TypeInv, TypeOK
  <2> QED BY <2>1, CancelRunnersType
<1> QED BY <1>1, <1>2

(* A step of the executor is one of the actions above. *)
LEMMA NextTypeInv == TypeInv /\ [Next]_vars => TypeInv'
<1> SUFFICES ASSUME TypeInv, [Next]_vars PROVE TypeInv'
  OBVIOUS
<1>1. ASSUME NEW s \in Steps, RunnerStep(s) PROVE TypeInv'
  BY <1>1, StartTypeInv, JoinTypeInv, PutDoneTypeInv, TakeTypeInv, AcquireTypeInv
     DEF RunnerStep
<1>2. ASSUME NEW s \in Steps, WorkerStep(s) PROVE TypeInv'
  BY <1>2, BeginTypeInv, EmitTypeInv, PutTypeInv, ReturnTypeInv, MergeTakeTypeInv,
     MergeEndTypeInv DEF WorkerStep
<1> QED BY <1>1, <1>2, ConsumerTypeInv DEF Next, LoopStep, Stopped

(* The values of all variables are of the right type, and every item on its *)
(* way between two steps has been produced, whatever the DAG.               *)
THEOREM TypeCorrect == Spec => []TypeOK
<1>1. Spec => []TypeInv
  BY InitTypeInv, NextTypeInv, PTL DEF Spec
<1>2. TypeInv => TypeOK
  BY DEF TypeInv
<1> QED BY <1>1, <1>2, PTL
-----------------------------------------------------------------------------
(***************************************************************************)
(* What the executor does with the outputs and the permits: where an       *)
(* output can be on its way along an edge, and who holds a permit.         *)
(***************************************************************************)

(* The places of output n of u on its way to d.                             *)
Putting(u, d, i, n) ==
  worker[u][i].pc = "putting" /\ d \in worker[u][i].pend /\ worker[u][i].out = n

Has(q, n) == \E j \in 1 .. Len(q) : q[j] = n

InQueue(u, d, n) == Has(queue[<<u, d>>], n)

Taken(u, d, n) ==
  IF IsMerge(d) THEN \E a \in arrived[d] : a.src = u /\ a.n = n
  ELSE worker[d][n].pc # "idle" \/ held[d] = n

NoRepeat(q) == \A j, k \in 1 .. Len(q) : q[j] = q[k] => j = k

Distinct(u, d) == NoRepeat(queue[<<u, d>>])

Closing == {"closing"} \cup Ended

(* An edge: an item is in one place and an item in a place was produced;    *)
(* _DONE is put once; and, while nobody closes the stream and no merge_key  *)
(* raises, no output is missing.                                            *)
EdgeOK(u, d) ==
  /\ Distinct(u, d)
  /\ \A n \in Ordinals : InQueue(u, d, n) => ~Taken(u, d, n)
  /\ \A n \in Ordinals : Taken(u, d, n) => n <= Produced(u)
  /\ u # Input =>
       /\ \A i \in Slots(u), n \in Ordinals :
            Putting(u, d, i, n) => ~InQueue(u, d, n) /\ ~Taken(u, d, n)
       /\ InQueue(u, d, DONE) => d \notin owed[u] /\ runner[u] \in Closing
       /\ (Open /\ KeyRaises = {}) =>
            \A n \in 1 .. Len(output[u]) :
              \/ InQueue(u, d, n) \/ Taken(u, d, n)
              \/ \E i \in Slots(u) : Putting(u, d, i, n)

(* A step: its invocations put different outputs, none is under way before  *)
(* the runner has started, and an item is held only while the runner waits  *)
(* for the permit of its invocation.                                        *)
StepOK(s) ==
  /\ \A i \in Slots(s) : worker[s][i].pc = "putting" => worker[s][i].out \in Ordinals
  /\ \A i, j \in Slots(s) :
       (/\ worker[s][i].pc = "putting" /\ worker[s][j].pc = "putting"
        /\ worker[s][i].out = worker[s][j].out) => i = j
  /\ runner[s] = "created" => \A i \in Slots(s) : worker[s][i].pc = "idle"
  /\ held[s] # DONE => /\ runner[s] = "acquiring" /\ ~IsMerge(s)
                       /\ worker[s][held[s]].pc = "idle"

DeliveryInv ==
  /\ TypeInv
  /\ \A d \in Steps : \A u \in Upstream[d] : EdgeOK(u, d)
  /\ \A s \in Steps : StepOK(s)

-----------------------------------------------------------------------------
(* What taking from a queue and putting into one do to its content. *)

LEMMA Successor ==
  ASSUME NEW n \in Nat
  PROVE  \A j, k \in 1 .. n : j + 1 = k + 1 => j = k
OBVIOUS

LEMMA OneOrLater ==
  ASSUME NEW n \in Nat, NEW j \in 1 .. n
  PROVE  j = 1 \/ \E k \in 1 .. n - 1 : j = k + 1
<1>1. CASE j = 1
  BY <1>1
<1>2. CASE j # 1
  <2>1. j - 1 \in 1 .. n - 1 /\ j = (j - 1) + 1
    BY <1>2
  <2> QED BY <2>1
<1> QED BY <1>1, <1>2

LEMMA TailContent ==
  ASSUME NEW S, NEW q \in Seq(S), q # <<>>, NoRepeat(q)
  PROVE  /\ NoRepeat(Tail(q))
         /\ \A n : Has(Tail(q), n) <=> Has(q, n) /\ n # Head(q)
         /\ Has(q, Head(q))
<1> DEFINE r == Tail(q)
<1>1. /\ Len(q) \in Nat /\ 1 \in 1 .. Len(q) /\ Head(q) = q[1]
      /\ Len(r) = Len(q) - 1 /\ Len(r) \in Nat
      /\ \A j \in 1 .. Len(r) :
           /\ j + 1 \in 1 .. Len(q) /\ r[j] = q[j + 1] /\ j + 1 # 1
  OBVIOUS
<1>2. \A j, k \in 1 .. Len(q) : q[j] = q[k] => j = k
  BY DEF NoRepeat
<1> HIDE DEF r
<1>3. NoRepeat(r)
  <2>1. \A j, k \in 1 .. Len(r) : j + 1 = k + 1 => j = k
    BY <1>1, Successor
  <2> QED BY <1>1, <1>2, <2>1 DEF NoRepeat
<1>4. \A j \in 1 .. Len(q) : j = 1 \/ \E k \in 1 .. Len(r) : j = k + 1
  BY <1>1, OneOrLater
<1>5. ASSUME NEW n
      PROVE  Has(r, n) <=> Has(q, n) /\ n # Head(q)
  <2>1. ASSUME NEW j \in 1 .. Len(r), r[j] = n
        PROVE  (\E k \in 1 .. Len(q) : q[k] = n) /\ n # Head(q)
    BY <1>1, <1>2, <2>1
  <2>2. ASSUME NEW j \in 1 .. Len(q), q[j] = n, n # Head(q)
        PROVE  \E k \in 1 .. Len(r) : r[k] = n
    BY <1>1, <1>4, <2>2
  <2> QED BY <2>1, <2>2 DEF Has
<1>6. Has(q, Head(q))
  BY <1>1 DEF Has
<1> QED BY <1>3, <1>5, <1>6 DEF r

LEMMA AppendContent ==
  ASSUME NEW S, NEW q \in Seq(S), NEW x \in S, ~Has(q, x), NoRepeat(q)
  PROVE  /\ NoRepeat(Append(q, x))
         /\ \A n : Has(Append(q, x), n) <=> Has(q, n) \/ n = x
<1> DEFINE r == Append(q, x)
<1>1. /\ Len(r) = Len(q) + 1 /\ Len(q) \in Nat
      /\ \A j \in 1 .. Len(q) : r[j] = q[j] /\ j \in 1 .. Len(r)
      /\ r[Len(q) + 1] = x /\ Len(q) + 1 \in 1 .. Len(r)
  OBVIOUS
<1>2. \A j \in 1 .. Len(r) : j \in 1 .. Len(q) \/ j = Len(q) + 1
  BY <1>1
<1> HIDE DEF r
<1>3. NoRepeat(r)
  BY <1>1, <1>2 DEF Has, NoRepeat
<1>4. \A n : Has(r, n) <=> Has(q, n) \/ n = x
  BY <1>1, <1>2 DEF Has
<1> QED BY <1>3, <1>4 DEF r

(* One item fewer on one edge. *)
LEMMA TakeEffect ==
  ASSUME TypeInv, NEW d \in Steps, NEW u \in Upstream[d], NoRepeat(queue[<<u, d>>]),
         queue[<<u, d>>] # <<>>,
         queue' = [queue EXCEPT ![<<u, d>>] = Tail(queue[<<u, d>>])]
  PROVE  /\ Has(queue[<<u, d>>], Head(queue[<<u, d>>]))
         /\ \A c \in Steps : \A v \in Upstream[c] :
              /\ NoRepeat(queue[<<v, c>>]) => NoRepeat(queue'[<<v, c>>])
              /\ \A n : Has(queue'[<<v, c>>], n) <=>
                   /\ Has(queue[<<v, c>>], n)
                   /\ ~(v = u /\ c = d /\ n = Head(queue[<<u, d>>]))
<1> DEFINE e == <<u, d>>
           q == queue[e]
           r == Tail(q)
<1>1. e \in Edges /\ queue \in [Edges -> Seq({DONE} \cup Ordinals)]
  BY EdgeType DEF TypeInv, TypeOK
<1>2. q \in Seq({DONE} \cup Ordinals) /\ q # <<>>
  BY <1>1
<1>3. queue' = [queue EXCEPT ![e] = r]
  OBVIOUS
<1> HIDE DEF q
<1>4. /\ NoRepeat(r) /\ Has(q, Head(q))
      /\ \A n : Has(r, n) <=> Has(q, n) /\ n # Head(q)
  BY <1>2, TailContent DEF q
<1> HIDE DEF r
<1>5. ASSUME NEW c \in Steps, NEW v \in Upstream[c]
      PROVE  /\ NoRepeat(queue[<<v, c>>]) => NoRepeat(queue'[<<v, c>>])
             /\ \A n : Has(queue'[<<v, c>>], n) <=>
                  Has(queue[<<v, c>>], n) /\ ~(v = u /\ c = d /\ n = Head(q))
  <2>1. <<v, c>> \in Edges
    BY EdgeType
  <2>2. CASE v = u /\ c = d
    <3>1. queue'[<<v, c>>] = r /\ queue[<<v, c>>] = q
      BY <1>1, <1>3, <2>2 DEF q
    <3> QED BY <1>4, <2>2, <3>1
  <2>3. CASE ~(v = u /\ c = d)
    <3>1. queue'[<<v, c>>] = queue[<<v, c>>]
      BY <1>1, <1>3, <2>1, <2>3
    <3> QED BY <2>3, <3>1
  <2> QED BY <2>2, <2>3
<1> QED BY <1>4, <1>5 DEF q

(* One item more on one edge. *)
LEMMA PutEffect ==
  ASSUME TypeInv, NEW d \in Steps, NEW u \in Upstream[d], NoRepeat(queue[<<u, d>>]),
         NEW x \in {DONE} \cup Ordinals, ~Has(queue[<<u, d>>], x),
         queue' = [queue EXCEPT ![<<u, d>>] = Append(queue[<<u, d>>], x)]
  PROVE  \A c \in Steps : \A v \in Upstream[c] :
           /\ NoRepeat(queue[<<v, c>>]) => NoRepeat(queue'[<<v, c>>])
           /\ \A n : Has(queue'[<<v, c>>], n) <=>
                Has(queue[<<v, c>>], n) \/ (v = u /\ c = d /\ n = x)
<1> DEFINE e == <<u, d>>
           q == queue[e]
           r == Append(q, x)
           T == {DONE} \cup Ordinals
<1>1. e \in Edges /\ queue \in [Edges -> Seq({DONE} \cup Ordinals)]
  BY EdgeType DEF TypeInv, TypeOK
<1>2. q \in Seq(T) /\ x \in T
  BY <1>1
<1>3. queue' = [queue EXCEPT ![e] = r]
  OBVIOUS
<1> HIDE DEF q, T
<1>4. /\ NoRepeat(r)
      /\ \A n : Has(r, n) <=> Has(q, n) \/ n = x
  BY <1>2, AppendContent DEF q
<1> HIDE DEF r
<1>5. ASSUME NEW c \in Steps, NEW v \in Upstream[c]
      PROVE  /\ NoRepeat(queue[<<v, c>>]) => NoRepeat(queue'[<<v, c>>])
             /\ \A n : Has(queue'[<<v, c>>], n) <=>
                  Has(queue[<<v, c>>], n) \/ (v = u /\ c = d /\ n = x)
  <2>1. <<v, c>> \in Edges
    BY EdgeType
  <2>2. CASE v = u /\ c = d
    <3>1. queue'[<<v, c>>] = r /\ queue[<<v, c>>] = q
      BY <1>1, <1>3, <2>2 DEF q
    <3> QED BY <1>4, <2>2, <3>1
  <2>3. CASE ~(v = u /\ c = d)
    <3>1. queue'[<<v, c>>] = queue[<<v, c>>]
      BY <1>1, <1>3, <2>1, <2>3
    <3> QED BY <2>3, <3>1
  <2> QED BY <2>2, <2>3
<1> QED BY <1>5

-----------------------------------------------------------------------------
LEMMA DoneIsNoOrdinal == DONE \notin Ordinals
BY DEF DONE, Ordinals

LEMMA ProducedType ==
  ASSUME TypeInv, NEW d \in Steps, NEW u \in Upstream[d]
  PROVE  /\ Produced(u) \in Nat
         /\ \A n \in Ordinals : InQueue(u, d, n) => n <= Produced(u)
         /\ held[d] <= Produced(u)
<1>1. Produced(u) \in Nat
  BY EdgeType DEF TypeInv, TypeOK, Produced
<1> QED BY <1>1 DEF TypeInv, Travelling, InQueue, Has

LEMMA OutputOrdinals ==
  ASSUME TypeInv, NEW s \in Steps
  PROVE  /\ Len(output[s]) \in Nat
         /\ 1 .. Len(output[s]) \subseteq Ordinals
<1>1. Len(output[s]) \in Nat /\ Len(output[s]) <= Yields[s]
  BY DEF TypeInv, TypeOK, Travelling
<1>2. Yields[s] \in 0 .. MaxItems /\ MaxItems \in Nat
  BY LimitAssumption
<1>3. \A a, b, c \in Nat : a <= b /\ b <= c => 1 .. a \subseteq 1 .. c
  OBVIOUS
<1>4. Yields[s] \in Nat /\ Yields[s] <= MaxItems
  BY <1>2
<1>5. 1 .. Len(output[s]) \subseteq 1 .. MaxItems
  BY <1>1, <1>2, <1>3, <1>4
<1> QED BY <1>1, <1>5 DEF Ordinals

LEMMA InitDelivery == Init => DeliveryInv
<1> SUFFICES ASSUME Init PROVE DeliveryInv
  OBVIOUS
<1>1. TypeInv
  BY InitTypeInv
<1>2. /\ \A s \in Steps : runner[s] = "created" /\ held[s] = DONE /\ arrived[s] = {}
      /\ \A s \in Steps : Len(output[s]) = 0
      /\ \A s \in Steps : \A i \in Slots(s) : worker[s][i].pc = "idle"
  BY DEF Init, Idle, At
<1>3. ASSUME NEW d \in Steps, NEW u \in Upstream[d] PROVE EdgeOK(u, d)
  <2>1. queue[<<u, d>>] = IF u = Input THEN <<1, DONE>> ELSE <<>>
    BY EdgeType DEF Init
  <2>2. \A n \in Ordinals : ~Taken(u, d, n)
    BY <1>2, DoneIsNoOrdinal DEF Taken, Slots
  <2>3. Distinct(u, d)
    <3>1. CASE u = Input
      <4>1. /\ Len(queue[<<u, d>>]) = 2
            /\ queue[<<u, d>>][1] = 1 /\ queue[<<u, d>>][2] = 0
        BY <2>1, <3>1 DEF DONE
      <4>2. \A j \in 1 .. 2 : j = 1 \/ j = 2
        OBVIOUS
      <4> QED BY <4>1, <4>2 DEF Distinct, NoRepeat
    <3>2. CASE u # Input
      <4>1. Len(queue[<<u, d>>]) = 0
        BY <2>1, <3>2
      <4> QED BY <4>1 DEF Distinct, NoRepeat
    <3> QED BY <3>1, <3>2
  <2>4. ASSUME u # Input
        PROVE  /\ ~InQueue(u, d, DONE)
               /\ \A i \in Slots(u), n \in Ordinals : ~Putting(u, d, i, n)
               /\ 1 .. Len(output[u]) = {}
    <3>1. Len(queue[<<u, d>>]) = 0 /\ u \in Steps
      BY <2>1, <2>4, EdgeType
    <3> QED BY <1>2, <3>1 DEF InQueue, Has, Putting
  <2> QED BY <2>2, <2>3, <2>4 DEF EdgeOK
<1>4. ASSUME NEW s \in Steps PROVE StepOK(s)
  BY <1>2 DEF StepOK
<1> QED BY <1>1, <1>3, <1>4 DEF DeliveryInv

-----------------------------------------------------------------------------
(* Every step preserves the invariant: the runners. *)

(* Only a runner and what it owes change: it may begin to close its routes  *)
(* when it has not done so yet. *)
LEMMA RunnerMoves ==
  ASSUME DeliveryInv, TypeInv', NEW s \in Steps,
         UNCHANGED <<queue, held, worker, output, arrived, consumer>>,
         runner[s] \notin Closing \cup {"acquiring"}, runner'[s] # "created",
         \A t \in Steps \ {s} : runner'[t] = runner[t] /\ owed'[t] = owed[t]
  PROVE  DeliveryInv'
<1>1. ASSUME NEW d \in Steps, NEW u \in Upstream[d] PROVE EdgeOK(u, d)'
  <2>1. /\ Distinct(u, d)' <=> Distinct(u, d)
        /\ \A n : InQueue(u, d, n)' <=> InQueue(u, d, n)
        /\ \A n : Taken(u, d, n)' <=> Taken(u, d, n)
        /\ \A i, n : Putting(u, d, i, n)' <=> Putting(u, d, i, n)
        /\ Produced(u)' = Produced(u)
        /\ Open' <=> Open
    BY DEF Distinct, InQueue, Taken, Putting, Produced, Open
  <2>2. EdgeOK(u, d) /\ u \in Steps \cup {Input}
    BY EdgeType DEF DeliveryInv
  <2> QED BY <2>1, <2>2 DEF EdgeOK
<1>2. ASSUME NEW t \in Steps PROVE StepOK(t)'
  <2>1. StepOK(t)
    BY DEF DeliveryInv
  <2>2. runner'[t] = "created" => runner[t] = "created"
    OBVIOUS
  <2>3. runner[t] = "acquiring" => runner'[t] = "acquiring"
    OBVIOUS
  <2> QED BY <2>1, <2>2, <2>3 DEF StepOK
<1> QED BY <1>1, <1>2 DEF DeliveryInv

(* The tasks of a step all change between states in which they put nothing. *)
LEMMA StartDelivery ==
  ASSUME DeliveryInv, TypeInv', NEW s \in Steps, Start(s)
  PROVE  DeliveryInv'
<1>1. /\ runner[s] = "created" /\ runner'[s] \in {"joining", "receiving"}
      /\ \A t \in Steps \ {s} : runner'[t] = runner[t]
      /\ UNCHANGED <<queue, held, output, arrived, consumer, owed>>
  BY DEF Start, mergeVars, consumerVars, DeliveryInv, TypeInv, TypeOK
<1>2. CASE ~IsMerge(s)
  <2>1. worker' = worker
    <3>1. worker' = [worker EXCEPT ![s] = worker[s]]
      BY <1>2 DEF Start
    <3>2. worker = [t \in Steps |-> worker[t]]
      BY DEF DeliveryInv, TypeInv, TypeOK
    <3> QED BY <3>1, <3>2
  <2> QED BY <1>1, <2>1, RunnerMoves DEF Closing, Ended
<1>3. CASE IsMerge(s)
  <2>1. \A t \in Steps : \A i \in Slots(t) :
          worker'[t][i] = IF t = s THEN Taking ELSE worker[t][i]
    <3>1. worker' = [worker EXCEPT ![s] = [i \in Slots(s) |-> Taking]]
      BY <1>3 DEF Start
    <3>2. worker = [t \in Steps |-> worker[t]]
      BY DEF DeliveryInv, TypeInv, TypeOK
    <3> QED BY <3>1, <3>2
  <2>2. \A i \in Slots(s) : worker[s][i].pc = "idle"
    BY <1>1 DEF DeliveryInv, StepOK
  <2>3. Taking.pc = "taking"
    BY DEF Taking, At
  <2>4. ASSUME NEW d \in Steps, NEW u \in Upstream[d] PROVE EdgeOK(u, d)'
    <3>1. \A n \in Ordinals : Taken(u, d, n)' <=> Taken(u, d, n)
      BY <1>1, <1>3, <2>1 DEF Taken, Slots
    <3>2. ASSUME u # Input
          PROVE  \A i \in Slots(u), n \in Ordinals : Putting(u, d, i, n)' <=> Putting(u, d, i, n)
      <4>1. u \in Steps
        BY <3>2, EdgeType
      <4>2. CASE u = s
        BY <2>1, <2>2, <2>3, <4>2 DEF Putting
      <4>3. CASE u # s
        BY <2>1, <4>1, <4>3 DEF Putting
      <4> QED BY <4>2, <4>3
    <3>3. /\ Distinct(u, d)' <=> Distinct(u, d)
          /\ \A n : InQueue(u, d, n)' <=> InQueue(u, d, n)
          /\ Produced(u)' = Produced(u)
          /\ Open' <=> Open
      BY <1>1 DEF Distinct, InQueue, Produced, Open
    <3>4. ASSUME u # Input, InQueue(u, d, DONE)
          PROVE  d \notin owed'[u] /\ runner'[u] \in Closing
      BY <1>1, <3>4, EdgeType DEF DeliveryInv, EdgeOK, Closing, Ended
    <3>5. EdgeOK(u, d) /\ output' = output
      BY <1>1 DEF DeliveryInv
    <3>6. u \in Steps => 1 .. Len(output[u]) \subseteq Ordinals
      BY OutputOrdinals DEF DeliveryInv
    <3>7. u \in Steps \cup {Input}
      BY EdgeType
    <3> QED BY <3>1, <3>2, <3>3, <3>4, <3>5, <3>6, <3>7 DEF EdgeOK
  <2>5. ASSUME NEW t \in Steps PROVE StepOK(t)'
    <3>1. StepOK(t) /\ StepOK(s)
      BY DEF DeliveryInv
    <3>2. CASE t = s
      <4>1. held[s] = DONE
        BY <1>1, <3>1 DEF StepOK
      <4> QED BY <1>1, <2>1, <2>3, <3>2, <4>1 DEF StepOK
    <3>3. CASE t # s
      <4>1. held[t] # DONE => held[t] \in Ordinals
        BY DEF DeliveryInv, TypeInv, TypeOK
      <4>2. \A i \in Slots(t) : worker'[t][i] = worker[t][i]
        BY <2>1, <3>3
      <4>3. ~IsMerge(t) => Slots(t) = Ordinals
        BY DEF Slots
      <4> QED BY <1>1, <3>1, <3>3, <4>1, <4>2, <4>3 DEF StepOK
    <3> QED BY <3>2, <3>3
  <2> QED BY <2>4, <2>5 DEF DeliveryInv
<1> QED BY <1>2, <1>3

LEMMA BeginClosingMoves ==
  ASSUME TypeInv, NEW s \in Steps, BeginClosing(s)
  PROVE  /\ runner'[s] \in {"closing", "done"}
         /\ \A t \in Steps \ {s} : runner'[t] = runner[t] /\ owed'[t] = owed[t]
BY DEF BeginClosing, TypeInv, TypeOK

LEMMA JoinDelivery ==
  ASSUME DeliveryInv, TypeInv', NEW s \in Steps, Join(s)
  PROVE  DeliveryInv'
<1>1. /\ runner[s] = "joining" /\ BeginClosing(s)
      /\ UNCHANGED <<queue, held, worker, output, arrived, consumer>>
  BY DEF Join, consumerVars
<1>2. TypeInv
  BY DEF DeliveryInv
<1> QED BY <1>1, <1>2, BeginClosingMoves, RunnerMoves DEF Closing, Ended

LEMMA PutDoneDelivery ==
  ASSUME DeliveryInv, TypeInv', NEW s \in Steps, PutDone(s)
  PROVE  DeliveryInv'
<1>1. PICK d \in owed[s] :
        /\ queue' = [queue EXCEPT ![<<s, d>>] = Append(queue[<<s, d>>], DONE)]
        /\ owed' = [owed EXCEPT ![s] = @ \ {d}]
        /\ runner' = [runner EXCEPT ![s] = IF owed[s] = {d} THEN "done" ELSE @]
  BY DEF PutDone
<1>2. /\ UNCHANGED <<held, worker, output, arrived, consumer>>
      /\ runner[s] = "closing"
  BY DEF PutDone, mergeVars, consumerVars
<1>3. TypeInv /\ d \in Steps /\ s \in Upstream[d] /\ s # Input
  BY DownstreamType DEF DeliveryInv, TypeInv, Travelling
<1>4. Distinct(s, d) /\ ~InQueue(s, d, DONE)
  BY <1>3 DEF DeliveryInv, EdgeOK
<1>5. \A c \in Steps : \A v \in Upstream[c] :
        /\ NoRepeat(queue[<<v, c>>]) => NoRepeat(queue'[<<v, c>>])
        /\ \A n : Has(queue'[<<v, c>>], n) <=>
             Has(queue[<<v, c>>], n) \/ (v = s /\ c = d /\ n = DONE)
  <2>1. DONE \in {DONE} \cup Ordinals
    OBVIOUS
  <2> QED BY <1>1, <1>3, <1>4, <2>1, PutEffect, ZenonT(40) DEF Distinct, InQueue
<1>6. /\ owed'[s] = owed[s] \ {d} /\ runner'[s] \in {"closing", "done"}
      /\ \A t \in Steps \ {s} : owed'[t] = owed[t] /\ runner'[t] = runner[t]
  BY <1>1, <1>2, <1>3 DEF TypeInv, TypeOK
<1>7. ASSUME NEW c \in Steps, NEW v \in Upstream[c] PROVE EdgeOK(v, c)'
  <2>1. /\ \A n : Taken(v, c, n)' <=> Taken(v, c, n)
        /\ \A i, n : Putting(v, c, i, n)' <=> Putting(v, c, i, n)
        /\ Produced(v)' = Produced(v)
        /\ Open' <=> Open
        /\ output' = output
    BY <1>2 DEF Taken, Putting, Produced, Open
  <2>2. Distinct(v, c)'
    BY <1>5 DEF DeliveryInv, EdgeOK, Distinct
  <2>3. \A n \in Ordinals : InQueue(v, c, n)' <=> InQueue(v, c, n)
    BY <1>5, DoneIsNoOrdinal DEF InQueue
  <2>4. \A n : InQueue(v, c, n) => InQueue(v, c, n)'
    BY <1>5 DEF InQueue
  <2>5. ASSUME v # Input, InQueue(v, c, DONE)'
        PROVE  c \notin owed'[v] /\ runner'[v] \in Closing
    <3>1. CASE v = s /\ c = d
      BY <1>6, <3>1 DEF Closing, Ended
    <3>2. CASE ~(v = s /\ c = d)
      <4>1. InQueue(v, c, DONE)
        BY <1>5, <2>5, <3>2 DEF InQueue
      <4>2. c \notin owed[v] /\ runner[v] \in Closing /\ v \in Steps
        BY <2>5, <4>1, EdgeType DEF DeliveryInv, EdgeOK
      <4> QED BY <1>6, <4>2 DEF Closing, Ended
    <3> QED BY <3>1, <3>2
  <2>6. EdgeOK(v, c)
    BY DEF DeliveryInv
  <2> QED BY <2>1, <2>2, <2>3, <2>4, <2>5, <2>6 DEF EdgeOK
<1>8. ASSUME NEW t \in Steps PROVE StepOK(t)'
  <2>1. StepOK(t)
    BY DEF DeliveryInv
  <2> QED BY <1>2, <1>6, <2>1 DEF StepOK
<1> QED BY <1>7, <1>8 DEF DeliveryInv

(* A task is created: the invocation of an item that had none. *)
LEMMA SpawnPlaces ==
  ASSUME TypeInv, NEW s \in Steps, NEW u, ~IsMerge(s), NEW n \in Ordinals,
         worker[s][n].pc = "idle", Spawn(s, u, n), Created(KeyOf(u, n)) \in Worker
  PROVE  \A t \in Steps : \A i \in Slots(t) :
           IF t = s /\ i = n THEN worker'[t][i].pc = "created" ELSE worker'[t][i] = worker[t][i]
<1>1. n \in Slots(s) /\ TypeOK
  BY DEF Slots, TypeInv
<1>2. worker' = [worker EXCEPT ![s][n] = Created(KeyOf(u, n))]
  BY DEF Spawn
<1>3. \A t \in Steps : \A j \in Slots(t) :
        worker'[t][j] = IF t = s /\ j = n THEN Created(KeyOf(u, n)) ELSE worker[t][j]
  BY <1>1, <1>2, WorkerUpdate, ZenonT(40)
<1>4. Created(KeyOf(u, n)).pc = "created"
  BY DEF Created, At
<1> QED BY <1>3, <1>4

LEMMA TakeDelivery ==
  ASSUME DeliveryInv, TypeInv', NEW s \in Steps, NEW u \in Upstream[s], ~IsMerge(s),
         Take(s, u)
  PROVE  DeliveryInv'
<1> DEFINE n == Head(queue[<<u, s>>])
<1>1. /\ TypeInv /\ StepOK(s) /\ EdgeOK(u, s)
      /\ \A v \in Upstream[s] : v = u
  BY TopologyAssumption DEF DeliveryInv, IsMerge
<1>2. /\ runner[s] = "receiving" /\ held[s] = DONE
      /\ queue[<<u, s>>] # <<>>
      /\ queue' = [queue EXCEPT ![<<u, s>>] = Tail(queue[<<u, s>>])]
      /\ UNCHANGED <<owed, output, arrived, consumer>>
  BY <1>1 DEF Take, StepOK, mergeVars, consumerVars
<1>3. /\ InQueue(u, s, n)
      /\ \A c \in Steps : \A v \in Upstream[c] :
           /\ NoRepeat(queue[<<v, c>>]) => NoRepeat(queue'[<<v, c>>])
           /\ \A m : Has(queue'[<<v, c>>], m) <=>
                Has(queue[<<v, c>>], m) /\ ~(v = u /\ c = s /\ m = n)
  BY <1>1, <1>2, TakeEffect DEF EdgeOK, Distinct, InQueue
<1>4. n \in {DONE} \cup Ordinals /\ n <= Produced(u)
  <2>1. <<u, s>> \in Edges /\ TypeOK
    BY <1>1, EdgeType DEF TypeInv
  <2>2. n \in {DONE} \cup Ordinals
    BY <1>2, <2>1, TakeFromQueue
  <2>3. n \in Ordinals => n <= Produced(u)
    BY <1>1, <1>3, ProducedType
  <2>4. Produced(u) \in Nat
    BY <1>1, ProducedType
  <2> QED BY <2>2, <2>3, <2>4 DEF DONE
<1>5. n \in Ordinals => ~Taken(u, s, n) /\ worker[s][n].pc = "idle"
  BY <1>1, <1>3 DEF EdgeOK, Taken
<1>6. \/ /\ n = DONE /\ runner' = [runner EXCEPT ![s] = "joining"]
         /\ UNCHANGED <<held, worker>>
      \/ /\ n \in Ordinals /\ AwaitPermit(s, n)
         /\ UNCHANGED worker
      \/ /\ n \in Ordinals /\ Spawn(s, u, n)
         /\ UNCHANGED <<runner, held>>
  BY <1>4 DEF Take
<1> HIDE DEF n
<1>7. /\ runner'[s] \in {"joining", "acquiring", "receiving"}
      /\ \A t \in Steps \ {s} : runner'[t] = runner[t] /\ held'[t] = held[t]
      /\ \/ held'[s] = DONE
         \/ n \in Ordinals /\ held'[s] = n /\ runner'[s] = "acquiring" /\ worker' = worker
  BY <1>1, <1>2, <1>6 DEF AwaitPermit, TypeInv, TypeOK
<1>8. \A t \in Steps : \A i \in Slots(t) :
        \/ worker'[t][i] = worker[t][i]
        \/ /\ t = s /\ i = n /\ n \in Ordinals
           /\ worker[t][i].pc = "idle" /\ worker'[t][i].pc = "created"
  <2>1. CASE n \in Ordinals /\ Spawn(s, u, n)
    <3>1. Created(KeyOf(u, n)) \in Worker
      BY <1>1, <1>4, <2>1, EdgeType, KeyType, WorkerType DEF TypeInv
    <3> QED BY <1>1, <1>5, <2>1, <3>1, SpawnPlaces
  <2>2. CASE worker' = worker
    BY <2>2
  <2> QED BY <1>6, <2>1, <2>2
<1>9. \A m \in Ordinals : Taken(u, s, m)' <=> Taken(u, s, m) \/ m = n
  <2>1. Slots(s) = Ordinals
    BY DEF Slots
  <2>2. \A m \in Ordinals : Taken(u, s, m) <=> worker[s][m].pc # "idle"
    BY <1>2, DoneIsNoOrdinal DEF Taken
  <2>3. \A m \in Ordinals : Taken(u, s, m)' <=> worker'[s][m].pc # "idle" \/ held'[s] = m
    BY DEF Taken
  <2>4. CASE n = DONE
    <3>1. worker' = worker /\ held' = held
      BY <1>6, <2>4, DoneIsNoOrdinal
    <3> QED BY <1>2, <2>2, <2>3, <2>4, <3>1, DoneIsNoOrdinal
  <2>5. CASE n \in Ordinals /\ AwaitPermit(s, n) /\ UNCHANGED worker
    <3>1. held'[s] = n
      BY <1>1, <2>5 DEF AwaitPermit, TypeInv, TypeOK
    <3> QED BY <2>2, <2>3, <2>5, <3>1
  <2>6. CASE n \in Ordinals /\ Spawn(s, u, n) /\ UNCHANGED <<runner, held>>
    <3>1. Created(KeyOf(u, n)) \in Worker
      BY <1>1, <1>4, <2>6, EdgeType, KeyType, WorkerType DEF TypeInv
    <3>2. \A m \in Ordinals :
            IF m = n THEN worker'[s][m].pc = "created" ELSE worker'[s][m] = worker[s][m]
      BY <1>1, <1>5, <2>1, <2>6, <3>1, SpawnPlaces
    <3> QED BY <1>2, <2>2, <2>3, <2>6, <3>2, DoneIsNoOrdinal
  <2> QED BY <1>6, <2>4, <2>5, <2>6
<1>10. ASSUME NEW c \in Steps, NEW v \in Upstream[c] PROVE EdgeOK(v, c)'
  <2>1. \A m \in Ordinals : Taken(v, c, m)' <=> Taken(v, c, m) \/ (c = s /\ m = n)
    <3>1. CASE c = s
      BY <1>1, <1>9, <3>1
    <3>2. CASE c # s
      BY <1>2, <1>7, <1>8, <3>2 DEF Taken, Slots
    <3> QED BY <3>1, <3>2
  <2>2. ASSUME v # Input
        PROVE  \A i \in Slots(v), m \in Ordinals : Putting(v, c, i, m)' <=> Putting(v, c, i, m)
    <3>1. v \in Steps
      BY <2>2, EdgeType
    <3> QED BY <1>8, <3>1 DEF Putting
  <2>3. /\ Distinct(v, c)'
        /\ \A m : InQueue(v, c, m)' <=>
             InQueue(v, c, m) /\ ~(v = u /\ c = s /\ m = n)
    BY <1>3 DEF DeliveryInv, EdgeOK, Distinct, InQueue
  <2>4. /\ Produced(v)' = Produced(v) /\ output' = output
        /\ Open' <=> Open
    BY <1>2 DEF Produced, Open
  <2>5. ASSUME v # Input, InQueue(v, c, DONE)'
        PROVE  c \notin owed'[v] /\ runner'[v] \in Closing
    <3>1. InQueue(v, c, DONE) /\ v \in Steps
      BY <2>3, <2>5, EdgeType
    <3>2. c \notin owed[v] /\ runner[v] \in Closing
      BY <2>5, <3>1 DEF DeliveryInv, EdgeOK
    <3>3. v # s
      BY <1>2, <3>2 DEF Closing, Ended
    <3> QED BY <1>2, <1>7, <3>1, <3>2, <3>3
  <2>6. v \in Steps => 1 .. Len(output[v]) \subseteq Ordinals
    BY <1>1, OutputOrdinals
  <2>7. EdgeOK(v, c) /\ v \in Steps \cup {Input} /\ (c = s => v = u)
    BY <1>1, EdgeType DEF DeliveryInv
  <2>8. ASSUME NEW m \in Ordinals
        PROVE  /\ InQueue(v, c, m)' => ~Taken(v, c, m)'
               /\ Taken(v, c, m)' => m <= Produced(v)'
    BY <1>4, <2>1, <2>3, <2>4, <2>7 DEF EdgeOK
  <2>9. ASSUME v # Input, NEW i \in Slots(v), NEW m \in Ordinals, Putting(v, c, i, m)'
        PROVE  ~InQueue(v, c, m)' /\ ~Taken(v, c, m)'
    <3>1. ~InQueue(v, c, m) /\ ~Taken(v, c, m)
      BY <2>2, <2>7, <2>9 DEF EdgeOK
    <3> QED BY <1>3, <2>1, <2>3, <2>7, <3>1
  <2>10. ASSUME v # Input, Open', KeyRaises = {}, NEW m \in 1 .. Len(output'[v])
         PROVE  \/ InQueue(v, c, m)' \/ Taken(v, c, m)'
                \/ \E i \in Slots(v) : Putting(v, c, i, m)'
    <3>1. m \in 1 .. Len(output[v]) /\ m \in Ordinals
      BY <2>4, <2>6, <2>7, <2>10
    <3>2. InQueue(v, c, m) \/ Taken(v, c, m) \/ \E i \in Slots(v) : Putting(v, c, i, m)
      BY <2>4, <2>7, <2>10, <3>1 DEF EdgeOK
    <3> QED BY <2>1, <2>2, <2>3, <2>10, <3>1, <3>2
  <2> QED BY <2>3, <2>5, <2>8, <2>9, <2>10 DEF EdgeOK
<1>11. ASSUME NEW t \in Steps PROVE StepOK(t)'
  <2>1. StepOK(t)
    BY DEF DeliveryInv
  <2>2. \A i \in Slots(t) :
          /\ worker'[t][i].pc = "putting" <=> worker[t][i].pc = "putting"
          /\ worker'[t][i].pc = "putting" => worker'[t][i].out = worker[t][i].out
    BY <1>8
  <2>3. runner'[t] = "created" => \A i \in Slots(t) : worker'[t][i].pc = "idle"
    <3>1. CASE t = s
      BY <1>7, <3>1
    <3>2. CASE t # s
      BY <1>7, <1>8, <2>1, <3>2 DEF StepOK
    <3> QED BY <3>1, <3>2
  <2>4. held'[t] # DONE => /\ runner'[t] = "acquiring" /\ ~IsMerge(t)
                           /\ worker'[t][held'[t]].pc = "idle"
    <3>1. CASE t = s
      BY <1>5, <1>7, <3>1
    <3>2. CASE t # s
      <4>1. held[t] \in Ordinals \/ held[t] = DONE
        BY <1>1 DEF TypeInv, TypeOK
      <4>2. ~IsMerge(t) => Slots(t) = Ordinals
        BY DEF Slots
      <4> QED BY <1>7, <1>8, <2>1, <3>2, <4>1, <4>2 DEF StepOK
    <3> QED BY <3>1, <3>2
  <2> QED BY <2>1, <2>2, <2>3, <2>4 DEF StepOK
<1> QED BY <1>10, <1>11 DEF DeliveryInv

(* Nothing moves between the places, and the runners that keep or leave     *)
(* _DONE behind do so rightly. *)
LEMMA NothingMoves ==
  ASSUME DeliveryInv, NEW d \in Steps, NEW u \in Upstream[d],
         \A n \in Ordinals : Taken(u, d, n)' <=> Taken(u, d, n),
         u # Input => \A i \in Slots(u), n \in Ordinals :
                        Putting(u, d, i, n)' <=> Putting(u, d, i, n),
         UNCHANGED <<queue, output>>, Open' => Open,
         u # Input => owed'[u] = owed[u] /\ (runner[u] \in Closing => runner'[u] \in Closing)
  PROVE  EdgeOK(u, d)'
<1>1. /\ Distinct(u, d)' <=> Distinct(u, d)
      /\ \A n : InQueue(u, d, n)' <=> InQueue(u, d, n)
      /\ Produced(u)' = Produced(u)
  BY DEF Distinct, InQueue, Produced
<1>2. EdgeOK(u, d) /\ u \in Steps \cup {Input}
  BY EdgeType DEF DeliveryInv
<1>3. u \in Steps => 1 .. Len(output[u]) \subseteq Ordinals
  BY OutputOrdinals DEF DeliveryInv
<1> QED BY <1>1, <1>2, <1>3 DEF EdgeOK

LEMMA AcquireDelivery ==
  ASSUME DeliveryInv, TypeInv', NEW s \in Steps, NEW u \in Upstream[s], ~IsMerge(s),
         Acquire(s, u)
  PROVE  DeliveryInv'
<1> DEFINE n == held[s]
<1>1. /\ TypeInv /\ StepOK(s)
      /\ runner[s] = "acquiring"
      /\ UNCHANGED <<queue, owed, output, arrived, consumer>>
  BY DEF Acquire, DeliveryInv, mergeVars, consumerVars
<1>2. n \in Ordinals /\ n <= Produced(u) /\ worker[s][n].pc = "idle"
  <2>1. n \in {DONE} \cup Ordinals /\ n # DONE /\ n <= Produced(u)
    BY <1>1 DEF TypeInv, TypeOK, Travelling
  <2> QED BY <1>1, <2>1 DEF StepOK
<1>3. \A t \in Steps : \A i \in Slots(t) :
        IF t = s /\ i = n THEN worker'[t][i].pc = "created" ELSE worker'[t][i] = worker[t][i]
  <2>1. Created(KeyOf(u, n)) \in Worker
    BY <1>1, <1>2, EdgeType, KeyType, WorkerType DEF TypeInv
  <2> QED BY <1>1, <1>2, <2>1, SpawnPlaces DEF Acquire
<1>4. /\ runner'[s] = "receiving" /\ held'[s] = DONE
      /\ \A t \in Steps \ {s} : runner'[t] = runner[t] /\ held'[t] = held[t]
  BY <1>1 DEF Acquire, TypeInv, TypeOK
<1>5. ASSUME NEW d \in Steps, NEW v \in Upstream[d] PROVE EdgeOK(v, d)'
  <2>1. \A m \in Ordinals : Taken(v, d, m)' <=> Taken(v, d, m)
    <3>1. CASE d = s
      <4>1. \A m \in Ordinals : Taken(v, d, m) <=> worker[s][m].pc # "idle" \/ m = n
        BY <3>1 DEF Taken
      <4>2. \A m \in Ordinals : Taken(v, d, m)' <=> worker'[s][m].pc # "idle"
        BY <1>4, <3>1, DoneIsNoOrdinal DEF Taken
      <4> QED BY <1>3, <4>1, <4>2 DEF Slots
    <3>2. CASE d # s
      BY <1>1, <1>3, <1>4, <3>2 DEF Taken, Slots
    <3> QED BY <3>1, <3>2
  <2>2. ASSUME v # Input
        PROVE  \A i \in Slots(v), m \in Ordinals : Putting(v, d, i, m)' <=> Putting(v, d, i, m)
    <3>1. v \in Steps
      BY <2>2, EdgeType
    <3> QED BY <1>2, <1>3, <3>1 DEF Putting
  <2>3. ASSUME v # Input
        PROVE  owed'[v] = owed[v] /\ (runner[v] \in Closing => runner'[v] \in Closing)
    BY <1>1, <1>4, <2>3, EdgeType DEF Closing, Ended
  <2>4. Open' => Open
    BY <1>1 DEF Open
  <2> QED BY <1>1, <2>1, <2>2, <2>3, <2>4, NothingMoves
<1>6. ASSUME NEW t \in Steps PROVE StepOK(t)'
  <2>1. StepOK(t)
    BY DEF DeliveryInv
  <2>2. CASE t = s
    BY <1>2, <1>3, <1>4, <2>1, <2>2 DEF StepOK
  <2>3. CASE t # s
    <3>1. held[t] \in Ordinals \/ held[t] = DONE
      BY <1>1 DEF TypeInv, TypeOK
    <3>2. ~IsMerge(t) => Slots(t) = Ordinals
      BY DEF Slots
    <3> QED BY <1>3, <1>4, <2>1, <2>3, <3>1, <3>2 DEF StepOK
  <2> QED BY <2>2, <2>3
<1> QED BY <1>5, <1>6 DEF DeliveryInv

-----------------------------------------------------------------------------
(* Every step preserves the invariant: the invocations. *)

(* What an invocation's step leaves of the other invocations. *)
LEMMA OthersKeep ==
  ASSUME DeliveryInv, NEW s \in Steps, NEW i \in Slots(s), NEW w \in Worker,
         worker[s][i].pc # "idle", w.pc # "idle",
         \A t \in Steps : \A j \in Slots(t) :
           worker'[t][j] = IF t = s /\ j = i THEN w ELSE worker[t][j],
         UNCHANGED <<runner, held, arrived>>,
         w.pc = "putting" => /\ w.out \in Ordinals
                             /\ \A j \in Slots(s) \ {i} :
                                  worker[s][j].pc = "putting" => worker[s][j].out # w.out
  PROVE  \A t \in Steps : StepOK(t)'
<1>1. ASSUME NEW t \in Steps PROVE StepOK(t)'
  <2>1. StepOK(t)
    BY DEF DeliveryInv
  <2>2. held[t] # DONE => held[t] \in Slots(t) /\ worker'[t][held[t]].pc = "idle"
    <3>1. held[t] \in Ordinals \/ held[t] = DONE
      BY DEF DeliveryInv, TypeInv, TypeOK
    <3>2. ~IsMerge(t) => Slots(t) = Ordinals
      BY DEF Slots
    <3> QED BY <2>1, <3>1, <3>2 DEF StepOK
  <2>3. runner[t] = "created" => t # s
    BY <2>1 DEF StepOK
  <2>4. CASE t = s
    BY <2>1, <2>2, <2>3, <2>4 DEF StepOK
  <2>5. CASE t # s
    BY <2>1, <2>2, <2>5 DEF StepOK
  <2> QED BY <2>4, <2>5
<1> QED BY <1>1

LEMMA ReturnDelivery ==
  ASSUME DeliveryInv, TypeInv', NEW s \in Steps, NEW i \in Slots(s),
         Begin(s, i) \/ Return(s, i) \/ Raise(s, i)
  PROVE  DeliveryInv'
<1>0. PICK w \in Worker : /\ w.pc \in {"taking", "running", "over"} /\ Advance(s, i, w)
                         /\ worker[s][i].pc \in {"created", "running"}
  <2>1. CASE Begin(s, i)
    <3>1. worker[s][i].key \in Keys
      BY DEF DeliveryInv, TypeInv, TypeOK, Worker
    <3>2. /\ Running(worker[s][i].key) \in Worker
          /\ Running(worker[s][i].key).pc = "running"
      BY <3>1, WorkerType DEF Running, At
    <3> QED BY <2>1, <3>2 DEF Begin
  <2>2. CASE Return(s, i) \/ Raise(s, i)
    <3>1. Returned(s) \in Worker /\ Returned(s).pc \in {"taking", "over"}
      BY WorkerType DEF Returned, Taking, Over, At
    <3> QED BY <2>2, <3>1 DEF Return, Raise
  <2> QED BY <2>1, <2>2
<1>1. /\ UNCHANGED <<runner, queue, held, owed, output, arrived, consumer>>
      /\ TypeOK
  BY DEF Begin, Return, Raise, mergeVars, consumerVars, DeliveryInv, TypeInv
<1>3. \A t \in Steps : \A j \in Slots(t) :
        worker'[t][j] = IF t = s /\ j = i THEN w ELSE worker[t][j]
  BY <1>0, <1>1, AdvanceType
<1>4. ASSUME NEW d \in Steps, NEW u \in Upstream[d] PROVE EdgeOK(u, d)'
  <2>1. \A n \in Ordinals : Taken(u, d, n)' <=> Taken(u, d, n)
    BY <1>0, <1>1, <1>3 DEF Taken, Slots
  <2>2. ASSUME u # Input
        PROVE  \A j \in Slots(u), n \in Ordinals : Putting(u, d, j, n)' <=> Putting(u, d, j, n)
    <3>1. u \in Steps
      BY <2>2, EdgeType
    <3> QED BY <1>0, <1>1, <1>3, <3>1 DEF Putting
  <2>3. Open' => Open
    BY <1>1 DEF Open
  <2> QED BY <1>1, <2>1, <2>2, <2>3, NothingMoves
<1>5. \A t \in Steps : StepOK(t)'
  BY <1>0, <1>1, <1>3, OthersKeep
<1> QED BY <1>4, <1>5 DEF DeliveryInv

LEMMA EmitDelivery ==
  ASSUME DeliveryInv, TypeInv', NEW s \in Steps, NEW i \in Slots(s), Emit(s, i)
  PROVE  DeliveryInv'
<1> DEFINE w == worker[s][i]
           new == Len(output[s]) + 1
           x == IF Downstream(s) = {} THEN Delivered(s, w)
                ELSE [pc |-> "putting", key |-> w.key, out |-> new, pend |-> Downstream(s)]
<1>1. /\ TypeInv /\ TypeOK /\ StepOK(s) /\ w \in Worker /\ w.pc = "running"
      /\ Len(output[s]) \in Nat
      /\ Len(output[s]) < Yields[s]
      /\ UNCHANGED <<runner, queue, held, owed, arrived, consumer>>
  BY DEF Emit, DeliveryInv, TypeInv, TypeOK, mergeVars, consumerVars
<1>2. new \in Ordinals /\ new \in Nat /\ ~(new <= Len(output[s]))
  <2>1. Yields[s] \in 0 .. MaxItems
    BY LimitAssumption
  <2> QED BY <1>1, <2>1, LimitAssumption DEF Ordinals
<1>3. \A t \in Steps : Len(output'[t]) = IF t = s THEN new ELSE Len(output[t])
  <2>1. OutKey(s, w) \in Keys
    <3>1. w.key \in Keys
      BY <1>1 DEF Worker
    <3>2. Yields[s] \in 0 .. MaxItems
      BY LimitAssumption
    <3> QED BY <1>1, <3>1, <3>2, LimitAssumption DEF OutKey, Keys
  <2>2. output' = [output EXCEPT ![s] = Append(@, OutKey(s, w))]
    BY DEF Emit
  <2> HIDE DEF w
  <2> QED BY <1>1, <2>1, <2>2, OutputGrows
<1>4. /\ Advance(s, i, x)
      /\ x.pc \notin {"idle", "taking"}
      /\ x \in Worker
      /\ x.pc = "putting" => x.out = new
      /\ \A d \in Downstream(s) : x.pc = "putting" /\ d \in x.pend
  <2>1. Advance(s, i, x)
    BY DEF Emit
  <2>2. CASE Downstream(s) = {}
    BY <1>1, <2>1, <2>2, DeliveredType DEF Delivered, Over, Running, At
  <2>3. CASE Downstream(s) # {}
    <3>1. w.key \in Keys /\ Downstream(s) \subseteq Steps
      BY <1>1 DEF Worker, Downstream
    <3> QED BY <1>2, <2>1, <2>3, <3>1 DEF Worker
  <2> QED BY <2>2, <2>3
<1> HIDE DEF x
<1>5. \A t \in Steps : \A j \in Slots(t) :
        worker'[t][j] = IF t = s /\ j = i THEN x ELSE worker[t][j]
  BY <1>1, <1>4, AdvanceType
<1>6. \A j \in Slots(s) : worker[s][j].out <= Len(output[s])
  BY <1>1 DEF TypeInv, Travelling
<1> HIDE DEF w, new
<1>7. ASSUME NEW d \in Steps, NEW u \in Upstream[d] PROVE EdgeOK(u, d)'
  <2>1. \A n \in Ordinals : Taken(u, d, n)' <=> Taken(u, d, n)
    BY <1>1, <1>4, <1>5 DEF Taken, Slots, w
  <2>2. /\ Distinct(u, d)' <=> Distinct(u, d)
        /\ \A n : InQueue(u, d, n)' <=> InQueue(u, d, n)
    BY <1>1 DEF Distinct, InQueue
  <2>6. Open' => Open
    BY <1>1 DEF Open
  <2>7. owed'[u] = owed[u] /\ runner'[u] = runner[u]
    BY <1>1
  <2>3. EdgeOK(u, d) /\ u \in Steps \cup {Input}
    BY EdgeType DEF DeliveryInv
  <2>4. CASE u = s
    <3>1. d \in Downstream(s) /\ s # Input
      BY <2>4, TopologyAssumption DEF Downstream
    <3>2. \A j \in Slots(s), n \in Ordinals :
            Putting(u, d, j, n)' <=> Putting(u, d, j, n) \/ (j = i /\ n = new)
      BY <1>1, <1>4, <1>5, <2>4, <3>1 DEF Putting, w
    <3>3. Produced(u) = Len(output[s]) /\ Produced(u)' = new
      BY <1>3, <2>4, <3>1 DEF Produced
    <3>4. ~InQueue(u, d, new) /\ ~Taken(u, d, new)
      BY <1>1, <1>2, <2>3, <3>3, ProducedType DEF EdgeOK
    <3>5. \A n \in Ordinals : Taken(u, d, n)' => n <= Produced(u)'
      <4>1. \A n \in Nat : n <= Len(output[s]) => n <= new
        BY <1>1 DEF new
      <4> QED BY <2>1, <2>3, <3>3, <4>1 DEF EdgeOK, Ordinals
    <3>6. \A j \in Slots(u), n \in Ordinals :
            Putting(u, d, j, n)' => ~InQueue(u, d, n)' /\ ~Taken(u, d, n)'
      BY <2>1, <2>2, <2>3, <2>4, <3>1, <3>2, <3>4 DEF EdgeOK
    <3>7. ASSUME Open', KeyRaises = {}, NEW n \in 1 .. Len(output'[u])
          PROVE  \/ InQueue(u, d, n)' \/ Taken(u, d, n)'
                 \/ \E j \in Slots(u) : Putting(u, d, j, n)'
      <4>1. CASE n = new
        BY <1>2, <2>4, <3>2, <4>1
      <4>2. CASE n # new
        <5>1. n \in 1 .. Len(output[u])
          BY <1>1, <1>3, <2>4, <3>7, <4>2 DEF new
        <5>2. n \in Ordinals
          BY <1>1, <2>4, <5>1, OutputOrdinals
        <5>3. InQueue(u, d, n) \/ Taken(u, d, n) \/ \E j \in Slots(u) : Putting(u, d, j, n)
          BY <2>3, <2>4, <2>6, <3>1, <3>7, <5>1 DEF EdgeOK
        <5> QED BY <2>1, <2>2, <2>4, <3>2, <5>2, <5>3
      <4> QED BY <4>1, <4>2
    <3>8. InQueue(u, d, DONE)' => d \notin owed'[u] /\ runner'[u] \in Closing
      BY <2>2, <2>3, <2>4, <2>7, <3>1 DEF EdgeOK
    <3>9. Distinct(u, d)' /\ \A n \in Ordinals : InQueue(u, d, n)' => ~Taken(u, d, n)'
      BY <2>1, <2>2, <2>3 DEF EdgeOK
    <3> QED BY <3>5, <3>6, <3>7, <3>8, <3>9 DEF EdgeOK
  <2>5. CASE u # s
    <3>1. u # Input => \A j \in Slots(u), n \in Ordinals :
                         Putting(u, d, j, n)' <=> Putting(u, d, j, n)
      BY <1>5, <2>3, <2>5 DEF Putting
    <3>2. Produced(u)' = Produced(u)
      BY <1>3, <2>3, <2>5 DEF Produced
    <3>3. u # Input => Len(output'[u]) = Len(output[u])
                       /\ 1 .. Len(output[u]) \subseteq Ordinals
      BY <1>1, <1>3, <2>3, <2>5, OutputOrdinals
    <3>4. ASSUME u # Input
          PROVE  /\ \A j \in Slots(u), n \in Ordinals :
                      Putting(u, d, j, n)' => ~InQueue(u, d, n)' /\ ~Taken(u, d, n)'
                 /\ InQueue(u, d, DONE)' => d \notin owed'[u] /\ runner'[u] \in Closing
      BY <2>1, <2>2, <2>3, <2>7, <3>1, <3>4 DEF EdgeOK
    <3>5. ASSUME u # Input, Open', KeyRaises = {}, NEW n \in 1 .. Len(output'[u])
          PROVE  \/ InQueue(u, d, n)' \/ Taken(u, d, n)'
                 \/ \E j \in Slots(u) : Putting(u, d, j, n)'
      <4>1. n \in 1 .. Len(output[u]) /\ n \in Ordinals
        BY <3>3, <3>5
      <4>2. InQueue(u, d, n) \/ Taken(u, d, n) \/ \E j \in Slots(u) : Putting(u, d, j, n)
        BY <2>3, <2>6, <3>5, <4>1 DEF EdgeOK
      <4> QED BY <2>1, <2>2, <3>1, <3>5, <4>1, <4>2
    <3>6. /\ Distinct(u, d)' /\ \A n \in Ordinals : InQueue(u, d, n)' => ~Taken(u, d, n)'
          /\ \A n \in Ordinals : Taken(u, d, n)' => n <= Produced(u)'
      BY <2>1, <2>2, <2>3, <3>2 DEF EdgeOK
    <3> QED BY <3>4, <3>5, <3>6 DEF EdgeOK
  <2> QED BY <2>4, <2>5
<1>8. \A t \in Steps : StepOK(t)'
  <2>1. w.pc # "idle" /\ x.pc # "idle"
    BY <1>1, <1>4
  <2>2. x.pc = "putting" =>
          /\ x.out \in Ordinals
          /\ \A j \in Slots(s) \ {i} :
               worker[s][j].pc = "putting" => worker[s][j].out # x.out
    BY <1>2, <1>4, <1>6
  <2> QED BY <1>1, <1>4, <1>5, <2>1, <2>2, OthersKeep DEF w
<1> QED BY <1>7, <1>8 DEF DeliveryInv

LEMMA PutDelivery ==
  ASSUME DeliveryInv, TypeInv', NEW s \in Steps, NEW i \in Slots(s), Put(s, i)
  PROVE  DeliveryInv'
<1> DEFINE w == worker[s][i]
<1>1. /\ TypeInv /\ TypeOK /\ StepOK(s) /\ w \in Worker /\ w.pc = "putting"
      /\ w.out \in Ordinals /\ w.pend \subseteq Downstream(s)
      /\ UNCHANGED <<runner, held, owed, output, arrived, consumer>>
  BY DEF Put, DeliveryInv, StepOK, TypeInv, TypeOK, Travelling, mergeVars, consumerVars
<1>2. PICK d \in w.pend :
        /\ queue' = [queue EXCEPT ![<<s, d>>] = Append(queue[<<s, d>>], w.out)]
        /\ Advance(s, i, IF Remaining(w, d) = {} THEN Delivered(s, w)
                         ELSE [w EXCEPT !.pend = Remaining(w, d)])
  BY DEF Put
<1> DEFINE x == IF Remaining(w, d) = {} THEN Delivered(s, w)
                ELSE [w EXCEPT !.pend = Remaining(w, d)]
<1>3. d \in Steps /\ s \in Upstream[d] /\ s # Input
  BY <1>1, DownstreamType
<1>4. /\ Advance(s, i, x) /\ x \in Worker /\ x.pc # "idle"
      /\ x.pc = "putting" => x.out = w.out
      /\ \A c : (x.pc = "putting" /\ c \in x.pend) <=> (c \in w.pend /\ c # d)
  <2>1. Advance(s, i, x)
    BY <1>2
  <2>2. CASE Remaining(w, d) = {}
    <3>1. x = Delivered(s, w) /\ w.pend \subseteq {d}
      BY <2>2 DEF Remaining
    <3>2. x.pc # "putting" /\ x.pc # "idle"
      BY <3>1 DEF Delivered, Over, Running, At
    <3> QED BY <1>1, <2>1, <3>1, <3>2, DeliveredType
  <2>3. CASE Remaining(w, d) # {}
    <3>1. x = [w EXCEPT !.pend = w.pend \ {d}]
      BY <2>3 DEF Remaining
    <3> HIDE DEF x
    <3> QED BY <1>1, <2>1, <3>1 DEF Worker
  <2> QED BY <2>2, <2>3
<1> HIDE DEF x
<1>5. \A t \in Steps : \A j \in Slots(t) :
        worker'[t][j] = IF t = s /\ j = i THEN x ELSE worker[t][j]
  BY <1>1, <1>4, AdvanceType
<1>6. /\ EdgeOK(s, d) /\ Putting(s, d, i, w.out)
      /\ ~InQueue(s, d, w.out) /\ ~Taken(s, d, w.out)
  <2>1. EdgeOK(s, d) /\ Putting(s, d, i, w.out)
    BY <1>1, <1>3 DEF DeliveryInv, Putting
  <2> QED BY <1>1, <1>3, <2>1 DEF EdgeOK
<1>7. \A c \in Steps : \A v \in Upstream[c] :
        /\ NoRepeat(queue[<<v, c>>]) => NoRepeat(queue'[<<v, c>>])
        /\ \A n : Has(queue'[<<v, c>>], n) <=>
             Has(queue[<<v, c>>], n) \/ (v = s /\ c = d /\ n = w.out)
  <2> DEFINE y == w.out
  <2>1. /\ y \in {DONE} \cup Ordinals /\ ~Has(queue[<<s, d>>], y)
        /\ queue' = [queue EXCEPT ![<<s, d>>] = Append(queue[<<s, d>>], y)]
        /\ NoRepeat(queue[<<s, d>>])
    BY <1>1, <1>2, <1>6 DEF InQueue, EdgeOK, Distinct
  <2> HIDE DEF y
  <2>2. \A c \in Steps : \A v \in Upstream[c] :
          /\ NoRepeat(queue[<<v, c>>]) => NoRepeat(queue'[<<v, c>>])
          /\ \A n : Has(queue'[<<v, c>>], n) <=>
               Has(queue[<<v, c>>], n) \/ (v = s /\ c = d /\ n = y)
    BY <1>1, <1>3, <2>1, PutEffect
  <2> QED BY <2>2 DEF y
<1>8. \A j \in Slots(s) \ {i} : worker[s][j].pc = "putting" => worker[s][j].out # w.out
  BY <1>1 DEF StepOK
<1> HIDE DEF w
<1>9. ASSUME NEW c \in Steps, NEW v \in Upstream[c] PROVE EdgeOK(v, c)'
  <2>1. \A n \in Ordinals : Taken(v, c, n)' <=> Taken(v, c, n)
    BY <1>1, <1>4, <1>5 DEF Taken, Slots, w
  <2>2. /\ Distinct(v, c)'
        /\ \A n : InQueue(v, c, n)' <=>
             InQueue(v, c, n) \/ (v = s /\ c = d /\ n = w.out)
    BY <1>7 DEF DeliveryInv, EdgeOK, Distinct, InQueue
  <2>3. /\ Produced(v)' = Produced(v)
        /\ owed'[v] = owed[v] /\ runner'[v] = runner[v] /\ output' = output
    BY <1>1 DEF Produced
  <2>13. Open' => Open
    BY <1>1 DEF Open
  <2>4. ASSUME v # Input
        PROVE  \A j \in Slots(v), n \in Ordinals :
                 Putting(v, c, j, n)' <=>
                   Putting(v, c, j, n) /\ ~(v = s /\ c = d /\ n = w.out)
    <3>1. v \in Steps
      BY <2>4, EdgeType
    <3>2. CASE v = s
      BY <1>1, <1>4, <1>5, <1>8, <3>2 DEF Putting, w
    <3>3. CASE v # s
      BY <1>5, <3>1, <3>3 DEF Putting
    <3> QED BY <3>2, <3>3
  <2>5. EdgeOK(v, c) /\ v \in Steps \cup {Input}
    BY EdgeType DEF DeliveryInv
  <2>6. w.out # DONE
    BY <1>1, DoneIsNoOrdinal
  <2>7. v \in Steps => 1 .. Len(output[v]) \subseteq Ordinals
    BY <1>1, OutputOrdinals
  <2>8. \A n \in Ordinals : InQueue(v, c, n)' => ~Taken(v, c, n)'
    BY <1>6, <2>1, <2>2, <2>5 DEF EdgeOK
  <2>9. ASSUME v # Input, NEW j \in Slots(v), NEW n \in Ordinals, Putting(v, c, j, n)'
        PROVE  ~InQueue(v, c, n)' /\ ~Taken(v, c, n)'
    BY <2>1, <2>2, <2>4, <2>5, <2>9 DEF EdgeOK
  <2>10. ASSUME v # Input, Open', KeyRaises = {}, NEW n \in 1 .. Len(output'[v])
         PROVE  \/ InQueue(v, c, n)' \/ Taken(v, c, n)'
                \/ \E j \in Slots(v) : Putting(v, c, j, n)'
    <3>1. n \in 1 .. Len(output[v]) /\ n \in Ordinals
      BY <2>3, <2>5, <2>7, <2>10
    <3>2. InQueue(v, c, n) \/ Taken(v, c, n) \/ \E j \in Slots(v) : Putting(v, c, j, n)
      BY <2>5, <2>10, <2>13, <3>1 DEF EdgeOK
    <3>3. CASE InQueue(v, c, n) \/ Taken(v, c, n)
      BY <2>1, <2>2, <3>1, <3>3
    <3>4. ASSUME NEW j \in Slots(v), Putting(v, c, j, n)
          PROVE  InQueue(v, c, n)' \/ Putting(v, c, j, n)'
      BY <2>2, <2>4, <2>10, <3>1, <3>4
    <3> QED BY <3>2, <3>3, <3>4
  <2>11. v # Input /\ InQueue(v, c, DONE)' => c \notin owed'[v] /\ runner'[v] \in Closing
    BY <2>2, <2>3, <2>5, <2>6 DEF EdgeOK
  <2>12. \A n \in Ordinals : Taken(v, c, n)' => n <= Produced(v)'
    BY <2>1, <2>3, <2>5 DEF EdgeOK
  <2> QED BY <2>2, <2>8, <2>9, <2>10, <2>11, <2>12 DEF EdgeOK
<1>10. \A t \in Steps : StepOK(t)'
  <2>1. w.pc # "idle"
    BY <1>1
  <2> QED BY <1>1, <1>4, <1>5, <1>8, <2>1, OthersKeep DEF w
<1> QED BY <1>9, <1>10 DEF DeliveryInv

-----------------------------------------------------------------------------
(* Every step preserves the invariant: the merges. *)

LEMMA MergeTakeDelivery ==
  ASSUME DeliveryInv, TypeInv', NEW m \in Steps, IsMerge(m), NEW u \in Upstream[m],
         MergeTake(m, u)
  PROVE  DeliveryInv'
<1> DEFINE n == Head(queue[<<u, m>>])
<1>1. /\ TypeInv /\ TypeOK /\ EdgeOK(u, m)
      /\ worker[m][u].pc = "taking" /\ u \in Slots(m)
      /\ queue[<<u, m>>] # <<>> /\ n # DONE
      /\ queue' = [queue EXCEPT ![<<u, m>>] = Tail(queue[<<u, m>>])]
      /\ UNCHANGED <<runner, held, owed, output, consumer>>
  BY DEF MergeTake, DeliveryInv, TypeInv, Slots, consumerVars
<1>2. PICK k \in MergeKeys(m, u, n) :
        LET b == Stored(m, u, n, k) IN
        /\ arrived' = [arrived EXCEPT ![m] = @ \cup {[key |-> k, src |-> u, n |-> n]}]
        /\ IF Complete(m, b, k) THEN worker' = [worker EXCEPT ![m][u] = Running(k)]
           ELSE UNCHANGED worker
  BY DEF MergeTake
<1>3. /\ InQueue(u, m, n)
      /\ \A c \in Steps : \A v \in Upstream[c] :
           /\ NoRepeat(queue[<<v, c>>]) => NoRepeat(queue'[<<v, c>>])
           /\ \A j : Has(queue'[<<v, c>>], j) <=>
                Has(queue[<<v, c>>], j) /\ ~(v = u /\ c = m /\ j = n)
  BY <1>1, TakeEffect DEF EdgeOK, Distinct, InQueue
<1>4. n \in Ordinals /\ n <= Produced(u)
  <2>1. <<u, m>> \in Edges
    BY EdgeType
  <2>2. n \in Ordinals
    BY <1>1, <2>1, TakeFromQueue
  <2> QED BY <1>1, <1>3, <2>2, ProducedType
<1>5. k \in Keys
  BY <1>1, <1>4, EdgeType, KeyType DEF MergeKeys
<1>6. ~Taken(u, m, n)
  BY <1>1, <1>3, <1>4 DEF EdgeOK
<1> HIDE DEF n
<1>7. \A t \in Steps : \A i \in Slots(t) :
        \/ worker'[t][i] = worker[t][i]
        \/ /\ t = m /\ worker[t][i].pc = "taking" /\ worker'[t][i].pc = "running"
  <2>1. CASE worker' = worker
    BY <2>1
  <2>2. CASE worker' = [worker EXCEPT ![m][u] = Running(k)]
    <3>1. Running(k) \in Worker /\ Running(k).pc = "running"
      BY <1>5, WorkerType DEF Running, At
    <3> DEFINE x == Running(k)
    <3>2. x \in Worker /\ x.pc = "running" /\ worker' = [worker EXCEPT ![m][u] = x]
      BY <2>2, <3>1
    <3> HIDE DEF x
    <3>3. \A t \in Steps : \A j \in Slots(t) :
            worker'[t][j] = IF t = m /\ j = u THEN x ELSE worker[t][j]
      BY <1>1, <3>2, WorkerUpdate
    <3> QED BY <1>1, <3>2, <3>3
  <2> QED BY <1>2, <2>1, <2>2
<1>8. /\ \A c \in Steps \ {m} : arrived'[c] = arrived[c]
      /\ arrived'[m] = arrived[m] \cup {[key |-> k, src |-> u, n |-> n]}
  <2>1. arrived = [c \in Steps |-> arrived[c]]
    BY <1>1 DEF TypeOK
  <2> QED BY <1>2, <2>1
<1>9. ASSUME NEW c \in Steps, NEW v \in Upstream[c] PROVE EdgeOK(v, c)'
  <2>1. \A j \in Ordinals : Taken(v, c, j)' <=> Taken(v, c, j) \/ (v = u /\ c = m /\ j = n)
    <3>1. CASE c = m
      <4> DEFINE new == [key |-> k, src |-> u, n |-> n]
      <4>1. new.src = u /\ new.n = n
        OBVIOUS
      <4>2. arrived'[c] = arrived[c] \cup {new}
        BY <1>8, <3>1
      <4> HIDE DEF new
      <4> QED BY <3>1, <4>1, <4>2 DEF Taken
    <3>2. CASE c # m
      BY <1>1, <1>7, <1>8, <3>2 DEF Taken, Slots
    <3> QED BY <3>1, <3>2
  <2>2. ASSUME v # Input
        PROVE  \A i \in Slots(v), j \in Ordinals : Putting(v, c, i, j)' <=> Putting(v, c, i, j)
    <3>1. v \in Steps
      BY <2>2, EdgeType
    <3> QED BY <1>7, <3>1 DEF Putting
  <2>3. /\ Distinct(v, c)'
        /\ \A j : InQueue(v, c, j)' <=>
             InQueue(v, c, j) /\ ~(v = u /\ c = m /\ j = n)
    BY <1>3 DEF DeliveryInv, EdgeOK, Distinct, InQueue
  <2>4. Produced(v)' = Produced(v) /\ output' = output
    BY <1>1 DEF Produced
  <2>5. Open' => Open
    BY <1>1 DEF Open
  <2>6. owed'[v] = owed[v] /\ runner'[v] = runner[v]
    BY <1>1
  <2>7. EdgeOK(v, c) /\ v \in Steps \cup {Input}
    BY EdgeType DEF DeliveryInv
  <2>8. \A j \in Ordinals : InQueue(v, c, j)' => ~Taken(v, c, j)'
    BY <2>1, <2>3, <2>7 DEF EdgeOK
  <2>9. \A j \in Ordinals : Taken(v, c, j)' => j <= Produced(v)'
    BY <1>4, <2>1, <2>4, <2>7 DEF EdgeOK
  <2>10. ASSUME v # Input, NEW i \in Slots(v), NEW j \in Ordinals, Putting(v, c, i, j)'
         PROVE  ~InQueue(v, c, j)' /\ ~Taken(v, c, j)'
    <3>1. ~InQueue(v, c, j) /\ ~Taken(v, c, j)
      BY <2>2, <2>7, <2>10 DEF EdgeOK
    <3> QED BY <1>3, <2>1, <2>3, <3>1
  <2>11. v # Input /\ InQueue(v, c, DONE)' => c \notin owed'[v] /\ runner'[v] \in Closing
    BY <2>3, <2>6, <2>7 DEF EdgeOK
  <2>12. ASSUME v # Input, Open', KeyRaises = {}, NEW j \in 1 .. Len(output'[v])
         PROVE  \/ InQueue(v, c, j)' \/ Taken(v, c, j)'
                \/ \E i \in Slots(v) : Putting(v, c, i, j)'
    <3>1. j \in 1 .. Len(output[v]) /\ j \in Ordinals
      BY <1>1, <2>4, <2>7, <2>12, OutputOrdinals
    <3>2. InQueue(v, c, j) \/ Taken(v, c, j) \/ \E i \in Slots(v) : Putting(v, c, i, j)
      BY <2>5, <2>7, <2>12, <3>1 DEF EdgeOK
    <3> QED BY <2>1, <2>2, <2>3, <2>12, <3>1, <3>2
  <2> QED BY <2>3, <2>8, <2>9, <2>10, <2>11, <2>12 DEF EdgeOK
<1>10. ASSUME NEW t \in Steps PROVE StepOK(t)'
  <2>1. StepOK(t)
    BY DEF DeliveryInv
  <2>2. held[t] \in Ordinals \/ held[t] = DONE
    BY <1>1 DEF TypeOK
  <2>3. ~IsMerge(t) => Slots(t) = Ordinals
    BY DEF Slots
  <2>4. CASE t = m
    BY <1>1, <1>7, <2>1, <2>4 DEF StepOK
  <2>5. CASE t # m
    BY <1>1, <1>7, <2>1, <2>2, <2>3, <2>5 DEF StepOK
  <2> QED BY <2>4, <2>5
<1> QED BY <1>9, <1>10 DEF DeliveryInv

(* A consume_source task ends: with the _DONE of its source, or because     *)
(* merge_key raised for the item it took. *)
LEMMA MergeEndDelivery ==
  ASSUME DeliveryInv, TypeInv', NEW m \in Steps, IsMerge(m), NEW u \in Upstream[m],
         MergeTakeDone(m, u) \/ MergeKeyRaise(m, u)
  PROVE  DeliveryInv'
<1> DEFINE n == Head(queue[<<u, m>>])
<1>1. /\ TypeInv /\ TypeOK /\ EdgeOK(u, m)
      /\ worker[m][u].pc = "taking" /\ u \in Slots(m)
      /\ queue[<<u, m>>] # <<>>
      /\ n = DONE \/ KeyRaises # {}
      /\ queue' = [queue EXCEPT ![<<u, m>>] = Tail(queue[<<u, m>>])]
      /\ worker' = [worker EXCEPT ![m][u] = Over]
      /\ UNCHANGED <<held, output, arrived, consumer>>
  BY DEF MergeTakeDone, MergeKeyRaise, DeliveryInv, TypeInv, Slots, mergeVars, consumerVars
<1>2. \A c \in Steps : \A v \in Upstream[c] :
        /\ NoRepeat(queue[<<v, c>>]) => NoRepeat(queue'[<<v, c>>])
        /\ \A j : Has(queue'[<<v, c>>], j) <=>
             Has(queue[<<v, c>>], j) /\ ~(v = u /\ c = m /\ j = n)
  BY <1>1, TakeEffect DEF EdgeOK, Distinct
<1>3. \A t \in Steps : \A i \in Slots(t) :
        \/ worker'[t][i] = worker[t][i]
        \/ /\ t = m /\ worker[t][i].pc = "taking" /\ worker'[t][i].pc = "over"
  <2>1. Over \in Worker /\ Over.pc = "over"
    BY WorkerType DEF Over, At
  <2>2. \A t \in Steps : \A j \in Slots(t) :
          worker'[t][j] = IF t = m /\ j = u THEN Over ELSE worker[t][j]
    BY <1>1, <2>1, WorkerUpdate
  <2> QED BY <1>1, <2>1, <2>2
<1>4. /\ \A t \in Steps \ {m} : runner'[t] = runner[t] /\ owed'[t] = owed[t]
      /\ \/ runner'[m] = runner[m] /\ owed'[m] = owed[m]
         \/ runner[m] = "joining" /\ runner'[m] \in {"closing", "done"}
  <2>1. \/ UNCHANGED <<runner, owed>>
        \/ runner[m] = "joining" /\ BeginClosing(m)
    BY DEF MergeTakeDone, MergeKeyRaise
  <2> QED BY <1>1, <2>1, BeginClosingMoves
<1> HIDE DEF n
<1>5. ASSUME NEW c \in Steps, NEW v \in Upstream[c] PROVE EdgeOK(v, c)'
  <2>1. \A j \in Ordinals : Taken(v, c, j)' <=> Taken(v, c, j)
    BY <1>1, <1>3 DEF Taken, Slots
  <2>2. ASSUME v # Input
        PROVE  \A i \in Slots(v), j \in Ordinals : Putting(v, c, i, j)' <=> Putting(v, c, i, j)
    <3>1. v \in Steps
      BY <2>2, EdgeType
    <3> QED BY <1>3, <3>1 DEF Putting
  <2>3. /\ Distinct(v, c)'
        /\ \A j : InQueue(v, c, j)' <=>
             InQueue(v, c, j) /\ ~(v = u /\ c = m /\ j = n)
    BY <1>2 DEF DeliveryInv, EdgeOK, Distinct, InQueue
  <2>4. Produced(v)' = Produced(v) /\ output' = output
    BY <1>1 DEF Produced
  <2>5. Open' => Open
    BY <1>1 DEF Open
  <2>6. EdgeOK(v, c) /\ v \in Steps \cup {Input}
    BY EdgeType DEF DeliveryInv
  <2>7. /\ \A j \in Ordinals : InQueue(v, c, j)' => ~Taken(v, c, j)'
        /\ \A j \in Ordinals : Taken(v, c, j)' => j <= Produced(v)'
    BY <2>1, <2>3, <2>4, <2>6 DEF EdgeOK
  <2>8. ASSUME v # Input, NEW i \in Slots(v), NEW j \in Ordinals, Putting(v, c, i, j)'
        PROVE  ~InQueue(v, c, j)' /\ ~Taken(v, c, j)'
    BY <2>1, <2>2, <2>3, <2>6, <2>8 DEF EdgeOK
  <2>9. ASSUME v # Input, InQueue(v, c, DONE)'
        PROVE  c \notin owed'[v] /\ runner'[v] \in Closing
    <3>1. c \notin owed[v] /\ runner[v] \in Closing /\ v \in Steps
      BY <2>3, <2>6, <2>9 DEF EdgeOK
    <3>2. runner[v] # "joining"
      BY <3>1 DEF Closing, Ended
    <3> QED BY <1>4, <3>1, <3>2
  <2>10. ASSUME v # Input, Open', KeyRaises = {}, NEW j \in 1 .. Len(output'[v])
         PROVE  \/ InQueue(v, c, j)' \/ Taken(v, c, j)'
                \/ \E i \in Slots(v) : Putting(v, c, i, j)'
    <3>1. j \in 1 .. Len(output[v]) /\ j \in Ordinals /\ j # n
      BY <1>1, <2>4, <2>6, <2>10, OutputOrdinals, DoneIsNoOrdinal
    <3>2. InQueue(v, c, j) \/ Taken(v, c, j) \/ \E i \in Slots(v) : Putting(v, c, i, j)
      BY <2>5, <2>6, <2>10, <3>1 DEF EdgeOK
    <3> QED BY <2>1, <2>2, <2>3, <2>10, <3>1, <3>2
  <2> QED BY <2>3, <2>7, <2>8, <2>9, <2>10 DEF EdgeOK
<1>6. ASSUME NEW t \in Steps PROVE StepOK(t)'
  <2>1. StepOK(t) /\ (held[t] \in Ordinals \/ held[t] = DONE)
    BY <1>1 DEF DeliveryInv, TypeOK
  <2>2. ~IsMerge(t) => Slots(t) = Ordinals
    BY DEF Slots
  <2>3. runner'[t] = "created" => runner[t] = "created"
    BY <1>4
  <2>4. runner[t] = "acquiring" => runner'[t] = "acquiring"
    BY <1>4
  <2>5. CASE t = m
    BY <1>1, <1>3, <2>1, <2>3, <2>5 DEF StepOK
  <2>6. CASE t # m
    BY <1>1, <1>3, <2>1, <2>2, <2>3, <2>4, <2>6 DEF StepOK
  <2> QED BY <2>5, <2>6
<1> QED BY <1>5, <1>6 DEF DeliveryInv

-----------------------------------------------------------------------------
(* Every step preserves the invariant: the consumer. *)

LEMMA AfterCancelMoves ==
  ASSUME NEW s \in Steps
  PROVE  /\ runner[s] \in Closing => AfterCancel(s) \in Closing
         /\ AfterCancel(s) = "created" => runner[s] = "created"
BY DEF AfterCancel, Closing, Ended

LEMMA CancelDelivery ==
  ASSUME DeliveryInv, TypeInv', CancelRunners, consumer' = "closing"
  PROVE  DeliveryInv'
<1>1. /\ UNCHANGED <<queue, output, arrived>>
      /\ \A s \in Steps : runner'[s] = AfterCancel(s) /\ held'[s] = DONE
      /\ \A s \in Steps : \A i \in Slots(s) :
           worker'[s][i] = IF runner[s] = "joining" /\ i \in Live(s)
                           THEN Stricken(worker[s][i]) ELSE worker[s][i]
      /\ \A s \in Steps : runner[s] # "joining" => owed'[s] = {}
  BY DEF CancelRunners, mergeVars
<1>2. \A s \in Steps : \A i \in Slots(s) :
        /\ worker'[s][i].pc = "idle" <=> worker[s][i].pc = "idle"
        /\ worker'[s][i].pc = "putting" => worker'[s][i] = worker[s][i]
  BY <1>1, StrickenType DEF Live
<1>3. ~Open'
  BY DEF Open
<1>4. ASSUME NEW d \in Steps, NEW u \in Upstream[d] PROVE EdgeOK(u, d)'
  <2>1. \A n \in Ordinals : Taken(u, d, n)' => Taken(u, d, n)
    <3>1. CASE IsMerge(d)
      BY <1>1, <3>1 DEF Taken
    <3>2. CASE ~IsMerge(d)
      BY <1>1, <1>2, <3>2, DoneIsNoOrdinal DEF Taken, Slots
    <3> QED BY <3>1, <3>2
  <2>2. ASSUME u # Input
        PROVE  \A i \in Slots(u), n \in Ordinals : Putting(u, d, i, n)' => Putting(u, d, i, n)
    <3>1. u \in Steps
      BY <2>2, EdgeType
    <3> QED BY <1>2, <3>1 DEF Putting
  <2>3. /\ Distinct(u, d)' <=> Distinct(u, d)
        /\ \A n : InQueue(u, d, n)' <=> InQueue(u, d, n)
    BY <1>1 DEF Distinct, InQueue
  <2>4. Produced(u)' = Produced(u)
    BY <1>1 DEF Produced
  <2>5. EdgeOK(u, d) /\ u \in Steps \cup {Input}
    BY EdgeType DEF DeliveryInv
  <2>6. /\ \A n \in Ordinals : InQueue(u, d, n)' => ~Taken(u, d, n)'
        /\ \A n \in Ordinals : Taken(u, d, n)' => n <= Produced(u)'
    BY <2>1, <2>3, <2>4, <2>5 DEF EdgeOK
  <2>7. ASSUME u # Input, NEW i \in Slots(u), NEW n \in Ordinals, Putting(u, d, i, n)'
        PROVE  ~InQueue(u, d, n)' /\ ~Taken(u, d, n)'
    BY <2>1, <2>2, <2>3, <2>5, <2>7 DEF EdgeOK
  <2>8. ASSUME u # Input, InQueue(u, d, DONE)'
        PROVE  d \notin owed'[u] /\ runner'[u] \in Closing
    <3>1. runner[u] \in Closing /\ u \in Steps
      BY <2>3, <2>5, <2>8 DEF EdgeOK
    <3>2. runner[u] # "joining"
      BY <3>1 DEF Closing, Ended
    <3> QED BY <1>1, <3>1, <3>2, AfterCancelMoves
  <2> QED BY <1>3, <2>3, <2>5, <2>6, <2>7, <2>8 DEF EdgeOK
<1>5. ASSUME NEW s \in Steps PROVE StepOK(s)'
  <2>1. StepOK(s)
    BY DEF DeliveryInv
  <2>2. runner'[s] = "created" => runner[s] = "created"
    BY <1>1, AfterCancelMoves
  <2> QED BY <1>1, <1>2, <2>1, <2>2 DEF StepOK
<1> QED BY <1>4, <1>5 DEF DeliveryInv

LEMMA ConsumerDelivery ==
  ASSUME DeliveryInv, TypeInv',
         FinishPipeline \/ FinishClose \/ Close \/ CancelAgain \/ UNCHANGED vars
  PROVE  DeliveryInv'
<1>1. CASE Close \/ CancelAgain
  <2>1. CancelRunners /\ consumer' = "closing"
    BY <1>1 DEF Close, CancelAgain, DeliveryInv, TypeInv, TypeOK
  <2> QED BY <2>1, CancelDelivery
<1>2. CASE FinishPipeline \/ FinishClose \/ UNCHANGED vars
  <2>1. /\ UNCHANGED <<queue, runner, held, worker, owed, output, arrived>>
        /\ Open' => Open
    BY <1>2 DEF FinishPipeline, FinishClose, Open, vars, mergeVars, consumerVars
  <2>2. ASSUME NEW d \in Steps, NEW u \in Upstream[d] PROVE EdgeOK(u, d)'
    <3>1. /\ \A n \in Ordinals : Taken(u, d, n)' <=> Taken(u, d, n)
          /\ \A i \in Slots(u), n \in Ordinals : Putting(u, d, i, n)' <=> Putting(u, d, i, n)
      BY <2>1 DEF Taken, Putting
    <3>2. owed'[u] = owed[u] /\ runner'[u] = runner[u]
      BY <2>1
    <3> QED BY <2>1, <3>1, <3>2, NothingMoves
  <2>3. ASSUME NEW s \in Steps PROVE StepOK(s)'
    BY <2>1 DEF StepOK, DeliveryInv
  <2> QED BY <2>2, <2>3 DEF DeliveryInv
<1> QED BY <1>1, <1>2

LEMMA NextDelivery == DeliveryInv /\ [Next]_vars => DeliveryInv'
<1> SUFFICES ASSUME DeliveryInv, [Next]_vars PROVE DeliveryInv'
  OBVIOUS
<1>1. TypeInv'
  BY NextTypeInv DEF DeliveryInv
<1>2. ASSUME NEW s \in Steps, RunnerStep(s) PROVE DeliveryInv'
  BY <1>1, <1>2, StartDelivery, JoinDelivery, PutDoneDelivery, TakeDelivery, AcquireDelivery
     DEF RunnerStep
<1>3. ASSUME NEW s \in Steps, WorkerStep(s) PROVE DeliveryInv'
  BY <1>1, <1>3, EmitDelivery, PutDelivery, ReturnDelivery, MergeTakeDelivery,
     MergeEndDelivery DEF WorkerStep
<1> QED BY <1>1, <1>2, <1>3, ConsumerDelivery DEF Next, LoopStep, Stopped

-----------------------------------------------------------------------------
(* The three places in terms of the sets of ExactlyOnce. *)
LEMMA PlacesAsSets ==
  ASSUME DeliveryInv, NEW d \in Steps, NEW u \in Upstream[d] \ {Input}
  PROVE  /\ \A n : n \in Pending(u, d) <=>
              n \in Ordinals /\ \E i \in Slots(u) : Putting(u, d, i, n)
         /\ \A n : n \in Queued(u, d) <=> n \in Ordinals /\ InQueue(u, d, n)
         /\ \A n : n \in Received(u, d) <=> n \in Ordinals /\ Taken(u, d, n)
<1>1. u \in Steps /\ <<u, d>> \in Edges /\ TypeOK /\ StepOK(u)
  BY EdgeType DEF DeliveryInv, TypeInv
<1>2. ASSUME NEW n
      PROVE  n \in Pending(u, d) <=>
               n \in Ordinals /\ \E i \in Slots(u) : Putting(u, d, i, n)
  BY <1>1 DEF Pending, Putting, StepOK
<1>3. ASSUME NEW n
      PROVE  n \in Queued(u, d) <=> n \in Ordinals /\ InQueue(u, d, n)
  <2> DEFINE q == queue[<<u, d>>]
  <2>1. q \in Seq({DONE} \cup Ordinals)
    BY <1>1 DEF TypeOK
  <2> HIDE DEF q
  <2>2. /\ DOMAIN q = 1 .. Len(q)
        /\ \A j \in 1 .. Len(q) : q[j] = DONE \/ q[j] \in Ordinals
    BY <2>1
  <2>3. n \in {q[j] : j \in DOMAIN q} \ {DONE} <=> n \in Ordinals /\ Has(q, n)
    BY <2>2, DoneIsNoOrdinal DEF Has
  <2> QED BY <2>3 DEF q, Queued, InQueue
<1>4. ASSUME NEW n
      PROVE  n \in Received(u, d) <=> n \in Ordinals /\ Taken(u, d, n)
  <2>1. CASE IsMerge(d)
    <3>1. \A a \in arrived[d] : a.n \in Ordinals
      BY <1>1 DEF TypeOK
    <3> QED BY <2>1, <3>1 DEF Received, Taken
  <2>2. CASE ~IsMerge(d)
    <3>1. held[d] \in Ordinals \/ held[d] = DONE
      BY <1>1 DEF TypeOK
    <3> QED BY <2>2, <3>1, DoneIsNoOrdinal DEF Received, Taken
  <2> QED BY <2>1, <2>2
<1> QED BY <1>2, <1>3, <1>4

LEMMA DeliveryImpliesExactlyOnce ==
  ASSUME DeliveryInv, KeyRaises = {}
  PROVE  ExactlyOnce
<1> SUFFICES ASSUME NEW d \in Steps, NEW u \in Upstream[d] \ {Input}
             PROVE  LET q == queue[<<u, d>>] IN
                    /\ Pending(u, d) \cap (Queued(u, d) \cup Received(u, d)) = {}
                    /\ Queued(u, d) \cap Received(u, d) = {}
                    /\ \A j, k \in DOMAIN q : q[j] = q[k] => j = k
                    /\ Open => Pending(u, d) \cup Queued(u, d) \cup Received(u, d)
                                 = 1 .. Len(output[u])
  BY DEF ExactlyOnce
<1>1. /\ EdgeOK(u, d) /\ u \in Steps /\ u # Input /\ <<u, d>> \in Edges
      /\ TypeInv /\ TypeOK
  BY EdgeType DEF DeliveryInv, TypeInv
<1>2. /\ \A n : n \in Pending(u, d) <=>
              n \in Ordinals /\ \E i \in Slots(u) : Putting(u, d, i, n)
      /\ \A n : n \in Queued(u, d) <=> n \in Ordinals /\ InQueue(u, d, n)
      /\ \A n : n \in Received(u, d) <=> n \in Ordinals /\ Taken(u, d, n)
  BY PlacesAsSets
<1>3. Pending(u, d) \cap (Queued(u, d) \cup Received(u, d)) = {}
  BY <1>1, <1>2 DEF EdgeOK
<1>4. Queued(u, d) \cap Received(u, d) = {}
  BY <1>1, <1>2 DEF EdgeOK
<1>5. \A j, k \in DOMAIN queue[<<u, d>>] :
        queue[<<u, d>>][j] = queue[<<u, d>>][k] => j = k
  <2>1. queue[<<u, d>>] \in Seq({DONE} \cup Ordinals)
    BY <1>1 DEF TypeOK
  <2>2. DOMAIN queue[<<u, d>>] = 1 .. Len(queue[<<u, d>>])
    BY <2>1
  <2> QED BY <1>1, <2>2 DEF EdgeOK, Distinct, NoRepeat
<1>6. ASSUME Open
      PROVE  Pending(u, d) \cup Queued(u, d) \cup Received(u, d) = 1 .. Len(output[u])
  <2>1. Len(output[u]) \in Nat /\ 1 .. Len(output[u]) \subseteq Ordinals
    BY <1>1, OutputOrdinals
  <2>2. Produced(u) = Len(output[u])
    BY <1>1 DEF Produced
  <2>3. \A n \in Ordinals : n <= Len(output[u]) => n \in 1 .. Len(output[u])
    BY <2>1 DEF Ordinals
  <2>4. \A n \in Queued(u, d) \cup Received(u, d) : n \in 1 .. Len(output[u])
    BY <1>1, <1>2, <2>2, <2>3, ProducedType DEF EdgeOK
  <2>5. \A n \in Pending(u, d) : n \in 1 .. Len(output[u])
    <3>1. \A i \in Slots(u) : worker[u][i].out <= Len(output[u])
      BY <1>1 DEF TypeInv, Travelling
    <3> QED BY <1>2, <2>3, <3>1 DEF Putting
  <2>6. \A n \in 1 .. Len(output[u]) :
          n \in Pending(u, d) \cup Queued(u, d) \cup Received(u, d)
    BY <1>1, <1>2, <1>6, <2>1 DEF EdgeOK
  <2> QED BY <2>4, <2>5, <2>6
<1> QED BY <1>3, <1>4, <1>5, <1>6

(* As long as no merge_key function raises, no output is lost, duplicated   *)
(* or delivered twice on any edge of any DAG, whatever the queue size, the  *)
(* concurrency caps and the order in which the tasks run.                   *)
THEOREM OutputsDelivered ==
  ASSUME KeyRaises = {}
  PROVE  Spec => []ExactlyOnce
<1>1. DeliveryInv => ExactlyOnce
  BY DeliveryImpliesExactlyOnce
<1> QED BY <1>1, InitDelivery, NextDelivery, PTL DEF Spec

-----------------------------------------------------------------------------
(* Permits. *)

(* The invocations whose permit is out: those in flight, and those that were *)
(* cancelled before they began.                                             *)
Holding(s) == {i \in Slots(s) : worker[s][i].pc \notin {"idle", "over"}}

PermitsHeld ==
  \A s \in Steps : MaxConc[s] > 0 => permits[s] + Cardinality(Holding(s)) = MaxConc[s]

InLoop == {"created", "receiving", "acquiring"}

UnbegunSafe == \A s \in Steps : Unbegun(s) # {} => runner[s] \notin InLoop

PermitsInv == PermitsHeld /\ UnbegunSafe

LEMMA HoldingType ==
  ASSUME NEW s \in Steps, MaxConc[s] > 0
  PROVE  /\ ~IsMerge(s) /\ Slots(s) = Ordinals
         /\ MaxConc[s] \in Nat
         /\ IsFiniteSet(Ordinals)
         /\ Holding(s) \subseteq Ordinals /\ IsFiniteSet(Holding(s))
         /\ Cardinality(Holding(s)) \in Nat
<1>1. ~IsMerge(s) /\ MaxConc[s] \in Nat /\ MaxItems \in Int
  BY LimitAssumption DEF IsMerge
<1>2. Slots(s) = Ordinals
  BY <1>1 DEF Slots
<1>3. IsFiniteSet(Ordinals)
  BY <1>1, FS_Interval DEF Ordinals
<1>4. Holding(s) \subseteq Ordinals
  BY <1>2 DEF Holding
<1>5. IsFiniteSet(Holding(s)) /\ Cardinality(Holding(s)) \in Nat
  BY <1>3, <1>4, FS_Subset, FS_CardinalityType
<1> QED BY <1>1, <1>2, <1>3, <1>4, <1>5

(* An invocation that takes the permit of its runner. *)
LEMMA SpawnPermits ==
  ASSUME TypeInv, PermitsHeld, NEW s \in Steps, NEW u, ~IsMerge(s),
         NEW n \in Ordinals, worker[s][n].pc = "idle", Spawn(s, u, n),
         Created(KeyOf(u, n)) \in Worker
  PROVE  PermitsHeld'
<1>1. \A t \in Steps : \A i \in Slots(t) :
        IF t = s /\ i = n THEN worker'[t][i].pc = "created" ELSE worker'[t][i] = worker[t][i]
  BY SpawnPlaces
<1>2. \A t \in Steps : permits'[t] = IF t = s /\ MaxConc[s] > 0 THEN permits[s] - 1
                                     ELSE permits[t]
  BY DEF Spawn, TypeInv, TypeOK
<1>3. ASSUME NEW t \in Steps, MaxConc[t] > 0
      PROVE  permits'[t] + Cardinality(Holding(t)') = MaxConc[t]
  <2>1. permits[t] + Cardinality(Holding(t)) = MaxConc[t] /\ permits[t] \in Nat
    BY <1>3 DEF PermitsHeld, TypeInv, TypeOK
  <2>2. /\ Slots(t) = Ordinals /\ IsFiniteSet(Holding(t)) /\ Cardinality(Holding(t)) \in Nat
        /\ MaxConc[t] \in Nat
    BY <1>3, HoldingType
  <2>3. CASE t = s
    <3>1. n \notin Holding(t)
      BY <2>3 DEF Holding
    <3>2. Holding(t)' = Holding(t) \cup {n}
      BY <1>1, <2>2, <2>3 DEF Holding, Slots
    <3>3. Cardinality(Holding(t) \cup {n}) = Cardinality(Holding(t)) + 1
      BY <2>2, <3>1, FS_AddElement
    <3> QED BY <1>2, <1>3, <2>1, <2>2, <2>3, <3>2, <3>3
  <2>4. CASE t # s
    <3>1. Holding(t)' = Holding(t)
      BY <1>1, <2>4 DEF Holding, Slots
    <3> QED BY <1>2, <2>1, <2>4, <3>1
  <2> QED BY <2>3, <2>4
<1> QED BY <1>3 DEF PermitsHeld

(* An invocation that goes on, or ends and gives its permit back. *)
LEMMA AdvancePermits ==
  ASSUME TypeInv, PermitsHeld, NEW s \in Steps, NEW i \in Slots(s), NEW w \in Worker,
         worker[s][i].pc \notin {"idle", "over"}, w.pc # "idle", Advance(s, i, w)
  PROVE  PermitsHeld'
<1>1. \A t \in Steps : \A j \in Slots(t) :
        worker'[t][j] = IF t = s /\ j = i THEN w ELSE worker[t][j]
  BY AdvanceType DEF TypeInv
<1>2. \A t \in Steps : permits'[t] = IF t = s /\ MaxConc[s] > 0 /\ w.pc = "over"
                                     THEN permits[s] + 1 ELSE permits[t]
  BY DEF Advance, TypeInv, TypeOK
<1>3. ASSUME NEW t \in Steps, MaxConc[t] > 0
      PROVE  permits'[t] + Cardinality(Holding(t)') = MaxConc[t]
  <2>1. permits[t] + Cardinality(Holding(t)) = MaxConc[t] /\ permits[t] \in Nat
    BY <1>3 DEF PermitsHeld, TypeInv, TypeOK
  <2>2. /\ IsFiniteSet(Holding(t)) /\ Cardinality(Holding(t)) \in Nat /\ MaxConc[t] \in Nat
    BY <1>3, HoldingType
  <2>3. CASE t = s /\ w.pc = "over"
    <3>1. i \in Holding(t)
      BY <2>3 DEF Holding
    <3>2. Holding(t)' = Holding(t) \ {i}
      BY <1>1, <2>3 DEF Holding, Slots
    <3>3. Cardinality(Holding(t) \ {i}) = Cardinality(Holding(t)) - 1
      BY <2>2, <3>1, FS_RemoveElement
    <3> QED BY <1>2, <1>3, <2>1, <2>2, <2>3, <3>2, <3>3
  <2>4. CASE ~(t = s /\ w.pc = "over")
    <3>1. Holding(t)' = Holding(t)
      BY <1>1, <2>4 DEF Holding, Slots
    <3> QED BY <1>2, <2>1, <2>4, <3>1
  <2> QED BY <2>3, <2>4
<1> QED BY <1>3 DEF PermitsHeld

(* Steps that concern no invocation of a capped step. *)
LEMMA SamePermits ==
  ASSUME PermitsHeld, UNCHANGED permits,
         \A s \in Steps : ~IsMerge(s) => \A i \in Slots(s) : worker'[s][i] = worker[s][i]
  PROVE  PermitsHeld'
<1>1. ASSUME NEW s \in Steps, MaxConc[s] > 0
      PROVE  Holding(s)' = Holding(s)
  BY <1>1, HoldingType DEF Holding, Slots
<1> QED BY <1>1 DEF PermitsHeld

LEMMA CancelPermits ==
  ASSUME TypeInv, PermitsHeld, CancelRunners
  PROVE  PermitsHeld'
<1>1. ASSUME NEW s \in Steps, MaxConc[s] > 0
      PROVE  permits'[s] + Cardinality(Holding(s)') = MaxConc[s]
  <2> DEFINE begun == {i \in Live(s) : worker[s][i].pc # "created"}
  <2>1. \A i \in Slots(s) :
          worker'[s][i] = IF runner[s] = "joining" /\ i \in Live(s)
                          THEN Stricken(worker[s][i]) ELSE worker[s][i]
    BY DEF CancelRunners
  <2>2. permits'[s] = IF runner[s] = "joining" THEN permits[s] + Cardinality(begun)
                      ELSE permits[s]
    BY <1>1 DEF CancelRunners, PermitsReleased
  <2>3. /\ permits[s] + Cardinality(Holding(s)) = MaxConc[s] /\ permits[s] \in Nat
        /\ IsFiniteSet(Holding(s)) /\ Cardinality(Holding(s)) \in Nat /\ MaxConc[s] \in Nat
    BY <1>1, HoldingType DEF PermitsHeld, TypeInv, TypeOK
  <2>4. CASE runner[s] = "joining"
    <3>1. \A i \in Slots(s) :
            worker'[s][i].pc = IF worker[s][i].pc \in {"idle", "over", "dropped"}
                               THEN worker[s][i].pc
                               ELSE IF worker[s][i].pc = "created" THEN "dropped" ELSE "over"
      BY <2>1, <2>4, StrickenType DEF Live
    <3>2. Holding(s)' = Holding(s) \ begun
      BY <3>1 DEF Holding, Live, Slots
    <3>3. Holding(s) \cap begun = begun
      BY DEF Holding, Live
    <3> HIDE DEF begun
    <3>4. Cardinality(Holding(s) \ begun)
            = Cardinality(Holding(s)) - Cardinality(Holding(s) \cap begun)
      BY <2>3, FS_Difference
    <3>5. Cardinality(begun) \in Nat
      BY <1>1, BegunType DEF begun
    <3>6. permits'[s] = permits[s] + Cardinality(begun)
      BY <2>2, <2>4
    <3>7. Cardinality(Holding(s)') = Cardinality(Holding(s)) - Cardinality(begun)
      BY <3>2, <3>3, <3>4
    <3> QED BY <2>3, <3>5, <3>6, <3>7
  <2>5. CASE runner[s] # "joining"
    <3>1. Holding(s)' = Holding(s)
      BY <2>1, <2>5 DEF Holding, Slots
    <3> QED BY <2>2, <2>3, <2>5, <3>1
  <2> QED BY <2>4, <2>5
<1> QED BY <1>1 DEF PermitsHeld

LEMMA InitPermits == Init => PermitsHeld
<1> SUFFICES ASSUME Init, NEW s \in Steps, MaxConc[s] > 0
             PROVE  permits[s] + Cardinality(Holding(s)) = MaxConc[s]
  BY DEF PermitsHeld
<1>1. Holding(s) = {}
  BY DEF Init, Holding, Idle, At
<1>2. permits[s] = MaxConc[s] /\ MaxConc[s] \in Nat
  BY HoldingType DEF Init
<1> QED BY <1>1, <1>2, FS_EmptySet

LEMMA RunnerPermits ==
  ASSUME DeliveryInv, PermitsHeld, NEW s \in Steps, RunnerStep(s)
  PROVE  PermitsHeld'
<1>1. TypeInv /\ TypeOK
  BY DEF DeliveryInv, TypeInv
<1>2. CASE Start(s)
  <2>1. permits' = permits
    BY <1>2 DEF Start
  <2>2. worker' = [worker EXCEPT ![s] = IF IsMerge(s) THEN [i \in Slots(s) |-> Taking] ELSE @]
    BY <1>2 DEF Start
  <2>3. \A t \in Steps : ~IsMerge(t) => worker'[t] = worker[t]
    BY <1>1, <2>2 DEF TypeOK
  <2> QED BY <2>1, <2>3, SamePermits
<1>3. CASE Join(s) \/ PutDone(s)
  <2>1. UNCHANGED <<permits, worker>>
    BY <1>3 DEF Join, PutDone
  <2> QED BY <2>1, SamePermits
<1>4. ASSUME ~IsMerge(s), NEW u \in Upstream[s], Take(s, u) PROVE PermitsHeld'
  <2> DEFINE n == Head(queue[<<u, s>>])
  <2>1. /\ queue[<<u, s>>] # <<>>
        /\ queue' = [queue EXCEPT ![<<u, s>>] = Tail(queue[<<u, s>>])]
        /\ \/ UNCHANGED <<worker, permits>>
           \/ n # DONE /\ Spawn(s, u, n)
    BY <1>4 DEF Take
  <2>2. CASE UNCHANGED <<worker, permits>>
    BY <2>2, SamePermits
  <2>3. CASE n # DONE /\ Spawn(s, u, n)
    <3>1. EdgeOK(u, s)
      BY DEF DeliveryInv
    <3>2. InQueue(u, s, n)
      BY <1>1, <2>1, <3>1, TakeEffect DEF EdgeOK, Distinct, InQueue
    <3>3. n \in Ordinals
      BY <1>1, <2>1, <2>3, EdgeType, TakeFromQueue
    <3>4. n <= Produced(u) /\ worker[s][n].pc = "idle"
      BY <1>1, <1>4, <3>1, <3>2, <3>3, ProducedType DEF EdgeOK, Taken
    <3>5. Created(KeyOf(u, n)) \in Worker
      BY <1>1, <3>3, <3>4, EdgeType, KeyType, WorkerType
    <3> HIDE DEF n
    <3> QED BY <1>1, <1>4, <2>3, <3>3, <3>4, <3>5, SpawnPermits
  <2> QED BY <2>1, <2>2, <2>3
<1>5. ASSUME ~IsMerge(s), NEW u \in Upstream[s], Acquire(s, u) PROVE PermitsHeld'
  <2> DEFINE n == held[s]
  <2>1. runner[s] = "acquiring" /\ Spawn(s, u, n) /\ StepOK(s)
    BY <1>5 DEF Acquire, DeliveryInv
  <2>2. n \in {DONE} \cup Ordinals /\ n # DONE /\ n <= Produced(u)
    BY <1>1, <2>1 DEF TypeInv, TypeOK, Travelling
  <2>3. worker[s][n].pc = "idle"
    BY <2>1, <2>2 DEF StepOK
  <2>4. Created(KeyOf(u, n)) \in Worker
    BY <1>1, <2>2, EdgeType, KeyType, WorkerType
  <2> HIDE DEF n
  <2> QED BY <1>1, <1>5, <2>1, <2>2, <2>3, <2>4, SpawnPermits
<1> QED BY <1>2, <1>3, <1>4, <1>5 DEF RunnerStep

LEMMA WorkerPermits ==
  ASSUME DeliveryInv, PermitsHeld, NEW s \in Steps, WorkerStep(s)
  PROVE  PermitsHeld'
<1>1. TypeInv /\ TypeOK
  BY DEF DeliveryInv, TypeInv
<1>2. ASSUME NEW i \in Slots(s),
             Begin(s, i) \/ Emit(s, i) \/ Put(s, i) \/ Return(s, i) \/ Raise(s, i)
      PROVE  PermitsHeld'
  <2> DEFINE w == worker[s][i]
  <2>1. w \in Worker /\ w.pc \in {"created", "running", "putting"}
    BY <1>1, <1>2 DEF TypeOK, Begin, Emit, Put, Return, Raise
  <2>2. PICK x : Advance(s, i, x) /\ x \in Worker /\ x.pc # "idle"
    <3>1. Delivered(s, w) \in Worker /\ Delivered(s, w).pc # "idle"
      BY <2>1, DeliveredType DEF Delivered, Over, Running, At
    <3>2. Returned(s) \in Worker /\ Returned(s).pc # "idle"
      BY WorkerType DEF Returned, Over, Taking, At
    <3>3. CASE Return(s, i) \/ Raise(s, i)
      BY <3>2, <3>3 DEF Return, Raise
    <3>4. CASE Begin(s, i)
      <4>1. w.key \in Keys
        BY <2>1 DEF Worker
      <4>2. Running(w.key) \in Worker /\ Running(w.key).pc # "idle"
        BY <4>1, WorkerType DEF Running, At
      <4> QED BY <3>4, <4>2 DEF Begin
    <3>5. CASE Emit(s, i)
      <4> DEFINE y == [pc |-> "putting", key |-> w.key, out |-> Len(output[s]) + 1,
                       pend |-> Downstream(s)]
      <4>1. Advance(s, i, IF Downstream(s) = {} THEN Delivered(s, w) ELSE y)
        BY <3>5 DEF Emit
      <4>2. Len(output[s]) + 1 \in Ordinals
        <5>1. Len(output[s]) \in Nat /\ Len(output[s]) < Yields[s]
          BY <1>1, <3>5 DEF Emit, TypeOK
        <5>2. Yields[s] \in 0 .. MaxItems
          BY LimitAssumption
        <5> QED BY <5>1, <5>2, LimitAssumption DEF Ordinals
      <4>3. w.key \in Keys /\ Downstream(s) \subseteq Steps
        BY <2>1 DEF Worker, Downstream
      <4>4. y \in Worker /\ y.pc # "idle"
        BY <4>2, <4>3 DEF Worker
      <4> HIDE DEF y
      <4> QED BY <3>1, <4>1, <4>4
    <3>6. CASE Put(s, i)
      <4>1. PICK d \in w.pend :
              Advance(s, i, IF Remaining(w, d) = {} THEN Delivered(s, w)
                            ELSE [w EXCEPT !.pend = Remaining(w, d)])
        BY <3>6 DEF Put
      <4> DEFINE y == [w EXCEPT !.pend = Remaining(w, d)]
      <4>2. Remaining(w, d) \subseteq w.pend /\ w.pc # "idle"
        BY <2>1 DEF Remaining
      <4> HIDE DEF w
      <4>3. y \in Worker /\ y.pc # "idle"
        BY <2>1, <4>2 DEF Worker
      <4> HIDE DEF y
      <4> QED BY <3>1, <4>1, <4>3 DEF w, y
    <3> QED BY <1>2, <3>3, <3>4, <3>5, <3>6
  <2> QED BY <1>1, <2>1, <2>2, AdvancePermits
<1>3. ASSUME IsMerge(s), NEW u \in Upstream[s],
             MergeTake(s, u) \/ MergeTakeDone(s, u) \/ MergeKeyRaise(s, u)
      PROVE  PermitsHeld'
  <2>1. permits' = permits
    BY <1>3 DEF MergeTake, MergeTakeDone, MergeKeyRaise
  <2>2. \/ worker' = worker
        \/ \E w : worker' = [worker EXCEPT ![s] = [worker[s] EXCEPT ![u] = w]]
    BY <1>3 DEF MergeTake, MergeTakeDone, MergeKeyRaise
  <2>3. \A t \in Steps : ~IsMerge(t) => worker'[t] = worker[t]
    BY <1>1, <1>3, <2>2 DEF TypeOK
  <2> QED BY <2>1, <2>3, SamePermits
<1> QED BY <1>2, <1>3 DEF WorkerStep

LEMMA NextHeld ==
  DeliveryInv /\ PermitsHeld /\ [Next]_vars => PermitsHeld'
<1> SUFFICES ASSUME DeliveryInv, PermitsHeld, [Next]_vars PROVE PermitsHeld'
  OBVIOUS
<1>1. CASE Close \/ CancelAgain
  BY <1>1, CancelPermits DEF Close, CancelAgain, DeliveryInv
<1>2. CASE FinishPipeline \/ FinishClose \/ UNCHANGED vars
  <2>1. UNCHANGED <<permits, worker>>
    BY <1>2 DEF FinishPipeline, FinishClose, vars
  <2> QED BY <2>1, SamePermits
<1> QED BY <1>1, <1>2, RunnerPermits, WorkerPermits DEF Next, LoopStep, Stopped

-----------------------------------------------------------------------------
(* Only an invocation whose runner is past its loop is dropped. *)

LEMMA InitUnbegun == Init => UnbegunSafe
BY DEF Init, UnbegunSafe, Unbegun, Idle, At

(* A runner that left its loop does not come back to it. *)
LEMMA LoopLeft ==
  ASSUME TypeInv, [Next]_vars, NEW s \in Steps, runner[s] \notin InLoop
  PROVE  runner'[s] \notin InLoop
<1>1. runner \in [Steps -> {"created", "receiving", "acquiring", "joining", "closing"}
                            \cup Ended]
  BY DEF TypeInv, TypeOK
<1>2. ASSUME NEW t \in Steps, RunnerStep(t) PROVE runner'[s] \notin InLoop
  BY <1>1, <1>2 DEF RunnerStep, Start, Join, PutDone, Take, Acquire, AwaitPermit,
                    BeginClosing, InLoop
<1>3. ASSUME NEW t \in Steps, WorkerStep(t) PROVE runner'[s] \notin InLoop
  BY <1>1, <1>3 DEF WorkerStep, Begin, Emit, Put, Return, Raise, MergeTake, MergeTakeDone,
                    MergeKeyRaise, BeginClosing, InLoop
<1>4. ASSUME Close \/ CancelAgain PROVE runner'[s] \notin InLoop
  BY <1>4 DEF Close, CancelAgain, CancelRunners, AfterCancel, InLoop
<1>5. ASSUME FinishPipeline \/ FinishClose \/ UNCHANGED vars
      PROVE  runner'[s] \notin InLoop
  BY <1>5 DEF FinishPipeline, FinishClose, vars
<1> QED BY <1>2, <1>3, <1>4, <1>5 DEF Next, LoopStep, Stopped

LEMMA NotBy ==
  ASSUME TypeOK, NEW s \in Steps, NEW i \in Slots(s), NEW t \in Steps, NEW j, NEW w,
         worker' = [worker EXCEPT ![t][j] = w], w.pc # "dropped",
         worker'[s][i].pc = "dropped"
  PROVE  worker[s][i].pc = "dropped"
<1>1. worker = [r \in Steps |-> worker[r]] /\ worker[t] \in [Slots(t) -> Worker]
  BY DEF TypeOK
<1>2. worker'[s] = IF s = t THEN [worker[t] EXCEPT ![j] = w] ELSE worker[s]
  BY <1>1
<1> QED BY <1>1, <1>2

(* An invocation is dropped by a close, and only where its runner waits for *)
(* its invocations already.                                                 *)
LEMMA DroppedLate ==
  ASSUME DeliveryInv, [Next]_vars, NEW s \in Steps, NEW i \in Slots(s),
         worker'[s][i].pc = "dropped"
  PROVE  worker[s][i].pc = "dropped" \/ (runner[s] = "joining" /\ ~Open')
<1>1. TypeInv /\ TypeOK
  BY DEF DeliveryInv, TypeInv
<1>2. ASSUME NEW t \in Steps, RunnerStep(t) PROVE worker[s][i].pc = "dropped"
  <2>1. CASE Start(t)
    <3>1. worker'[s] = IF s = t /\ IsMerge(t) THEN [j \in Slots(t) |-> Taking] ELSE worker[s]
      BY <1>1, <2>1 DEF Start, TypeOK
    <3> QED BY <3>1 DEF Taking, At
  <2>2. CASE Join(t) \/ PutDone(t)
    BY <2>2 DEF Join, PutDone
  <2>3. CASE ~IsMerge(t) /\ \E u \in Upstream[t] : Take(t, u) \/ Acquire(t, u)
    <3>1. PICK u \in Upstream[t] : \/ \E n : Spawn(t, u, n)
                                 \/ worker' = worker
      BY <2>3 DEF Take, Acquire
    <3>2. CASE worker' = worker
      BY <3>2
    <3>3. ASSUME NEW n, Spawn(t, u, n) PROVE worker[s][i].pc = "dropped"
      <4> DEFINE w == Created(KeyOf(u, n))
      <4>1. w.pc # "dropped"
        BY DEF Created, At
      <4>2. worker' = [worker EXCEPT ![t][n] = w]
        BY <3>3 DEF Spawn
      <4> HIDE DEF w
      <4> QED BY <1>1, <4>1, <4>2, NotBy
    <3> QED BY <3>1, <3>2, <3>3
  <2> QED BY <1>2, <2>1, <2>2, <2>3 DEF RunnerStep
<1>3. ASSUME NEW t \in Steps, WorkerStep(t) PROVE worker[s][i].pc = "dropped"
  <2>1. \A j : Returned(t).pc # "dropped" /\ Delivered(t, worker[t][j]).pc # "dropped"
    BY DEF Returned, Delivered, Taking, Over, Running, At
  <2>2. PICK j, w : /\ w.pc # "dropped"
                    /\ worker' = [worker EXCEPT ![t][j] = w] \/ worker' = worker
    <3>1. ASSUME NEW j \in Slots(t),
                 Begin(t, j) \/ Emit(t, j) \/ Put(t, j) \/ Return(t, j) \/ Raise(t, j)
          PROVE  \E w : w.pc # "dropped" /\ worker' = [worker EXCEPT ![t][j] = w]
      <4>1. CASE Begin(t, j)
        BY <4>1 DEF Begin, Advance, Running, At
      <4>2. CASE Return(t, j) \/ Raise(t, j)
        BY <2>1, <4>2 DEF Return, Raise, Advance
      <4>3. CASE Emit(t, j)
        <5> DEFINE y == [pc |-> "putting", key |-> worker[t][j].key,
                         out |-> Len(output[t]) + 1, pend |-> Downstream(t)]
        <5>1. Advance(t, j, IF Downstream(t) = {} THEN Delivered(t, worker[t][j]) ELSE y)
          BY <4>3 DEF Emit
        <5>2. y.pc # "dropped"
          OBVIOUS
        <5> HIDE DEF y
        <5> QED BY <2>1, <5>1, <5>2 DEF Advance
      <4>4. CASE Put(t, j)
        <5>1. PICK d : Advance(t, j, IF Remaining(worker[t][j], d) = {}
                                     THEN Delivered(t, worker[t][j])
                                     ELSE [worker[t][j] EXCEPT
                                             !.pend = Remaining(worker[t][j], d)])
          BY <4>4 DEF Put
        <5> DEFINE y == [worker[t][j] EXCEPT !.pend = Remaining(worker[t][j], d)]
        <5>2. worker[t][j] \in Worker /\ worker[t][j].pc = "putting"
          BY <1>1, <4>4 DEF Put, TypeOK
        <5>3. y.pc # "dropped"
          BY <5>2 DEF Worker
        <5> HIDE DEF y
        <5> QED BY <2>1, <5>1, <5>3 DEF Advance, y
      <4> QED BY <3>1, <4>1, <4>2, <4>3, <4>4
    <3>2. ASSUME NEW u \in Upstream[t],
                 MergeTake(t, u) \/ MergeTakeDone(t, u) \/ MergeKeyRaise(t, u)
          PROVE  \E w : /\ w.pc # "dropped"
                        /\ worker' = [worker EXCEPT ![t][u] = w] \/ worker' = worker
      BY <3>2 DEF MergeTake, MergeTakeDone, MergeKeyRaise, Running, Over, At
    <3> QED BY <1>3, <3>1, <3>2 DEF WorkerStep
  <2> QED BY <1>1, <2>2, NotBy
<1>4. ASSUME Close \/ CancelAgain
      PROVE  worker[s][i].pc = "dropped" \/ (runner[s] = "joining" /\ ~Open')
  BY <1>4 DEF Close, CancelAgain, CancelRunners, Open
<1>5. ASSUME FinishPipeline \/ FinishClose \/ UNCHANGED vars
      PROVE  worker[s][i].pc = "dropped"
  BY <1>5 DEF FinishPipeline, FinishClose, vars
<1> QED BY <1>2, <1>3, <1>4, <1>5 DEF Next, LoopStep, Stopped

LEMMA NextUnbegun ==
  DeliveryInv /\ UnbegunSafe /\ [Next]_vars => UnbegunSafe'
<1> SUFFICES ASSUME DeliveryInv, UnbegunSafe, [Next]_vars, NEW s \in Steps,
                    NEW i \in Slots(s), worker'[s][i].pc = "dropped"
             PROVE  runner'[s] \notin InLoop
  BY DEF UnbegunSafe, Unbegun
<1>1. worker[s][i].pc = "dropped" \/ runner[s] = "joining"
  BY DroppedLate
<1>2. runner[s] \notin InLoop
  BY <1>1 DEF UnbegunSafe, Unbegun, InLoop
<1> QED BY <1>2, LoopLeft DEF DeliveryInv

LEMMA NextPermits ==
  DeliveryInv /\ PermitsInv /\ [Next]_vars => PermitsInv'
BY NextHeld, NextUnbegun DEF PermitsInv

LEMMA PermitsInvImplies == PermitsInv => PermitsConserved
<1>1. \A s \in Steps : Live(s) \cup Unbegun(s) = Holding(s)
  BY DEF Live, Unbegun, Holding
<1> QED BY <1>1 DEF PermitsInv, PermitsHeld, UnbegunSafe, InLoop, PermitsConserved

(* A step never has more invocations in flight than max_concurrency and     *)
(* gets the permit of every invocation that began back, whatever way it     *)
(* ends and whenever the consumer stops; the permits of those that were     *)
(* cancelled before they began are lost, but nobody waits for one any more. *)
(* It needs the delivery invariant: an item that reached a step twice would *)
(* take two permits and give one back.                                      *)
THEOREM PermitsSafe == Spec => []PermitsConserved
<1>1. Init => DeliveryInv /\ PermitsInv
  BY InitDelivery, InitPermits, InitUnbegun DEF PermitsInv
<1>2. DeliveryInv /\ PermitsInv /\ [Next]_vars => DeliveryInv' /\ PermitsInv'
  BY NextDelivery, NextPermits
<1>3. PermitsInv => PermitsConserved
  BY PermitsInvImplies
<1> QED BY <1>1, <1>2, <1>3, PTL DEF Spec
=============================================================================
