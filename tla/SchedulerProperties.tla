------------------------ MODULE SchedulerProperties ------------------------
(***************************************************************************)
(* What the executor of streamwright/scheduler.py has to guarantee.        *)
(***************************************************************************)
EXTENDS Scheduler

Open == consumer \in {"reading", "complete"}    \* nobody closed the stream

(* Where output n of step u can be on its way to step d: with the           *)
(* invocation that still has to put it, in the queue, or with d.            *)
Pending(u, d) ==
  {worker[u][i].out : i \in {j \in Slots(u) :
                               worker[u][j].pc = "putting" /\ d \in worker[u][j].pend}}

Queued(u, d) == {queue[<<u, d>>][j] : j \in DOMAIN queue[<<u, d>>]} \ {DONE}

Received(u, d) ==
  IF IsMerge(d) THEN {a.n : a \in {b \in arrived[d] : b.src = u}}
  ELSE {n \in Ordinals : worker[d][n].pc # "idle"} \cup ({held[d]} \ {DONE})

(* d has read the _DONE of u.                                               *)
SawDone(u, d) ==
  IF IsMerge(d) THEN worker[d][u].pc = "over"
  ELSE runner[d] \in {"joining", "closing", "done"}

-----------------------------------------------------------------------------
(* Every variable has its type.                                             *)
Worker == [pc : {"idle", "taking", "created", "running", "putting", "over", "dropped"},
           key : Keys, out : {DONE} \cup Ordinals, pend : SUBSET Steps]

TypeOK ==
  /\ runner \in [Steps -> {"created", "receiving", "acquiring", "joining", "closing"}
                            \cup Ended]
  /\ queue \in [Edges -> Seq({DONE} \cup Ordinals)]
  /\ held \in [Steps -> {DONE} \cup Ordinals]
  /\ permits \in [Steps -> Nat]
  /\ worker = [s \in Steps |-> worker[s]]
  /\ \A s \in Steps : worker[s] \in [Slots(s) -> Worker]
  /\ owed \in [Steps -> SUBSET Steps]
  /\ output \in [Steps -> Seq(Keys)]
  /\ failed \subseteq Steps
  /\ bucket = [s \in Steps |-> bucket[s]]
  /\ \A s \in Steps : bucket[s] \in [Keys -> [Upstream[s] -> {DONE} \cup Ordinals]]
  /\ arrived = [s \in Steps |-> arrived[s]]
  /\ \A s \in Steps : arrived[s] \subseteq [key : Keys, src : Upstream[s], n : Ordinals]
  /\ fired = [s \in Steps |-> fired[s]]
  /\ \A s \in Steps : fired[s] \subseteq [key : Keys, vals : [Upstream[s] -> Ordinals]]
  /\ reported \in [Steps -> SUBSET Keys]
  /\ consumer \in {"reading", "complete", "closing", "closed"}
  /\ cancels \in 0 .. MaxCancels

(* The invocations that were cancelled before their first step.             *)
Unbegun(s) == {i \in Slots(s) : worker[s][i].pc = "dropped"}

(* A capped step never has more invocations in flight than max_concurrency. *)
(* Every invocation that began gives the permit its runner took back, in    *)
(* whatever way it ends; the permit of one that was cancelled before it     *)
(* began is lost, but then its runner is past the loop that waits for one.  *)
PermitsConserved ==
  \A s \in Steps : MaxConc[s] > 0 =>
    /\ permits[s] + Cardinality(Live(s) \cup Unbegun(s)) = MaxConc[s]
    /\ Unbegun(s) # {} => runner[s] \notin {"created", "receiving", "acquiring"}

(* No output is lost, duplicated or delivered twice on an edge: every       *)
(* StepOutput of u is in exactly one place on its way to d, also while d    *)
(* waits for a permit and while several invocations of u put at once.       *)
ExactlyOnce ==
  \A d \in Steps : \A u \in Upstream[d] \ {Input} :
    LET q == queue[<<u, d>>] IN
    /\ Pending(u, d) \cap (Queued(u, d) \cup Received(u, d)) = {}
    /\ Queued(u, d) \cap Received(u, d) = {}
    /\ \A j, k \in DOMAIN q : q[j] = q[k] => j = k
    /\ Open => Pending(u, d) \cup Queued(u, d) \cup Received(u, d) = 1 .. Len(output[u])

(* _DONE is the last item of an edge: when it is in a queue nothing follows *)
(* it and no invocation of the upstream step is left that could put more,   *)
(* and when the downstream step has read it the queue stays empty.          *)
EndOfStream ==
  Open => \A d \in Steps : \A u \in Upstream[d] \ {Input} :
    LET q == queue[<<u, d>>] IN
    /\ \A j \in DOMAIN q : q[j] = DONE => j = Len(q) /\ Live(u) = {}
    /\ SawDone(u, d) => q = <<>> /\ Live(u) = {}

(* A merge never sits on a complete key-set, and never uses a value twice:  *)
(* a key-set leaves `state` when it fires, although consume_source tasks of *)
(* all sources write to `state` and the firing one awaits its outputs.      *)
MergeAccounting ==
  \A m \in Steps : IsMerge(m) =>
    /\ \A k \in Keys : Upstream[m] # {} => \E u \in Upstream[m] : bucket[m][k][u] = DONE
    /\ \A f \in fired[m] : \A u \in Upstream[m] :
         /\ [key |-> f.key, src |-> u, n |-> f.vals[u]] \in arrived[m]
         /\ \A k \in Keys : bucket[m][k][u] # f.vals[u]
         /\ \A g \in fired[m] : g.vals[u] = f.vals[u] => g = f

(* A source's value is not given up for a later one: the value that fires   *)
(* under a key is the first the source gave for it that has not fired       *)
(* (pipeline.py, merge(): "First-write-wins per source: ... the first value *)
(* fires the merge once all other sources have caught up").                 *)
FirstWriteWins ==
  \A m \in Steps : \A f \in fired[m] : \A a \in arrived[m] :
    (a.key = f.key /\ a.n < f.vals[a.src]) =>
      \E g \in fired[m] : g.key = f.key /\ g.vals[a.src] = a.n

(* A step ends its routes once: no edge ever gets a second _DONE, also when *)
(* merge_key raises in several consume_source tasks of a merge, each of     *)
(* which could end the gather its run() waits in.                           *)
SingleSentinel ==
  \A d \in Steps : \A u \in Upstream[d] :
    LET q == queue[<<u, d>>]
        marks == {j \in DOMAIN q : q[j] = DONE}
    IN /\ Cardinality(marks) <= 1
       /\ ~IsMerge(d) /\ SawDone(u, d) => marks = {}

(* Every source gave each key to the merge at most once.                    *)
OneEach(m) == \A a, b \in arrived[m] : (a.src = b.src /\ a.key = b.key) => a = b

KeysFrom(m, u) == {a.key : a \in {b \in arrived[m] : b.src = u}}

(* The join is right, whatever keys merge_key computes: a merge that ended  *)
(* took every output of its sources, and, when no source gave a key twice,  *)
(* fired exactly once for each key all its sources gave, with the values    *)
(* they gave under it, while a strict merge reported exactly the keys only  *)
(* some of them gave. Without merge_key the key is the propagated one.      *)
MergeJoins ==
  \A m \in Steps :
    (IsMerge(m) /\ m \notin KeyRaises /\ Open /\ runner[m] \in {"closing", "done"})
    => LET some == UNION {KeysFrom(m, u) : u \in Upstream[m]}
           common == {k \in some : \A u \in Upstream[m] : k \in KeysFrom(m, u)}
       IN /\ \A u \in Upstream[m] : Received(u, m) = 1 .. Len(output[u])
          /\ m \notin CustomKey => \A a \in arrived[m] : a.key = output[a.src][a.n]
          /\ OneEach(m) =>
               /\ {f.key : f \in fired[m]} = common
               /\ Cardinality(fired[m]) = Cardinality(common)
               /\ \A f \in fired[m], u \in Upstream[m] :
                    [key |-> f.key, src |-> u, n |-> f.vals[u]] \in arrived[m]
               /\ m \in Strict => reported[m] = some \ common

(* A bounded queue holds its producer back: of the outputs of u, the capped *)
(* step d has at most max_concurrency in work and one in hand, the queue    *)
(* holds QueueMax, and each invocation of u waits with one more.            *)
Backpressure ==
  Open => \A d \in Steps : MaxConc[d] > 0 =>
    \A u \in Upstream[d] \ {Input} :
      Cardinality({n \in 1 .. Len(output[u]) : worker[d][n].pc # "over"})
        <= QueueMax + MaxConc[d] + 1 + Cardinality(Live(u))

(* After PipelineDone nothing is left anywhere: every step announced its    *)
(* end, every queue is empty, every output reached every step downstream    *)
(* and every invocation is over.                                            *)
AllDelivered ==
  consumer = "complete" =>
    /\ \A s \in Steps : runner[s] = "done" /\ Live(s) = {} /\ held[s] = DONE
    /\ \A e \in Edges :
         /\ queue[e] = <<>>
         /\ e[1] # Input => Received(e[1], e[2]) = 1 .. Len(output[e[1]])

(* Once the consumer has stopped iterating no step takes anything in: no    *)
(* invocation is created and no merge takes another item, however many      *)
(* items are left in the queues. What was created before goes on where its  *)
(* runner only waits for it, and may even begin after the close; from a     *)
(* second cancellation on no invocation takes another step.                 *)
CloseStopsIntake ==
  [][consumer = "closing" =>
       /\ \A s \in Steps :
            /\ arrived'[s] = arrived[s]
            /\ \A i \in Slots(s) : worker[s][i].pc = "idle" => worker'[s][i].pc = "idle"
       /\ cancels > 0 => worker' = worker]_vars

(* A run nobody closes ends with PipelineDone: no cycle of full queues,     *)
(* held items and permits blocks the runners (scheduler.py: "the final      *)
(* event is always a PipelineDone").                                        *)
EventuallyComplete == <>(consumer = "complete")

(* What can keep a close from ending: some step is still putting into a     *)
(* full queue that nobody reads any more.                                   *)
PutsForNobody ==
  \E d \in Steps : \E u \in Upstream[d] \ {Input} :
    /\ Len(queue[<<u, d>>]) = QueueMax
    /\ \/ runner[u] = "closing" /\ First(owed[u], d)
       \/ \E i \in Slots(u) : worker[u][i].pc = "putting" /\ First(worker[u][i].pend, d)
    /\ IF IsMerge(d) THEN worker[d][u].pc = "over"
       ELSE runner[d] \notin {"receiving", "acquiring"}

(* A close that never ends waits for room in the queue of a step that has   *)
(* stopped reading, and for nothing else: not for a permit, not for an      *)
(* invocation, not for another runner.                                      *)
CloseWaitsOnlyForRoom == <>[](consumer = "closing") => <>[]PutsForNobody

(* Closing the stream ends: the `finally` of execute() gets every runner to *)
(* end and returns (scheduler.py: "cancels everything cleanly if the        *)
(* consumer of execute() stops iterating before completion").               *)
CloseEnds == (consumer = "closing") ~> (consumer = "closed")

-----------------------------------------------------------------------------
(* The executor implements the event stream of JobStream: what it keeps is  *)
(* the following functions of the executor's state.                         *)
Sources == [s \in Steps |-> Upstream[s] \ {Input}]

Phase ==
  [s \in Steps |->
     CASE runner[s] = "created" -> "waiting"
       [] runner[s] \in {"receiving", "acquiring", "joining"} -> "producing"
       [] OTHER -> "ended"]

Outputs == [s \in Steps |-> Len(output[s])]

Announced == {s \in Steps : runner[s] = "done"}

StreamState ==
  CASE consumer = "reading" -> "open"
    [] consumer = "complete" -> "complete"
    [] OTHER -> "closed"

Stream == INSTANCE JobStream WITH
  phase <- Phase,
  outputs <- Outputs,
  announced <- Announced,
  stream <- StreamState

(* Every step of the executor is a step of the abstract event stream: a     *)
(* step outputs nothing after it began to close its routes and nothing from *)
(* nothing, ends only after its sources, and PipelineDone is last.          *)
ImplementsJobStream == Stream!Spec
=============================================================================
