----------------------------- MODULE Scheduler -----------------------------
(***************************************************************************)
(* The executor of streamwright/scheduler.py: Scheduler.execute starts one *)
(* runner task per step of the DAG, joins the steps with bounded           *)
(* asyncio queues ended by a _DONE sentinel, and hands the events of the   *)
(* run to a consumer that may stop early.                                  *)
(*                                                                         *)
(* An output of a step is known by its ordinal among the step's outputs;   *)
(* its value is abstracted away and its key is output[step][ordinal].      *)
(* An action is what one asyncio task does between two points where it     *)
(* may be suspended; every queue put is an action of its own, also when    *)
(* the queue has room, which only adds interleavings.                      *)
(***************************************************************************)
EXTENDS Integers, Sequences, FiniteSets

CONSTANTS
  Steps,      \* the names of the registered StepSpecs
  Input,      \* the pseudo step that feeds the pipeline's input to the entries
  Kind,       \* Kind[s] is "single", "stream" or "merge"
  Upstream,   \* {Input} for an entry, {fan_out_from}, or the merge sources
  Pos,        \* the place of a step in the topological order
  MaxConc,    \* max_concurrency, 0 standing for None
  Strict,     \* the merges with merge_mode = "strict"
  CustomKey,  \* the merges given a merge_key function
  KeyRaises,  \* the merges whose merge_key function may raise
  MayFail,    \* the steps whose function may raise (retries exhausted)
  QueueMax,   \* DEFAULT_QUEUE_MAXSIZE
  Yields,     \* bound: how many outputs a step's function gives in one run
  MaxItems,   \* bound: the largest of them
  MaxCancels  \* bound: how often a closing consumer is cancelled once more

DONE == 0                       \* the _DONE sentinel; ordinals start at 1
Ordinals == 1 .. MaxItems
Keys == 0 .. MaxItems           \* positions, hence propagated keys, are smaller

ASSUME StepsAssumption == IsFiniteSet(Steps)

ASSUME TopologyAssumption ==
  /\ Input \notin Steps
  /\ Kind \in [Steps -> {"single", "stream", "merge"}]
  /\ Upstream \in [Steps -> SUBSET (Steps \cup {Input})]
  /\ Pos \in [Steps -> Nat]
  /\ \A s, t \in Steps : Pos[s] = Pos[t] => s = t
  /\ \A s \in Steps : \A u \in Upstream[s] : u # Input => Pos[u] < Pos[s]
  /\ \A s \in Steps : Kind[s] = "merge" => Input \notin Upstream[s]
  /\ \A s \in Steps : Kind[s] # "merge" => \E u \in Upstream[s] : Upstream[s] = {u}

ASSUME LimitAssumption ==
  /\ MaxConc \in [Steps -> Nat]
  /\ \A s \in Steps : Kind[s] = "merge" => MaxConc[s] = 0
  /\ QueueMax \in Nat /\ QueueMax >= 2    \* an entry queue is preloaded with two items
  /\ MaxItems \in Nat /\ MaxItems >= 1
  /\ Yields \in [Steps -> 0 .. MaxItems]
  /\ MaxCancels \in Nat

VARIABLES
  runner,     \* where each _StepRunner task is
  queue,      \* the content of the queue of each edge <<upstream, step>>
  held,       \* the item a runner holds while it waits for a permit, or DONE
  permits,    \* the value of the runner's semaphore
  worker,     \* the invocations of a step; for a merge, its consume_source tasks
  owed,       \* the downstream steps a closing runner still owes _DONE
  output,     \* the keys of the StepOutput events of each step, in order
  failed,     \* the steps that emitted StepFailed
  bucket,     \* the partial key-sets of a merge (`state`), DONE where absent
  arrived,    \* history: what each merge took from its sources
  fired,      \* history: the key-sets each merge invoked its function with
  reported,   \* the keys a strict merge reported as incomplete
  consumer,   \* the task that iterates over execute()
  cancels     \* how often that task was cancelled while closing

mergeVars == <<bucket, arrived, fired, reported>>
consumerVars == <<consumer, cancels>>
vars == <<runner, queue, held, permits, worker, owed, output, failed,
          mergeVars, consumerVars>>

-----------------------------------------------------------------------------
(* The topology: one queue per edge; a step's routes are served in Pos order. *)

Edges == {e \in (Steps \cup {Input}) \X Steps : e[1] \in Upstream[e[2]]}

Downstream(s) == {d \in Steps : s \in Upstream[d]}

First(routes, d) == d \in routes /\ \A e \in routes : Pos[d] <= Pos[e]

IsMerge(s) == Kind[s] = "merge"
IsEntry(s) == Upstream[s] = {Input}

(* An invocation is known by the ordinal of its input, a consume_source task *)
(* by the source it reads.                                                   *)
Slots(s) == IF IsMerge(s) THEN Upstream[s] ELSE Ordinals

KeyOf(u, n) == IF u = Input THEN 0 ELSE output[u][n]

(* An invocation that is not putting an output anywhere.                    *)
At(pc, k) == [pc |-> pc, key |-> k, out |-> DONE, pend |-> {}]
Idle == At("idle", 0)
Over == At("over", 0)
Taking == At("taking", 0)
Created(k) == At("created", k)  \* create_task() only schedules the first step
Running(k) == At("running", k)
Dropped == At("dropped", 0)     \* cancelled before that first step

Live(s) == {i \in Slots(s) : worker[s][i].pc \notin {"idle", "over", "dropped"}}

Ended == {"done", "cancelled"}  \* with its StepDone event, and without

Init ==
  /\ runner = [s \in Steps |-> "created"]
  /\ queue = [e \in Edges |-> IF e[1] = Input THEN <<1, DONE>> ELSE <<>>]
  /\ held = [s \in Steps |-> DONE]
  /\ permits = MaxConc
  /\ worker = [s \in Steps |-> [i \in Slots(s) |-> Idle]]
  /\ owed = [s \in Steps |-> {}]
  /\ output = [s \in Steps |-> <<>>]
  /\ failed = {}
  /\ bucket = [s \in Steps |-> [k \in Keys |-> [u \in Upstream[s] |-> DONE]]]
  /\ arrived = [s \in Steps |-> {}]
  /\ fired = [s \in Steps |-> {}]
  /\ reported = [s \in Steps |-> {}]
  /\ consumer = "reading"
  /\ cancels = 0

-----------------------------------------------------------------------------
(* The runner of a step.                                                   *)

(* A runner task takes its first step: StepStarted is emitted. A merge goes *)
(* straight to the gather of its consume_source tasks.                      *)
Start(s) ==
  /\ runner[s] = "created"
  /\ runner' = [runner EXCEPT ![s] = IF IsMerge(s) THEN "joining" ELSE "receiving"]
  /\ worker' = [worker EXCEPT ![s] =
                  IF IsMerge(s) THEN [i \in Slots(s) |-> Taking] ELSE @]
  /\ UNCHANGED <<queue, held, permits, owed, output, failed, mergeVars, consumerVars>>

(* create_task(self._invoke_with_release(value, key, sem)), with a permit   *)
(* taken when the step has a semaphore. The invocation has not begun.       *)
Spawn(s, u, n) ==
  /\ worker' = [worker EXCEPT ![s][n] = Created(KeyOf(u, n))]
  /\ permits' = [permits EXCEPT ![s] = IF MaxConc[s] > 0 THEN @ - 1 ELSE @]

\* Mutant: max_concurrency is ignored.
NoPermitIgnored(s) == FALSE

NoPermit(s) == MaxConc[s] > 0 /\ permits[s] = 0

\* Mutant: the item is dropped when no permit is free.
AwaitPermitLosingItem(s, n) ==
  /\ runner' = [runner EXCEPT ![s] = "receiving"]
  /\ held' = held

(* The runner holds the item n while it awaits sem.acquire().               *)
AwaitPermit(s, n) ==
  /\ runner' = [runner EXCEPT ![s] = "acquiring"]
  /\ held' = [held EXCEPT ![s] = n]

Take(s, u) ==
  LET q == queue[<<u, s>>] IN
  /\ runner[s] = "receiving" /\ q # <<>>
  /\ queue' = [queue EXCEPT ![<<u, s>>] = Tail(q)]
  /\ \/ /\ Head(q) = DONE
        /\ runner' = [runner EXCEPT ![s] = "joining"]
        /\ UNCHANGED <<held, worker, permits>>
     \/ /\ Head(q) # DONE /\ NoPermit(s)
        /\ AwaitPermit(s, Head(q))
        /\ UNCHANGED <<worker, permits>>
     \/ /\ Head(q) # DONE /\ ~NoPermit(s)
        /\ Spawn(s, u, Head(q))
        /\ UNCHANGED <<runner, held>>
  /\ UNCHANGED <<owed, output, failed, mergeVars, consumerVars>>

Acquire(s, u) ==
  /\ runner[s] = "acquiring" /\ permits[s] > 0
  /\ Spawn(s, u, held[s])
  /\ runner' = [runner EXCEPT ![s] = "receiving"]
  /\ held' = [held EXCEPT ![s] = DONE]
  /\ UNCHANGED <<queue, owed, output, failed, mergeVars, consumerVars>>

\* Mutant: only the first route gets _DONE.
BeginClosingOneRoute(s) ==
  /\ owed' = [owed EXCEPT ![s] = {d \in Downstream(s) : First(Downstream(s), d)}]
  /\ runner' = [runner EXCEPT ![s] = IF Downstream(s) = {} THEN "done" ELSE "closing"]

\* Mutant: no route gets _DONE.
BeginClosingSilently(s) ==
  /\ owed' = owed
  /\ runner' = [runner EXCEPT ![s] = "done"]

(* The `finally` of run(): _DONE goes to every route, then StepDone is      *)
(* emitted; with no route it is emitted at once.                            *)
BeginClosing(s) ==
  /\ owed' = [owed EXCEPT ![s] = Downstream(s)]
  /\ runner' = [runner EXCEPT ![s] = IF Downstream(s) = {} THEN "done" ELSE "closing"]

\* Mutant: the runner does not wait for its invocations.
DrainedIgnored(s) == TRUE

Drained(s) == Live(s) = {}

\* Mutant: `all` for `any` in the test for a missing source.
IncompleteIfWhole(m) == {k \in Keys : \A u \in Upstream[m] : bucket[m][k][u] # DONE}

Incomplete(m) == {k \in Keys : \E u \in Upstream[m] : bucket[m][k][u] # DONE}

(* Every invocation has ended. A strict merge reports its partial key-sets  *)
(* with one StepFailed; a lenient one drops them with a warning.            *)
Join(s) ==
  /\ runner[s] = "joining" /\ Drained(s)
  /\ IF s \in Strict /\ Incomplete(s) # {}
     THEN /\ reported' = [reported EXCEPT ![s] = Incomplete(s)]
          /\ failed' = failed \cup {s}
     ELSE UNCHANGED <<reported, failed>>
  /\ BeginClosing(s)
  /\ UNCHANGED <<queue, held, permits, worker, output, bucket, arrived, fired, consumerVars>>

PutDone(s) ==
  /\ runner[s] = "closing"
  /\ \E d \in owed[s] :
       /\ First(owed[s], d)
       /\ Len(queue[<<s, d>>]) < QueueMax
       /\ queue' = [queue EXCEPT ![<<s, d>>] = Append(@, DONE)]
       /\ owed' = [owed EXCEPT ![s] = @ \ {d}]
       /\ runner' = [runner EXCEPT ![s] = IF owed[s] = {d} THEN "done" ELSE @]
  /\ UNCHANGED <<held, permits, worker, output, failed, mergeVars, consumerVars>>

-----------------------------------------------------------------------------
(* The invocations of a step's function.                                   *)

\* Mutant: sem.release() is missing.
AdvanceKeepingPermit(s, i, w) ==
  /\ worker' = [worker EXCEPT ![s][i] = w]
  /\ permits' = permits

(* Replaces an invocation's state; one that is over releases its permit.    *)
Advance(s, i, w) ==
  /\ worker' = [worker EXCEPT ![s][i] = w]
  /\ permits' = [permits EXCEPT ![s] = IF MaxConc[s] > 0 /\ w.pc = "over" THEN @ + 1 ELSE @]

(* An invocation takes its first step: it enters the `try` whose `finally`  *)
(* releases the permit, and calls the step's function.                      *)
Begin(s, i) ==
  /\ worker[s][i].pc = "created"
  /\ Advance(s, i, Running(worker[s][i].key))
  /\ UNCHANGED <<runner, queue, held, owed, output, failed, mergeVars, consumerVars>>

(* Where an invocation goes when its function has nothing more to give: a   *)
(* merge consumer returns to its source's queue.                            *)
Returned(s) == IF IsMerge(s) THEN Taking ELSE Over

(* An output has reached every route: a SINGLE is over, an async generator  *)
(* is asked for its next item.                                              *)
Delivered(s, w) == IF Kind[s] = "single" THEN Over ELSE Running(w.key)

(* An entry STREAM numbers its outputs, every other step propagates the key *)
(* of the input. An entry is invoked once, so its position is Len(output).  *)
OutKey(s, w) == IF Kind[s] = "stream" /\ IsEntry(s) THEN Len(output[s]) ELSE w.key

(* The function produces an output: StepOutput is emitted, preceded by      *)
(* StepStreaming when it is the first of a STREAM (_streaming_emitted is    *)
(* output[s] # <<>>), and the puts on the output queues begin.              *)
Emit(s, i) ==
  LET w == worker[s][i] IN
  /\ w.pc = "running" /\ Len(output[s]) < Yields[s]
  /\ output' = [output EXCEPT ![s] = Append(@, OutKey(s, w))]
  /\ Advance(s, i, IF Downstream(s) = {} THEN Delivered(s, w)
                   ELSE [pc |-> "putting", key |-> w.key, out |-> Len(output[s]) + 1,
                         pend |-> Downstream(s)])
  /\ UNCHANGED <<runner, queue, held, owed, failed, mergeVars, consumerVars>>

\* Mutant: a route is not ticked off and is served again.
RemainingAll(w, d) == w.pend

Remaining(w, d) == w.pend \ {d}

(* One `await out_q.put(...)` completes; the queue has room.                *)
Put(s, i) ==
  LET w == worker[s][i] IN
  /\ w.pc = "putting"
  /\ \E d \in w.pend :
       /\ First(w.pend, d)
       /\ Len(queue[<<s, d>>]) < QueueMax
       /\ queue' = [queue EXCEPT ![<<s, d>>] = Append(@, w.out)]
       /\ Advance(s, i, IF Remaining(w, d) = {} THEN Delivered(s, w)
                        ELSE [w EXCEPT !.pend = Remaining(w, d)])
  /\ UNCHANGED <<runner, held, owed, output, failed, mergeVars, consumerVars>>

(* The async generator of a STREAM or MERGE is exhausted.                   *)
Return(s, i) ==
  /\ worker[s][i].pc = "running" /\ Kind[s] # "single"
  /\ Advance(s, i, Returned(s))
  /\ UNCHANGED <<runner, queue, held, owed, output, failed, mergeVars, consumerVars>>

(* The function raises, for a SINGLE after its retries: StepFailed.         *)
Raise(s, i) ==
  /\ worker[s][i].pc = "running" /\ s \in MayFail
  /\ failed' = failed \cup {s}
  /\ Advance(s, i, Returned(s))
  /\ UNCHANGED <<runner, queue, held, owed, output, mergeVars, consumerVars>>

-----------------------------------------------------------------------------
(* The consume_source tasks of a merge.                                    *)

MergeKeys(m, u, n) == IF m \in CustomKey THEN Keys ELSE {KeyOf(u, n)}

Absent(m) == [u \in Upstream[m] |-> DONE]

(* The buckets once value n of source u is stored under key k.              *)
Stored(m, u, n, k) == [bucket[m] EXCEPT ![k][u] = n]

\* Mutant: `del state[merge_key]` is missing.
Kept(m, b, k) == b

(* b once the key-set of k has fired, and whether it may fire.              *)
Cleared(m, b, k) == [b EXCEPT ![k] = Absent(m)]

\* Mutant: `any` for `all` in the test for a complete key-set.
CompleteIfAny(m, b, k) == \E v \in Upstream[m] : b[k][v] # DONE

Complete(m, b, k) == \A v \in Upstream[m] : b[k][v] # DONE

(* A source's value is stored under its key; the value that completes the   *)
(* key-set fires the merge function in the task that brought it.            *)
MergeTake(m, u) ==
  LET q == queue[<<u, m>>] IN
  /\ worker[m][u].pc = "taking" /\ q # <<>> /\ Head(q) # DONE
  /\ queue' = [queue EXCEPT ![<<u, m>>] = Tail(q)]
  /\ \E k \in MergeKeys(m, u, Head(q)) :
       LET b == Stored(m, u, Head(q), k) IN
       /\ arrived' = [arrived EXCEPT ![m] = @ \cup {[key |-> k, src |-> u, n |-> Head(q)]}]
       /\ IF Complete(m, b, k)
          THEN /\ bucket' = [bucket EXCEPT ![m] = Cleared(m, b, k)]
               /\ fired' = [fired EXCEPT ![m] = @ \cup {[key |-> k, vals |-> b[k]]}]
               /\ worker' = [worker EXCEPT ![m][u] = Running(k)]
          ELSE /\ bucket' = [bucket EXCEPT ![m] = b]
               /\ UNCHANGED <<fired, worker>>
  /\ UNCHANGED <<runner, held, permits, owed, output, failed, reported, consumerVars>>

MergeTakeDone(m, u) ==
  LET q == queue[<<u, m>>] IN
  /\ worker[m][u].pc = "taking" /\ q # <<>> /\ Head(q) = DONE
  /\ queue' = [queue EXCEPT ![<<u, m>>] = Tail(q)]
  /\ worker' = [worker EXCEPT ![m][u] = Over]
  /\ UNCHANGED <<runner, held, permits, owed, output, failed, mergeVars, consumerVars>>

\* Mutant: every raising consume_source closes the routes again.
MergeKeyRaiseEach(m, u) ==
  LET q == queue[<<u, m>>] IN
  /\ worker[m][u].pc = "taking" /\ q # <<>> /\ Head(q) # DONE /\ m \in KeyRaises
  /\ queue' = [queue EXCEPT ![<<u, m>>] = Tail(q)]
  /\ worker' = [worker EXCEPT ![m][u] = Over]
  /\ BeginClosing(m)
  /\ UNCHANGED <<held, permits, output, failed, mergeVars, consumerVars>>

(* merge_key raises. gather propagates the first exception at once and      *)
(* leaves the other consume_source tasks running; nothing emits StepFailed. *)
MergeKeyRaise(m, u) ==
  LET q == queue[<<u, m>>] IN
  /\ worker[m][u].pc = "taking" /\ q # <<>> /\ Head(q) # DONE /\ m \in KeyRaises
  /\ queue' = [queue EXCEPT ![<<u, m>>] = Tail(q)]
  /\ worker' = [worker EXCEPT ![m][u] = Over]
  /\ IF runner[m] = "joining" THEN BeginClosing(m) ELSE UNCHANGED <<runner, owed>>
  /\ UNCHANGED <<held, permits, output, failed, mergeVars, consumerVars>>

-----------------------------------------------------------------------------
(* The consumer of execute() and the watcher.                              *)

\* Mutant: the watcher waits for the first runner only.
AnyEnded == \E s \in Steps : runner[s] \in Ended

AllEnded == \A s \in Steps : runner[s] \in Ended

(* The watcher's gather ends, and the consumer reads the last event.        *)
FinishPipeline ==
  /\ consumer = "reading" /\ AllEnded
  /\ consumer' = "complete"
  /\ UNCHANGED <<runner, queue, held, permits, worker, owed, output, failed,
                 mergeVars, cancels>>

\* Mutant: a runner that waits for an item is not cancelled.
AfterCancelUnlessIdle(s) ==
  CASE runner[s] = "acquiring" -> "joining"
    [] runner[s] = "joining" /\ IsMerge(s) ->
         IF Downstream(s) = {} THEN "done" ELSE "closing"
    [] runner[s] = "closing" -> "cancelled"
    [] OTHER -> runner[s]

(* Where r.cancel() takes a runner. One that waits for an item or a permit  *)
(* leaves its loop and waits for the invocations in flight; one that waits  *)
(* for them already passes the cancellation on to them; one that waits for  *)
(* room to put _DONE gives up and ends without StepDone.                    *)
AfterCancel(s) ==
  CASE runner[s] \in {"receiving", "acquiring"} -> "joining"
    [] runner[s] = "joining" /\ IsMerge(s) ->
         IF Downstream(s) = {} THEN "done" ELSE "closing"
    [] runner[s] = "closing" -> "cancelled"
    [] OTHER -> runner[s]

\* Mutant: a cancelled invocation keeps its permit.
PermitsLost(s) == permits[s]

(* The permits once the invocations a joining runner waits for have been    *)
(* cancelled: each that has begun releases its own, one that has not never  *)
(* enters the `try` and keeps it for good.                                  *)
PermitsReleased(s) ==
  IF runner[s] = "joining" /\ MaxConc[s] > 0
  THEN permits[s] + Cardinality({i \in Live(s) : worker[s][i].pc # "created"})
  ELSE permits[s]

(* What an invocation is once it has been cancelled.                        *)
Stricken(w) == IF w.pc = "created" THEN Dropped ELSE Over

(* r.cancel() for every runner.                                             *)
CancelRunners ==
  /\ runner' = [s \in Steps |-> AfterCancel(s)]
  /\ owed' = [s \in Steps |->
       IF runner[s] = "joining" /\ IsMerge(s) THEN Downstream(s) ELSE {}]
  /\ held' = [s \in Steps |-> DONE]
  /\ worker' = [s \in Steps |-> [i \in Slots(s) |->
       IF runner[s] = "joining" /\ i \in Live(s) THEN Stricken(worker[s][i])
       ELSE worker[s][i]]]
  /\ permits' = [s \in Steps |-> PermitsReleased(s)]
  /\ UNCHANGED <<queue, output, failed, mergeVars>>

(* The consumer stops iterating (aclose(), or its task is cancelled): the   *)
(* `finally` of execute() cancels the runners and waits for them. Every     *)
(* runner took its first step before the consumer saw an event, and in that *)
(* step an entry's runner read both preloaded items without suspending.     *)
Close ==
  /\ consumer = "reading"
  /\ \A s \in Steps : runner[s] # "created" /\ (IsEntry(s) => runner[s] # "receiving")
  /\ CancelRunners
  /\ consumer' = "closing"
  /\ UNCHANGED cancels

(* The task that waits in the `finally` is cancelled: its gather passes the *)
(* cancellation on to the runners, and suppress() swallows it.              *)
CancelAgain ==
  /\ consumer = "closing" /\ cancels < MaxCancels
  /\ CancelRunners
  /\ cancels' = cancels + 1
  /\ UNCHANGED consumer

FinishClose ==
  /\ consumer = "closing" /\ AllEnded
  /\ consumer' = "closed"
  /\ UNCHANGED <<runner, queue, held, permits, worker, owed, output, failed,
                 mergeVars, cancels>>

-----------------------------------------------------------------------------
RunnerStep(s) ==
  \/ Start(s)
  \/ Join(s)
  \/ PutDone(s)
  \/ ~IsMerge(s) /\ \E u \in Upstream[s] : Take(s, u) \/ Acquire(s, u)

WorkerStep(s) ==
  \/ \E i \in Slots(s) :
       Begin(s, i) \/ Emit(s, i) \/ Put(s, i) \/ Return(s, i) \/ Raise(s, i)
  \/ IsMerge(s) /\ \E u \in Upstream[s] :
       MergeTake(s, u) \/ MergeTakeDone(s, u) \/ MergeKeyRaise(s, u)

(* What the event loop runs as long as some task is ready.                  *)
LoopStep ==
  \/ \E s \in Steps : RunnerStep(s) \/ WorkerStep(s)
  \/ FinishPipeline
  \/ FinishClose

(* The run is over for its consumer.                                        *)
Stopped == consumer \in {"complete", "closed"} /\ UNCHANGED vars

Next == LoopStep \/ Close \/ CancelAgain \/ Stopped

(* A run nobody closes.                                                     *)
NextOpen == LoopStep \/ Stopped

Spec == Init /\ [][Next]_vars
OpenSpec == Init /\ [][NextOpen]_vars

(* The loop keeps running ready tasks, and the functions of the steps keep  *)
(* yielding, returning or raising.                                          *)
FairSpec == Spec /\ WF_vars(LoopStep)
FairOpenSpec == OpenSpec /\ WF_vars(LoopStep)
=============================================================================
