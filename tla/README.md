# streamwright in TLA+

Specifications of the core of streamwright (`streamwright/` of this repository),
model-checked with TLC on small instances and proved about with TLAPS. Line
numbers refer to the Python files under `streamwright/`; `PROJECT.json` maps each
definition to the lines it stands for.

## The system

A user declares steps on a `Pipeline`; `run(input)` sorts them and hands them to a
`Scheduler`, whose `execute()` is an async generator of events. Everything runs on
one asyncio loop: state changes hands only where a coroutine suspends.

| component | state | operations | what makes it correct |
|---|---|---|---|
| pipeline DAG (`pipeline.py`) | `_steps`, `_dag_order` | register a step, `run()` = validate, sort, cache | the order is topological and up to date; a cycle is reported iff there is one; the sort ends |
| scheduler (`scheduler.py`) | one runner task per step, a bounded queue per edge, a semaphore per capped step, invocation tasks, `state` of each merge | start, take, acquire, invoke, emit, put, fail, join, `_DONE`, merge, watch, close | every output reaches every route once; `_DONE` is last; permits come back; merges join exactly; the run ends with `PipelineDone`; a close takes nothing more in and ends |
| retries (`with_retries`) | attempt, last exception | call, classify, sleep, give up | only retryable errors are retried, with growing delays; the last error surfaces |
| provider registry (`providers/__init__.py`) | `_provider_instances`, the HTTP client of each | `get_provider`, `aclose` | a finished `aclose` closed what it found; only clients created meanwhile are lost |
| JSON array parser (`providers/_json_array.py`) | five flags and a buffer | `feed` one chunk | direct objects are yielded whole, once, as they close |
| SSE decoder (`providers/_sse.py`) | name and data lines of the open event | a line, the end of the lines | an event has its own data, whole, and no other's name |
| OpenAI, Anthropic, Moonshot adapters | tool state or open tool, input tokens; one request | `stream`: refuse, send, parse; `complete` | the reply arrives in order and attributed; `Done` tells whole from truncated; usage adds up; streaming and completing agree |
| provider interface (`providers/base.py`), capabilities, errors | the warnings that were logged | `stream_json_array`, lookups | the request carries the conversation; one warning per model |
| types, context | none to speak of | | not modelled |

How they interact: `Pipeline.run` gives `Scheduler` the steps in order (the constant
`Pos` of `Scheduler`); each runner calls step functions, a SINGLE's through
`with_retries`; step functions call providers they get from the registry and may
read a model's answer through `stream_json_array`; an adapter sends one request and feeds the
lines of the response to the SSE decoder, whose events its parser turns into stream events, each
of them a generator that runs when the next one asks. Queues are the only shared state
between the steps; the events go to the consumer through one unbounded queue.

What is hard here: the interleaving of runners, their invocations and the
`consume_source` tasks of a merge around bounded queues; the end-of-stream sentinel,
which is put by another task than the outputs; a failure of one task of several that
are gathered; closing the generator while everything is in flight; and, in the adapters, replies
that come in pieces the parser must put together, from connections that break off anywhere. The list, line
by line, is under "hazards" in `PROJECT.json`.

## Modules

```
JobStream            what a consumer sees of a run (abstract)
Scheduler            the executor
SchedulerProperties    its properties; Scheduler implements JobStream
SchedulerProofs        type correctness, delivery of outputs, permits, proved
EndProofs              merges, the end of the stream, closing, backpressure and the
                       refinement to JobStream, proved
Pipeline             registration and Kahn's sort
PipelineProofs         its invariants, proved
Retry                with_retries
RetryProofs            its invariants, proved
Registry             get_provider and aclose
RegistryProofs         its invariants, proved
JsonArray            JsonArrayBuffer
JsonArrayProofs        its correctness, proved
ReplyStream          what stream() of a provider promises (abstract)
SseDecoder           iter_sse_events
ProviderStream       a server, the decoder, the three parsers; implements ReplyStream
ProviderCall         complete, stream and stream_json_array over ProviderStream
ProviderProofs         the invariants of both, the refinement to ReplyStream, the agreement of
                       stream and complete, the requests and the warnings, proved
Induction            sets of naturals for the proofs: least and greatest elements,
                       their enumeration in order
MC*                  instances for TLC
```

### Scheduler

A step is a name; `Kind`, `Upstream`, `Pos`, `MaxConc`, `Strict`, `CustomKey`,
`MayFail`, `KeyRaises` describe the StepSpecs and what the user's functions may do.
`Input` is a pseudo step for the pipeline's input. An output is the ordinal it has
among the outputs of its step; its value is left out, its key is `output[s][n]`.

| variable | in the code |
|---|---|
| `runner[s]` | where `_StepRunner.run` is: `created`; `receiving` at `in_q.get()`; `acquiring` at `sem.acquire()`; `joining` at a gather; `closing` at `q.put(_DONE)`; `done` after StepDone; `cancelled` |
| `queue[<<u, d>>]` | the asyncio.Queue of an edge, 0 being `_DONE` |
| `held[s]` | the item of a runner that waits for a permit |
| `permits[s]` | the value of its semaphore |
| `worker[s][i]` | the invocation for input `i`, or the `consume_source` task of source `i`; `pend` are the routes an output has still to be put to; `created` and `dropped` are an invocation that has not begun, and one that was cancelled before it could |
| `owed[s]` | the routes that still get `_DONE` |
| `bucket`, `arrived`, `fired`, `reported` | `state` of a merge, and what it read, fired with and reported (the last three are history) |
| `consumer`, `cancels` | the task that iterates over `execute()` |

An action is the code between two suspensions: `Take` is `in_q.get()` up to the next `get` or the wait for a
permit, `Emit` the emission of StepOutput up to the first put, `Put` one completed put with what follows it,
`Join` the end of the gather with the strict-merge report. `Spawn` is `create_task`, which only schedules
the invocation; `Begin` is its first step, into the `try` that releases the permit and on to the step's
function. Between the two a close may come: where the runner is at `get` or `acquire` it only waits for the
invocation, which begins after the close; where the runner waits for it already it is cancelled before it
began (`Dropped`), its `finally` (`scheduler.py:291-295`) never runs, and its permit is gone
(`PermitsReleased`). A put into a queue with room does not suspend in asyncio; here every put is a step of
its own, which allows more interleavings and no fewer. `Close` happens at any event the consumer has read:
all runners have started by then, and entries have read both preloaded items. `AfterCancel` is where
`CancelledError` takes each runner; `CancelAgain` is a second cancellation while `execute()` waits in its
`finally`.

Abstracted: values; StepStreaming and Telemetry; `with_retries` (in `Retry`; an invocation raises when the
retries are used up); the logging of lenient merges; the event queue (events are state, and the consumer is
done when the last is read). Assumed: step functions do not swallow `CancelledError`, merge sources are
distinct, caps are not negative, queues hold at least two items, values of a SINGLE and yields of a
generator are bounded by `Yields`.

### JobStream and refinement

`JobStream` says what `execute()` promises without queues or tasks: steps start, produce,
may fail and end; an entry aside, nothing is produced before all sources produced; a
SINGLE never outputs more than it is given; a step of an open stream ends only after its
sources; PipelineDone is last, after every StepDone. `SchedulerProperties!Stream` maps
`runner` to phases and `output` to counts, and `ImplementsJobStream` is checked as a
property of two runs, one with a consumer that leaves.

### Pipeline, Retry, Registry, JsonArray

`Pipeline` has an action for a registration, for each outcome of `run()`, for a turn of
the sort's loop and for its end. `_build_dag` never awaits, so `sorting` excludes
everything else; the loop is split into turns for the invariant that says why it ends.

`Retry` is the coroutine `with_retries` at its two awaits, with the classification of errors by class,
status and flag, and times in half seconds with the jitter at either end. `thrown` is the error the caller
gets; a limit below one leads to the AssertionError (`asserted`), see the divergences below.

`Registry` has one action for `get_provider` creating an instance (it does not await) and
splits `aclose` at each await of a client that is open; a client that is closed already does
not suspend it. httpx is external: a client counts as closed as soon as its `aclose` is called.

`JsonArray` couples the parser with a writer of well-formed arrays of objects, with
preamble and trailing prose, one character class per step; pieces of text are the positions of
their characters. `TopLevelArrays` lets the writer put arrays directly into the array, which the
module's docstring calls out of scope. `json.loads` may raise, which ends the stream.

### SseDecoder, ProviderStream, ProviderCall

`SseDecoder` has an operator for each kind of line and keeps `eventType` and `dataParts`, the
locals of `iter_sse_events`. `ProviderStream` puts a server in front of it and `_parse_stream`
behind it. The server speaks the provider's protocol: a reply is a sequence of pieces (text,
reasoning, a fragment of a tool call) that it packs into frames; a frame is written, and read, line
by line: `event:`, `data:` (several of one frame), anything the decoder skips, a blank line.

| variable | in the code |
|---|---|
| `sent`, `phase`, `block`, `billed` | the server: the reply so far, where its protocol stands, the open content block, the tokens counted |
| `frame`, `named`, `part`, `cut` | the frame under way, how far it is written; the server or the connection failed |
| `eventType`, `dataParts` | locals of `iter_sse_events` |
| `toolState`; `current`, `inputTokens` | locals of `_parse_stream` of OpenAI and Moonshot; of Anthropic |
| `content`, `done`, `reported`, `status` | what the code that iterates was given; how the iteration ended |

The lines may end anywhere (`EndOfLines`: the decoder gives out what it has, `_sse.py:65`), the client
may raise anywhere (`TransportError`), the consumer may stop (`Abandon`), the server may report an
error within the stream (`ServerError`). `ReplyStream` leaves all of the wire out: the reply grows, the
consumer is given more of it, Done comes once with the whole, and an iteration that ends by itself
without Done was cut off. `ImplementsReply` instantiates it with `reply <- sent`.

`ProviderCall` makes calls one after the other: refusals in the order of the code, the body of a
request (`_build_body`, `_inject_system_instruction`), `_FORBIDDEN_WARNED`, the refusal of the server,
and `_parse_completion` as an operator on the reply the stream is compared with.

Abstracted: what a text says; the data of a piece other than the call it belongs to; headers, tools,
token limits; `id` and `name` of a call are the call itself. Assumed of the server: one choice; the
first fragment of a call carries id and name (`openai.py:304-306`), and no later one carries a null
or empty one, which would make `tool_state` forget it (`openai.py:378-381`); Anthropic's blocks do not
overlap; usage comes once on OpenAI, with the finish reason or in a chunk after it. A consumer stops
between two lines, not between two events of one frame; the generators are then closed at once. (When
`stream_json_array` itself is dropped half-way, nothing in `base.py:251-256` closes the inner stream, which
is left to the event loop's hooks for generators.)

## Runs

Every passing run also checks that there is no deadlock, except where a close may hang (`close`)
or the system simply stops (`registry`, `json_array`). `provider` never stops: there is always another call.

| run | what it shows | bounds, and why they are enough |
|---|---|---|
| `diamond` | a stream into a capped SINGLE and a STREAM, joined by a strict merge, never closed: `PermitsConserved`, `ExactlyOnce`, `EndOfStream`, `MergeAccounting`, `MergeJoins`, `AllDelivered`, `EventuallyComplete`, refinement | two outputs per step (one of the STREAM) and queues of two: a queue can be full, with `_DONE` waiting behind; two routes; one permit for two inputs; any keys; failures leave keys incomplete (133,521 states) |
| `close` | a consumer that may leave at any point and be cancelled once more: `PermitsConserved` and `ExactlyOnce` for what is in flight, `Backpressure`, `MergeJoins` by propagated keys, `CloseStopsIntake`, `CloseWaitsOnlyForRoom`, refinement | six outputs against a queue of two, one permit and one held item: the producer is held back with outputs left, and invocations are cancelled before they begin, after, and while they put (253,614 states) |
| `merge` | keys chosen by a `merge_key` that may raise: `MergeAccounting`, `SingleSentinel`, `EventuallyComplete` | two values against one, three keys, queues with room for everything: the run completes even then |
| `pipeline` | four names with entries, fan-out, diamond, self-reference, cycles of two to four, an unknown name: `OrderIsFresh`, `CycleIsReal`, `NoEntryMeansEmpty`, `LoopEnds` | every set of registrations in every order, with `run()` anywhere between |
| `retry` | limits from -1 to 4: `LastErrorSurfaces`, `RetriesAreEarned`, `BackoffGrows` | an error on each side of each boundary of `is_retryable_error` |
| `registry` | three `aclose()` calls: `ReturnedHasClosed`, `ClosedOnlyBecauseOfAclose`, `LeaksOnlyLate` | two providers, three instances of each: created, closed, created again during an `aclose()` |
| `json_array` | `InSync`, `YieldsObjects` | eleven characters: two objects with strings and escapes, or nesting four deep |
| `provider` | calls of the three adapters in any order: `DecoderInSync`, `ContentIsReply`, `DoneTellsWhole`, `UsageAddsUp`, `StreamAgreesWithComplete`, `RequestKeepsConversation`, `WarnedOnce`, and the refinement to `ReplyStream` | two tool calls and three pieces: calls alternate within a chunk and across chunks; two data lines: a frame can be cut in its middle; a known, an unknown and a non-streaming model; conversations without, with one and with several system messages |
| `close_hang`, `merge_crash`, `first_write`, `json_nested` | disagreements with the documentation, below | |

Bounds that are named: `Yields`/`MaxItems` (outputs per step), `MaxCancels`, `MaxCreated`, `MaxText`,
`MaxPieces`, `MaxLines`, `MaxTools`, and the values of `QueueMax`, which is 32 in the code: a queue matters
when it is full, and two or four items fill it.

Fairness: `WF_vars(LoopStep)`, that is, as long as some task can run, some task does. The
event loop guarantees that, provided that the step functions yield, return or raise. No
fairness towards a particular task is assumed, none is assumed of the consumer, and none
that a merge key differs. Liveness follows because the outputs are finite.

## Findings

- `close_hang`: closing the stream may never end. In the run the STREAM has filled the queue of the capped
  SINGLE. The SINGLE's runner, cancelled at `get` or `acquire`, leaves its loop and never reads again; the
  STREAM's runner, whose invocation was cancelled, goes on to its `finally` and waits for room for `_DONE`
  (`scheduler.py:177`) for ever, and the close waits for that runner. (Further up a DAG an invocation may
  wait in the same way: a runner cancelled at `get` or `acquire` waits for its invocations,
  `scheduler.py:281-283`, and does not cancel them.) `CloseWaitsOnlyForRoom` (checked by `close`) says that
  this is the only way.
- `merge_crash`: a `merge_key` that raises ends one `consume_source`, and nobody reads its source's queue
  any more. In the run two more outputs fill it, the invocation that gave them returns, and its runner waits for
  room for `_DONE` (`scheduler.py:177`) for ever. PipelineDone never comes, and no StepFailed tells why.
- `first_write`: `merge()` documents first-write-wins per source; the code overwrites.
- `json_nested`: arrays as direct elements are documented as skipped; their closing bracket
  ends the parser.

## Divergences no run shows

Places where the code and what is written beside it differ, and where the model follows the code. Each is in a
definition that passing runs check; none has a run of its own, which would repeat one branch.

- `scheduler.py:134`: the comment behind `assert last_exc is not None` says "loop body always assigns on the
  path that reaches here". With `step(retries=0)`, or a negative number, which nothing rejects, the loop
  body is never entered and the assertion fails: `Retry!GiveUp` ends in `asserted`, and StepFailed says
  AssertionError. The `retry` run covers the limits -1 and 0; `LastErrorSurfaces` says that these are the
  only ones, that is, that the AssertionError never takes the place of an error the function raised.
- `_sse.py:19-20`: `event` is "the empty string if the stream did not specify one". A blank line behind an
  `event:` line without data keeps the name (`_sse.py:44-49`), and the next event that specifies none
  inherits it. In `ProviderStream` a ping may come without data, so an unnamed frame may be given out as a
  ping; the last conjunct of `DecoderInSync` says that this is all that can happen, never a name a parser
  acts on.
- `types.py:77`: StepDone is "emitted when a step completes successfully". The `finally` of `run()` emits it for
  steps that failed too (`scheduler.py:178`); `AllDelivered` and `JobStream!Complete` count on that.

## Proofs

All for arbitrary constants, checked by TLAPS to the last leaf.

- `SchedulerProofs!TypeCorrect`: `Spec => []TypeOK` for every pipeline that meets
  `TopologyAssumption` and `LimitAssumption`. Typing is not inductive alone: the key of a
  taken item must exist, hence `Travelling`, which says that whatever is in a queue, held or
  being put has been produced, and that routes are downstream steps.
- `SchedulerProofs!OutputsDelivered`: `Spec => []ExactlyOnce` when no `merge_key` function raises
  (`KeyRaises = {}`, as in the runs that check it: an item whose key raises is lost, see the
  findings). `DeliveryInv` says per edge (`EdgeOK`) that a queue repeats nothing, `_DONE`
  included, that a queued output has not been taken and one being put is neither queued nor
  taken, that `_DONE` is in a queue only after its step stopped owing it, and that while nobody
  closes the stream every output is in one of the three places; and per step (`StepOK`) that
  different invocations put different outputs and that the item held for a permit has no
  invocation yet. Each part needs the others: a put keeps the queue free of repetitions because
  the output was in no other place, and a spawn starts an idle invocation because the item it
  takes was queued, hence not taken before. All but the last part of `EdgeOK` also holds when
  keys raise and the consumer closes.
- `SchedulerProofs!PermitsSafe`: `Spec => []PermitsConserved`, also when keys raise. Permits, live invocations
  and those dropped before they began add up to the cap, and an invocation is dropped only when its runner is
  past the loop that waits for a permit, on the way out of a close. It rests on
  `DeliveryInv`: an item delivered twice would take two permits for one invocation.
- `EndProofs!MergesAccounted`: `Spec => []MergeAccounting`, for every key function, raising or not.
  `BucketsOK` relates `bucket`, `arrived` and `fired`: what waits in a bucket has arrived under that
  key and waits nowhere else, and what has fired waits nowhere. The value a task reads is new to
  all three because `DeliveryInv` says that a queued output has not been taken.
- `EndProofs!EndIsLast`, `CompleteMeansDelivered`: `EndOfStream` and `AllDelivered` when no
  `merge_key` raises. `EndInv` follows `_DONE` through the DAG: `DoneLast`, nothing stands behind it
  in a queue; a step that has read it reads from an empty queue, and the step above it owes it
  nothing and is closing (`EdgeEnds`); a step that is closing has no live invocation (`StepEnds`), so
  nobody is left who could put anything behind it. The assumption is needed: after an exception
  in `merge_key` the merge sends `_DONE` while its other tasks still put outputs (`scheduler.py:214`).
- `EndProofs!DoneOnce`: `SingleSentinel` in every run nobody closes (`OpenSpec`), also when keys
  raise in several tasks. A raising merge that is being closed is left out: there the first
  exception and the cancellation both lead to the `finally` of `run()`.
- `EndProofs!ClosedTakesNothing`: the action property `CloseStopsIntake`. `StepEnds` says that while a
  consumer closes, every runner is behind its loop and every merge behind its gather, so no invocation is
  created and no merge reads; `StruckInv` says that from a second cancellation on no invocation is live. An
  invocation that was created before may begin after the first, which the property does not deny.
- `EndProofs!ExecutorImplementsStream`: `Spec => ImplementsJobStream`, step by step from `EndInv`,
  `AccountInv` and `AnswerInv` (a SINGLE has output at most one value for each invocation that began
  to put or is over; a merge that runs its function has fired). An output is a step of `JobStream` because every
  source has produced (`Fed`); an end is one because the sources have ended (`EdgeEnds`).
- `EndProofs!ProducersHeldBack`: `Backpressure`. From `ExactlyOnce` every output the capped step has
  not finished is pending, queued, in hand or in work; these are counted by `PendingCount`,
  `QueuesBounded` and `PermitsConserved`. Counting the invocations of a merge needs
  `StepsAssumption` (the steps of a pipeline are the keys of a dict, hence finitely many).
- `EndProofs!JoinsRight`: `MergeJoins`, for propagated keys and for those of any `merge_key` that does not
  raise. `JoinOK` says that a value that arrived waits in its bucket, has fired under its key, or was
  replaced by another of the same source and key (`Remembered`), and that a strict merge that ended by
  itself has reported what waits. When it has ended, everything its sources produced has arrived
  (`AllArrived`, from `EndInv`); when no source uses a key twice nothing was replaced, so a key of all
  sources, of which `BucketsOK` lets no complete set wait, has fired.
- `PipelineProofs!OrderCorrect`, `LoopBounded`: the invariant `SortInv` relates `inDegree`,
  `ready` and `ordered` (a degree is the number of dependencies not yet ordered; a step is
  ready or ordered iff its degree is zero; dependencies come first), from which the order is
  topological when the loop ends with every step, and the unordered rest depends on itself
  when it does not. `OrderGivesPos` connects the two parts: an order that `run()` returns
  discharges the assumption on `Pos` that `Scheduler` makes.
- `RetryProofs!RetriesCorrect`: `AtLoopHead` counts attempts, errors and delays at the head of the loop and
  says that `last_exc` is the last error from the first one on, hence `LastErrorSurfaces`. `BackoffCorrect`:
  `Growing` says that every delay lies between its base and twice its base, and the bases double. That
  `PowerOfTwo` is what its recursive definition says (`PowerOfTwoIs`) is proved with the least
  counterexample (`Induction!NatMin`).
- `RegistryProofs!RegistrySafe`: `ListInv` says that what a running `aclose()` read and has not
  closed is still on its list, for any number of them at once.
- `JsonArrayProofs!ParserCorrect`: for texts of any length. `StackOK` says that `objs` counts the
  open objects and that the second entry of the stack is an object; so depth 1 is a direct
  object, and `BufferOK` that the buffer is its text so far. Assumes that no array is a direct
  element (`~TopLevelArrays`), without which `json_nested` refutes it.

- `ProviderProofs!StreamsCorrect`, `StreamsImplementReply`: for any calls, usages, lengths of replies,
  frames and chunks. `StreamInv` follows a piece on its way. `Framing`: the decoder holds exactly the
  lines written of the frame under way, under its name; `FrameShape`: what a frame of each kind can
  contain. `Delivery`: the reply is what was given plus the pieces of that frame. The step in which a
  frame is read needs to know that the parser turns it into just these pieces, hence `ToolsKnown`
  (`tool_state` of a call that was told of is its id and name, and the frame tells of the others) and
  `BlockKnown` (the current tool is the one of the open block, across the frames that open and close
  it). `Ending` ties `done` to the phase of the server and `Billing` the reported usage to what was
  billed before the frame, with the input tokens that wait for the output. A line that ends in the
  middle of a frame reads as no JSON (`LoadedFrame`). From `StreamInv` every step is one of
  `ReplyStream` or changes nothing it sees.
- `ProviderProofs!CallsCorrect`, `CallsImplementReply`: every behaviour of `ProviderCall` is one of
  `ProviderStream`, so both hold in any sequence of calls. `WarnsOnce`: `CallInv` says that the request
  that waits has had its warning and that warnings and log agree.
- `ProviderProofs!AnswersAgree`: `Agreed` says that only the reply of Moonshot has reasoning pieces,
  that the bill of Anthropic has no reasoning tokens, and that the usage reported when a whole reply was
  read is its bill, field by field. `ConversationKept`: `Conversation` says that the prepared messages are
  the caller's in order and that the instruction is in at most the first system message. `Places`: of
  a sequence split in two, each element is in one part, and in the order it had. It rests on
  `Induction!Enumerated`, which counts the numbers of a finite set in order by their ranks.

The theorems about the end of the stream, deliveries and joins assume `KeyRaises = {}` because they are
false without it: `merge_crash` shows an item that is lost and a step that never ends. What still
holds then is proved without the assumption (`TypeCorrect`, `PermitsSafe`, `MergesAccounted`, `DoneOnce`).

Only model-checked: the liveness properties (`EventuallyComplete`, `CloseWaitsOnlyForRoom`), which are
beyond the prover, and the runs that refute a property, each on an instance of its own.

## Not modelled

`Context` (`emit`, `log`, `llm`) and the event types forward and hold data. `get_capabilities`, the prices and
limits in the capability tables, tools, headers and token limits in a request are data the package
passes on. Step functions, httpx, the providers' servers, `json.loads` and asyncio itself are external:
modelled by what they may do. `max_concurrency < 0`, duplicate merge sources and queues of size one are
outside the assumptions; what happens then is noted under "hazards" or above.

## Plan

1. Done: `Scheduler` with `JobStream`, `Pipeline`, `Retry`, `Registry`, `JsonArray`; `ProviderStream` over
   `SseDecoder` with `ReplyStream`, `ProviderCall`; a proof module for each.
2. Done: the safety properties of `Scheduler`, on top of `DeliveryInv`, and the refinement to `JobStream`.
3. Done: `StreamAgreesWithComplete` and `RequestKeepsConversation`, with facts about the selections
   proved by counting the positions that are kept.
4. `ProviderCall` and `JsonArray` composed: what `stream_json_array` yields of a reply that is cut off.
