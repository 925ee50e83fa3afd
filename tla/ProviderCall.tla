---------------------------- MODULE ProviderCall ----------------------------
(***************************************************************************)
(* The calls of a provider: complete(), stream() and stream_json_array()   *)
(* of streamwright/providers, from the arguments to the request that is    *)
(* sent, its refusal, and the stream of the answer (ProviderStream). One   *)
(* call after the other: what they share is _FORBIDDEN_WARNED, which is    *)
(* read and written without an await between.                              *)
(*                                                                         *)
(* A message is its role and its place among the caller's messages; a      *)
(* model is what its capabilities say of streaming and temperature.        *)
(***************************************************************************)
EXTENDS ProviderStream, FiniteSets

CONSTANTS
  Requests   \* the calls that are made, see RequestAssumption

(* The tables of capabilities.py.                                           *)
Models ==
  [anthropic |-> {"claude-opus-4-7", "claude-sonnet-4-6", "claude-haiku-4-5",
                  "claude-haiku-4-5-20251001"},
   openai    |-> {"gpt-5.5", "gpt-5.2", "gpt-5.5-pro"},
   moonshot  |-> {"kimi-k2.6", "kimi-k2.5"}]
Streams(model) == model # "gpt-5.5-pro"
ForbidsTemperature(model) == model \in Models.openai

Roles == {"system", "user", "assistant"}

ASSUME RequestAssumption ==
  \A r \in Requests :
    /\ r.op \in {"complete", "stream", "json"} /\ r.adapter \in Adapters
    /\ r.model \in STRING /\ r.roles \in Seq(Roles)
    /\ r.temperature \in BOOLEAN /\ r.cache \in BOOLEAN

VARIABLES
  request,  \* the call that waits for the server, or NoRequest
  body,     \* what it sent
  outcome,  \* how the last call ended, "streaming" while it is in ProviderStream
  warned,   \* _FORBIDDEN_WARNED
  logged    \* history: how often each model's dropped temperature was logged

callVars == <<request, body, outcome, warned, logged>>

NoRequest == [op |-> "none"]
NoBody == <<>>

CallInit ==
  /\ StreamInit
  /\ request = NoRequest /\ body = NoBody /\ outcome = "none"
  /\ warned = {} /\ logged = [m \in Models.openai |-> 0]

-----------------------------------------------------------------------------
(* The messages of a call, and the instruction stream_json_array adds.      *)

Given(r) == [k \in DOMAIN r.roles |-> [role |-> r.roles[k], nr |-> k, instructed |-> FALSE]]

(* The elements of s at the positions P, in their order.                    *)
Kept(s, P) ==
  [i \in 1 .. Cardinality(P) |-> s[CHOOSE p \in P : Cardinality({q \in P : q <= p}) = i]]

IsSystem(m) == m.role = "system"
IsTurn(m) == m.role # "system"

\* Mutant: the instruction goes to every system message.
InjectAll(ms) == [k \in DOMAIN ms |-> [ms[k] EXCEPT !.instructed = IsSystem(ms[k])]]

(* _inject_system_instruction: behind the first system message, or a new    *)
(* one in front.                                                            *)
Inject(ms) ==
  LET systems == {k \in DOMAIN ms : IsSystem(ms[k])}
      first == CHOOSE k \in systems : \A j \in systems : k <= j
  IN  IF systems = {} THEN <<[role |-> "system", nr |-> 0, instructed |-> TRUE]>> \o ms
                      ELSE [ms EXCEPT ![first].instructed = TRUE]

Prepared(r) == IF r.op = "json" THEN Inject(Given(r)) ELSE Given(r)

Drops(r) == r.adapter = "openai" /\ r.temperature /\ ForbidsTemperature(r.model)

(* _build_body. `cached` are the messages that the request declares to be   *)
(* cacheable: those prompt_cache_key is derived from, or the system blocks, *)
(* the last of which has cache_control.                                     *)
OpenAIBody(r) ==
  [system |-> <<>>, messages |-> Prepared(r),
   cached |-> IF r.cache THEN Prepared(r) ELSE <<>>,
   temperature |-> r.temperature /\ ~Drops(r)]

AnthropicBody(r) ==
  LET all == Prepared(r)
      systems == Kept(all, {k \in DOMAIN all : IsSystem(all[k])})
  IN  [system |-> systems, messages |-> Kept(all, {k \in DOMAIN all : IsTurn(all[k])}),
       cached |-> IF r.cache THEN systems ELSE <<>>,
       temperature |-> r.temperature]

Body(r) == IF r.adapter = "anthropic" THEN AnthropicBody(r) ELSE OpenAIBody(r)

-----------------------------------------------------------------------------
KnownModel(r) == r.model \in Models[r.adapter]
CanAnswer(r) == r.op = "complete" \/ Streams(r.model)
CanCache(r) == r.adapter = "moonshot" => ~r.cache

(* The error a call raises before it sends anything. Its order is that of   *)
(* the code: Moonshot refuses `cache` when it builds the body.              *)
Rejection(r) ==
  CASE ~KnownModel(r) -> "UnknownModelError"
    [] KnownModel(r) /\ ~CanAnswer(r) -> "CapabilityError"
    [] KnownModel(r) /\ CanAnswer(r) /\ ~CanCache(r) -> "NotImplementedError"
    [] OTHER -> "none"

MayCall == status = "idle" /\ request = NoRequest

Reject(r) ==
  /\ MayCall /\ Rejection(r) # "none"
  /\ outcome' = Rejection(r)
  /\ UNCHANGED <<streamVars, request, body, warned, logged>>

\* Mutant: the set of warnings given is not consulted.
WarnsAlways(r) == Drops(r)

(* _is_forbidden_with_warn logs once per model.                             *)
Warns(r) == Drops(r) /\ r.model \notin warned

Post(r) ==
  /\ MayCall /\ Rejection(r) = "none"
  /\ request' = r /\ body' = Body(r)
  /\ warned' = IF Warns(r) THEN warned \cup {r.model} ELSE warned
  /\ logged' = IF Warns(r) THEN [logged EXCEPT ![r.model] = @ + 1] ELSE logged
  /\ UNCHANGED <<streamVars, outcome>>

Answered(how) ==
  /\ request # NoRequest
  /\ request' = NoRequest /\ body' = NoBody /\ outcome' = how
  /\ UNCHANGED <<warned, logged>>

(* raise_for_status, or no answer at all.                                   *)
Refuse ==
  /\ \E error \in {"HTTPStatusError", "TransportError"} : Answered(error)
  /\ UNCHANGED streamVars

(* A refusal is a status or no answer; what does not decode raises as well. *)
Complete ==
  /\ request.op = "complete"
  /\ \E how \in {"completed", "JSONDecodeError"} : Answered(how)
  /\ UNCHANGED streamVars

BeginStream ==
  /\ request.op \in {"stream", "json"}
  /\ Open(request.adapter)
  /\ Answered("streaming")

CallNext ==
  \/ \E r \in Requests : Reject(r) \/ Post(r)
  \/ Refuse \/ Complete \/ BeginStream
  \/ (Server \/ Line \/ TransportError \/ Abandon \/ Leave) /\ UNCHANGED callVars

CallSpec == CallInit /\ [][CallNext]_<<streamVars, callVars>>

-----------------------------------------------------------------------------
(* A request carries the conversation: each of the caller's messages once,  *)
(* turns and system messages each in their order, for Anthropic the system  *)
(* messages apart; the instruction of stream_json_array once, in the first  *)
(* system message; and what is cached includes the instruction.             *)
RequestKeepsConversation ==
  request # NoRequest =>
    LET all == body.system \o body.messages
        Ordered(ms) == \A i, j \in DOMAIN ms : i < j => ms[i].nr < ms[j].nr
        instructed == {k \in DOMAIN all : all[k].instructed}
    IN  /\ {all[k].nr : k \in DOMAIN all} \ {0} = DOMAIN request.roles
        /\ \A k \in DOMAIN all : all[k].nr # 0 => all[k].role = request.roles[all[k].nr]
        /\ Ordered(body.system) /\ Ordered(body.messages)
        /\ request.adapter = "anthropic" =>
             \A k \in DOMAIN all : IsSystem(all[k]) <=> k \in DOMAIN body.system
        /\ IF request.op # "json" THEN instructed = {}
           ELSE \E k \in DOMAIN all :
                  /\ instructed = {k} /\ IsSystem(all[k])
                  /\ \A j \in 1 .. k - 1 : ~IsSystem(all[j])
                  /\ request.cache => \E i \in DOMAIN body.cached : body.cached[i] = all[k]

(* A parameter the model forbids is dropped with one warning per model, not *)
(* one per call and not none, however calls and their failures alternate.   *)
WarnedOnce ==
  /\ \A m \in Models.openai : logged[m] = IF m \in warned THEN 1 ELSE 0
  /\ request # NoRequest /\ request.temperature /\ ~body.temperature =>
       ForbidsTemperature(request.model) /\ logged[request.model] = 1

Only(s, kind) == Kept(s, {k \in DOMAIN s : s[k].kind = kind})

(* _parse_completion: what complete() returns for a reply.                  *)
OpenAICompletion(reply, u) ==
  [text |-> Only(reply, "text"), reasoning |-> <<>>, usage |-> SplitUsage(u)]

MoonshotCompletion(reply, u) ==
  [OpenAICompletion(reply, u) EXCEPT !.reasoning = Only(reply, "reasoning")]

AnthropicCompletion(reply, u) ==
  [text |-> Only(reply, "text"), reasoning |-> <<>>, usage |-> u]

\* Mutant: Moonshot's override of _parse_completion is missing.
CompletionWithoutOverride(a, reply, u) ==
  IF a = "anthropic" THEN AnthropicCompletion(reply, u) ELSE OpenAICompletion(reply, u)

Completion(a, reply, u) ==
  CASE a = "openai" -> OpenAICompletion(reply, u)
    [] a = "moonshot" -> MoonshotCompletion(reply, u)
    [] a = "anthropic" -> AnthropicCompletion(reply, u)

(* For the same reply stream() gives the same text, the same reasoning and  *)
(* the same usage as complete() returns, whatever frames it comes in.       *)
StreamAgreesWithComplete ==
  status = "returned" /\ ~cut =>
    Completion(adapter, sent, billed) =
      [text |-> Only(content, "text"), reasoning |-> Only(content, "reasoning"), usage |-> reported]
=============================================================================
