--------------------------- MODULE ProviderStream ---------------------------
(***************************************************************************)
(* _parse_stream of the OpenAI, Moonshot and Anthropic adapters, over the  *)
(* SSE decoder and against a server that speaks the provider's protocol    *)
(* until it fails or the connection is lost.                               *)
(*                                                                         *)
(* The reply of a model is a sequence of pieces: text, reasoning, and      *)
(* fragments of the input of a tool call. The server packs them into       *)
(* frames, a frame is written line by line, and each line is read as it is *)
(* written. A field of a fragment that the frame does not have is NoCall,  *)
(* and so is "" in the parser; no server sends an id or a name as null or  *)
(* "", which would make the OpenAI adapter forget it.                      *)
(***************************************************************************)
EXTENDS SseDecoder

CONSTANTS
  Calls,      \* the tool calls; a call is its own index, id and name
  NoCall,
  Usages,     \* the token counts a server may bill
  MaxPieces,  \* bound: the pieces of a reply
  MaxLines,   \* bound: the data lines of a frame
  MaxTools    \* bound: the tool fragments in one OpenAI chunk

Adapters == {"openai", "moonshot", "anthropic"}
Counts == [in : Nat, out : Nat, reasoning : Nat]
NoUsage == [in |-> 0, out |-> 0, reasoning |-> -1]

ASSUME StreamAssumption ==
  /\ NoCall \notin Calls
  /\ Usages \subseteq {u \in Counts : u.reasoning <= u.out}
  /\ MaxPieces \in Nat /\ MaxLines \in Nat /\ MaxTools \in Nat

Fragments == {f \in [index : Calls, id : Calls \cup {NoCall}, name : Calls \cup {NoCall}] :
                f.id \in {NoCall, f.index} /\ f.name \in {NoCall, f.index}}

(* A frame without content, and the fields the frames with content change.  *)
Plain == [type |-> "", payload |-> "json", lines |-> 1, reasoning |-> FALSE, text |-> FALSE,
          tools |-> <<>>, block |-> NoCall, finish |-> FALSE, usage |-> NoUsage]
Junk == [Plain EXCEPT !.payload = "junk"]
NoFrame == [Plain EXCEPT !.payload = "none"]

VARIABLES
  adapter,
  \* The server.
  sent,        \* the pieces of the reply, in the frames it has begun
  phase,       \* "opening", "open", "finished" or "closed"
  block,       \* Anthropic: the open content block, <<>>, <<NoCall>> for text, or <<call>>
  billed,      \* the token counts so far
  frame,       \* the frame being written
  named, part, \* its event line is written; how many of its data lines are
  cut,         \* the server failed, or the connection was lost
  \* The parser.
  toolState,   \* OpenAI: tool_state
  current,     \* Anthropic: current_tool_id and current_tool_name
  inputTokens, \* Anthropic: input_tokens
  \* The code that iterates.
  content,     \* the TextDelta, ReasoningDelta and ToolCallDelta it was given
  done,        \* how many Done
  reported,    \* the last UsageEvent
  status       \* where the iteration is

serverVars == <<sent, phase, block, billed>>
frameVars == <<frame, named, part>>
parserVars == <<toolState, current, inputTokens, content, done, reported>>
streamVars == <<adapter, serverVars, frameVars, cut, decoderVars, parserVars, status>>

Piece(kind, id, name) == [kind |-> kind, id |-> id, name |-> name]
If(b, kind) == IF b THEN <<Piece(kind, NoCall, NoCall)>> ELSE <<>>

(* The pieces in a frame.                                                   *)
Pieces(f) ==
  If(f.reasoning, "reasoning") \o If(f.text, "text")
    \o [k \in DOMAIN f.tools |-> Piece("tool", f.tools[k].index, f.tools[k].index)]

Started(c) == \E k \in DOMAIN sent : sent[k].id = c

Unknown == [id |-> NoCall, name |-> NoCall]

(* No frame is being written.                                               *)
Written == frame' = NoFrame /\ named' = FALSE /\ part' = 0

StreamInit ==
  /\ adapter \in Adapters
  /\ sent = <<>> /\ phase = "closed" /\ block = <<>> /\ billed = NoUsage
  /\ frame = NoFrame /\ named = FALSE /\ part = 0 /\ cut = FALSE
  /\ DecoderInit
  /\ toolState = [c \in Calls |-> Unknown] /\ current = Unknown /\ inputTokens = 0
  /\ content = <<>> /\ done = 0 /\ reported = NoUsage
  /\ status = "idle"

(* The server answered a request of adapter a; the iteration waits for the  *)
(* first line.                                                              *)
Open(a) ==
  /\ status = "idle" /\ status' = "streaming"
  /\ adapter' = a /\ phase' = IF a = "anthropic" THEN "opening" ELSE "open"
  /\ UNCHANGED <<sent, block, billed, frameVars, cut, decoderVars, parserVars>>

(* A stream that is over is forgotten: the next has new locals.             *)
Leave ==
  /\ status \in {"returned", "raised", "abandoned"} /\ status' = "idle"
  /\ sent' = <<>> /\ phase' = "closed" /\ block' = <<>> /\ billed' = NoUsage
  /\ Written /\ cut' = FALSE
  /\ eventType' = "" /\ dataParts' = <<>>
  /\ toolState' = [c \in Calls |-> Unknown] /\ current' = Unknown /\ inputTokens' = 0
  /\ content' = <<>> /\ done' = 0 /\ reported' = NoUsage
  /\ UNCHANGED adapter

-----------------------------------------------------------------------------
(* The server. It begins a frame when the one before is written.            *)

Begin(f) ==
  /\ status = "streaming" /\ frame = NoFrame /\ ~cut
  /\ Len(sent \o Pieces(f)) <= MaxPieces
  /\ sent' = sent \o Pieces(f)
  /\ \E l \in 1 .. MaxLines : frame' = [f EXCEPT !.lines = l]
  /\ UNCHANGED <<adapter, named, part, decoderVars, parserVars, status>>

(* "The first chunk for a given index carries the id and function name;     *)
(* later chunks repeat the index" (openai.py:304-306).                      *)
Introduced(tools) ==
  \A k \in DOMAIN tools :
    \/ tools[k].id = tools[k].index /\ tools[k].name = tools[k].index
    \/ Started(tools[k].index)
    \/ \E j \in 1 .. k - 1 : tools[j].index = tools[k].index

ToolLists == UNION {[1 .. n -> Fragments] : n \in 0 .. MaxTools}

(* OpenAI and Moonshot: pieces, the finish reason with the last of them,    *)
(* the usage with it or in a chunk of its own, and [DONE].                  *)
Chunk ==
  /\ adapter # "anthropic" /\ phase = "open" /\ frame = NoFrame
  /\ \E tools \in ToolLists, text, reasoning \in BOOLEAN :
       /\ Introduced(tools)
       /\ reasoning => adapter = "moonshot"
       /\ \E finish \in BOOLEAN, u \in Usages \cup {NoUsage} :
            /\ u # NoUsage => finish
            /\ Begin([Plain EXCEPT !.reasoning = reasoning, !.text = text, !.tools = tools,
                                  !.finish = finish, !.usage = u])
            /\ phase' = IF finish THEN "finished" ELSE phase
            /\ billed' = u
  /\ UNCHANGED <<block, cut>>

UsageChunk(u) ==
  /\ adapter # "anthropic" /\ phase = "finished" /\ billed = NoUsage
  /\ Begin([Plain EXCEPT !.usage = u])
  /\ billed' = u
  /\ UNCHANGED <<phase, block, cut>>

DoneMarker ==
  /\ adapter # "anthropic" /\ phase = "finished" /\ billed # NoUsage
  /\ Begin([Plain EXCEPT !.payload = "[DONE]"])
  /\ phase' = "closed"
  /\ UNCHANGED <<block, billed, cut>>

(* Anthropic: the message starts with the input tokens, content blocks open *)
(* and close one after the other, and the message ends with the output      *)
(* tokens and the stop reason.                                              *)
MessageStart(u) ==
  /\ adapter = "anthropic" /\ phase = "opening"
  /\ Begin([Plain EXCEPT !.type = "message_start", !.usage = u])
  /\ phase' = "open"
  /\ billed' = [u EXCEPT !.out = 0, !.reasoning = 0]
  /\ UNCHANGED <<block, cut>>

BlockStart(c) ==
  /\ adapter = "anthropic" /\ phase = "open" /\ block = <<>> /\ ~Started(c)
  /\ Begin([Plain EXCEPT !.type = "content_block_start", !.block = c])
  /\ block' = <<c>>
  /\ UNCHANGED <<phase, billed, cut>>

BlockDelta ==
  /\ adapter = "anthropic" /\ block # <<>>
  /\ \/ /\ block[1] = NoCall
        /\ Begin([Plain EXCEPT !.type = "content_block_delta", !.text = TRUE])
     \/ /\ block[1] # NoCall
        /\ Begin([Plain EXCEPT !.type = "content_block_delta",
                    !.tools = <<[index |-> block[1], id |-> NoCall, name |-> NoCall]>>])
  /\ UNCHANGED <<phase, block, billed, cut>>

BlockStop ==
  /\ adapter = "anthropic" /\ block # <<>>
  /\ Begin([Plain EXCEPT !.type = "content_block_stop"])
  /\ block' = <<>>
  /\ UNCHANGED <<phase, billed, cut>>

(* The output tokens are cumulative, and may be sent before the end.        *)
MessageDelta(u, finish) ==
  /\ adapter = "anthropic" /\ phase = "open" /\ block = <<>>
  /\ Begin([Plain EXCEPT !.type = "message_delta", !.finish = finish,
                         !.usage = [u EXCEPT !.in = 0, !.reasoning = 0]])
  /\ phase' = IF finish THEN "finished" ELSE phase
  /\ billed' = [billed EXCEPT !.out = u.out]
  /\ UNCHANGED <<block, cut>>

MessageStop ==
  /\ adapter = "anthropic" /\ phase = "finished"
  /\ Begin([Plain EXCEPT !.type = "message_stop"])
  /\ phase' = "closed"
  /\ UNCHANGED <<block, billed, cut>>

(* Frames that say nothing: a ping, JSON without choices, empty data or no  *)
(* JSON, an event line without data, a blank line.                          *)
KeepAlive ==
  /\ phase # "closed" /\ status = "streaming" /\ frame = NoFrame /\ ~cut
  /\ \E type \in {"", "ping"}, payload \in {"json", "junk"}, l \in 0 .. MaxLines :
       frame' = [Plain EXCEPT !.type = type, !.payload = payload, !.lines = l]
  /\ UNCHANGED <<adapter, serverVars, named, part, cut, decoderVars, parserVars, status>>

(* The server reports an error within the stream, and says no more.         *)
ServerError ==
  /\ phase # "closed"
  /\ Begin([Plain EXCEPT !.type = IF adapter = "anthropic" THEN "error" ELSE ""])
  /\ cut' = TRUE
  /\ UNCHANGED <<phase, block, billed>>

Server ==
  \/ Chunk
  \/ \E u \in Usages : UsageChunk(u) \/ MessageStart(u)
  \/ \E u \in Usages, finish \in BOOLEAN : MessageDelta(u, finish)
  \/ \E c \in Calls \cup {NoCall} : BlockStart(c)
  \/ DoneMarker \/ BlockDelta \/ BlockStop \/ MessageStop \/ KeepAlive \/ ServerError

-----------------------------------------------------------------------------
(* _parse_stream: an event with the name `eventType` and the data in        *)
(* `dataParts` is given out by the decoder.                                 *)

(* json.loads of the joined lines: part of a payload is no JSON.            *)
Loaded ==
  LET f == dataParts[1].of
  IN  IF dataParts = [k \in 1 .. f.lines |-> [of |-> f, part |-> k]] THEN f ELSE Junk

\* Mutant: what an earlier chunk said of the call is not kept.
StateAfterForgetful(c, tools, k) ==
  LET Said(field) == {j \in 1 .. k : tools[j].index = c /\ tools[j][field] # NoCall}
      Now(field) == IF Said(field) = {} THEN NoCall ELSE c
  IN  [id |-> Now("id"), name |-> Now("name")]

(* tool_state[c] after the fragments 1 .. k of a chunk: what was said last. *)
StateAfter(c, tools, k) ==
  LET Said(field) == {j \in 1 .. k : tools[j].index = c /\ tools[j][field] # NoCall}
      Last(S) == CHOOSE j \in S : \A i \in S : i <= j
      Now(field) == IF Said(field) = {} THEN toolState[c][field] ELSE tools[Last(Said(field))][field]
  IN  [id |-> Now("id"), name |-> Now("name")]

(* _emit_tool_call_deltas                                                   *)
ToolEvents(tools) ==
  [k \in DOMAIN tools |->
     LET state == StateAfter(tools[k].index, tools, k) IN Piece("tool", state.id, state.name)]

(* _events_from_delta                                                       *)
OpenAIEvents(f) == If(f.text, "text") \o ToolEvents(f.tools)

MoonshotEvents(f) == If(f.reasoning, "reasoning") \o If(f.text, "text") \o ToolEvents(f.tools)

EventsFromDelta(f) == IF adapter = "moonshot" THEN MoonshotEvents(f) ELSE OpenAIEvents(f)

\* Mutant: the hidden reasoning tokens are counted twice.
SplitUsageTwice(u) == u

(* _split_usage: completion_tokens is the sum of visible and reasoning.     *)
SplitUsage(u) ==
  [u EXCEPT !.out = IF u.out >= u.reasoning THEN u.out - u.reasoning ELSE 0]

OpenAIReads(f) ==
  /\ content' = content \o EventsFromDelta(f)
  /\ toolState' = [c \in Calls |-> StateAfter(c, f.tools, Len(f.tools))]
  /\ done' = IF f.finish THEN done + 1 ELSE done
  /\ reported' = IF f.usage # NoUsage THEN SplitUsage(f.usage) ELSE reported
  /\ UNCHANGED <<current, inputTokens>>

(* content_block_start: only a tool_use block changes the current tool.     *)
CurrentAfter(f) ==
  CASE eventType = "content_block_start" /\ f.block # NoCall -> [id |-> f.block, name |-> f.block]
    [] eventType = "content_block_stop" -> Unknown
    [] OTHER -> current

DeltaEvents(f) ==
  IF eventType # "content_block_delta" THEN <<>>
  ELSE If(f.text, "text") \o [k \in DOMAIN f.tools |-> Piece("tool", current.id, current.name)]

\* Mutant: every event behind the usage is taken for the end.
StopsAny(f) == eventType \in {"message_delta", "message_stop"}

Stops(f) == eventType = "message_delta" /\ f.finish

AnthropicReads(f) ==
  /\ inputTokens' = IF eventType = "message_start" THEN f.usage.in ELSE inputTokens
  /\ current' = CurrentAfter(f)
  /\ content' = content \o DeltaEvents(f)
  /\ reported' = IF eventType = "message_delta"
                 THEN [in |-> inputTokens, out |-> f.usage.out, reasoning |-> 0]
                 ELSE reported
  /\ done' = IF Stops(f) THEN done + 1 ELSE done
  /\ UNCHANGED toolState

Parse(f) ==
  IF f.payload # "json" THEN UNCHANGED parserVars
  ELSE IF adapter = "anthropic" THEN AnthropicReads(f) ELSE OpenAIReads(f)

\* Mutant: data that is no JSON ends the loop.
BreaksOnJunk(f) == adapter # "anthropic" /\ f.payload # "json"

(* The loop over the events of OpenAI ends at [DONE].                       *)
Breaks(f) == adapter # "anthropic" /\ f.payload = "[DONE]"

-----------------------------------------------------------------------------
(* The lines of the response.                                               *)

Writing == status = "streaming" /\ frame # NoFrame

EventLine ==
  /\ Writing /\ frame.type # "" /\ ~named
  /\ named' = TRUE
  /\ ReadEvent(frame.type)
  /\ UNCHANGED <<adapter, serverVars, frame, part, cut, parserVars, status>>

DataLine ==
  /\ Writing /\ part < frame.lines
  /\ part' = part + 1
  /\ ReadData([of |-> frame, part |-> part + 1])
  /\ UNCHANGED <<adapter, serverVars, frame, named, cut, parserVars, status>>

OtherLine ==
  /\ status = "streaming"
  /\ ReadOther
  /\ UNCHANGED <<adapter, serverVars, frameVars, cut, parserVars, status>>

BlankLine ==
  /\ Writing /\ part = frame.lines /\ (named \/ frame.type = "")
  /\ Written
  /\ \/ SkipBlank /\ UNCHANGED <<parserVars, status>>
     \/ /\ Dispatches
        /\ Forget
        /\ Parse(Loaded)
        /\ status' = IF Breaks(Loaded) THEN "returned" ELSE status
  /\ UNCHANGED <<adapter, serverVars, cut>>

(* The lines end, at the end of the reply or before: the open event is      *)
(* given out as it is.                                                      *)
EndOfLines ==
  /\ status = "streaming"
  /\ Written
  /\ IF Dispatches THEN Forget /\ Parse(Loaded) ELSE UNCHANGED <<decoderVars, parserVars>>
  /\ status' = "returned"
  /\ cut' = (cut \/ frame # NoFrame \/ phase # "closed")
  /\ UNCHANGED <<adapter, serverVars>>

(* The generators are closed, and the response with them.                   *)
Closed ==
  /\ status = "streaming"
  /\ Written /\ Forget
  /\ toolState' = [c \in Calls |-> Unknown] /\ current' = Unknown /\ inputTokens' = 0
  /\ UNCHANGED <<adapter, serverVars, content, done, reported>>

(* The client raises: a timeout, a reset, or the client was closed.         *)
TransportError == Closed /\ status' = "raised" /\ cut' = TRUE

(* The code that iterates stops.                                            *)
Abandon == Closed /\ status' = "abandoned" /\ UNCHANGED cut

Line == EventLine \/ DataLine \/ OtherLine \/ BlankLine \/ EndOfLines

StreamNext == (\E a \in Adapters : Open(a)) \/ Leave \/ Server \/ Line \/ TransportError \/ Abandon

StreamSpec == StreamInit /\ [][StreamNext]_streamVars

-----------------------------------------------------------------------------
PieceSet == [kind : {"text", "reasoning", "tool"}, id : Calls \cup {NoCall}, name : Calls \cup {NoCall}]
UsageSet == [in : Nat, out : Nat, reasoning : Nat \cup {-1}]
FrameTypes ==
  {"", "ping", "error", "message_start", "content_block_start", "content_block_delta",
   "content_block_stop", "message_delta", "message_stop"}
FrameSet ==
  [type : FrameTypes, payload : {"json", "junk", "[DONE]", "none"}, lines : Nat,
   reasoning : BOOLEAN, text : BOOLEAN, tools : Seq(Fragments),
   block : Calls \cup {NoCall}, finish : BOOLEAN, usage : UsageSet]

(* Every variable has its type.                                             *)
StreamTypeOK ==
  /\ adapter \in Adapters
  /\ sent \in Seq(PieceSet) /\ content \in Seq(PieceSet)
  /\ phase \in {"opening", "open", "finished", "closed"}
  /\ block \in Seq(Calls \cup {NoCall}) /\ Len(block) <= 1
  /\ billed \in UsageSet /\ reported \in UsageSet
  /\ frame \in FrameSet /\ named \in BOOLEAN /\ part \in Nat /\ cut \in BOOLEAN
  /\ eventType \in FrameTypes /\ dataParts \in Seq([of : FrameSet, part : Nat])
  /\ toolState \in [Calls -> [id : Calls \cup {NoCall}, name : Calls \cup {NoCall}]]
  /\ current \in [id : Calls \cup {NoCall}, name : Calls \cup {NoCall}]
  /\ inputTokens \in Nat /\ done \in Nat
  /\ status \in {"idle", "streaming", "returned", "raised", "abandoned"}

(* An event is given out with the data of its own frame, whole and in       *)
(* order, and under the name of its own frame, whatever comments, blank     *)
(* lines and dataless events came before it. A frame without a name is      *)
(* given out under none, or as a ping: the one event that may come without  *)
(* data, whose name the blank line then keeps (_sse.py:19-20 promises "the  *)
(* empty string"); never under a name that a parser acts on.                *)
DecoderInSync ==
  /\ frame = NoFrame => dataParts = <<>>
  /\ frame # NoFrame => dataParts = [k \in 1 .. part |-> [of |-> frame, part |-> k]]
  /\ named => eventType = frame.type
  /\ status = "streaming" /\ ~named => eventType \in {"", "ping"}

(* What the consumer has been given is the reply, up to the frame that is   *)
(* under way: nothing lost, doubled or out of order, and each fragment of a *)
(* tool call has the id and the name of its call, though the wire says them *)
(* only once and calls may alternate.                                       *)
ContentIsReply ==
  /\ Len(content) <= Len(sent)
  /\ \A k \in DOMAIN content : content[k] = sent[k]
  /\ frame = NoFrame /\ ~cut /\ status # "abandoned" => content = sent

(* Done tells a whole reply from a truncated one: it comes at most once and *)
(* not before the last piece of the reply, and an iteration that ends by    *)
(* itself without it was cut short by the server.                           *)
DoneTellsWhole ==
  /\ done <= 1
  /\ done = 1 => content = sent
  /\ status = "returned" /\ done = 0 => cut

(* The last UsageEvent adds up to what the server billed, with the input of *)
(* one frame and the output of another, and a whole reply has one.          *)
UsageAddsUp ==
  /\ ~cut /\ frame = NoFrame /\ status # "abandoned" /\ reported # NoUsage =>
       reported.in = billed.in /\ reported.out + reported.reasoning = billed.out
  /\ ~cut /\ status = "returned" => reported # NoUsage

Reply == INSTANCE ReplyStream WITH reply <- sent

(* The streams of the three adapters are what ReplyStream promises.         *)
ImplementsReply == Reply!Spec
=============================================================================
