--------------------------- MODULE ProviderProofs ---------------------------
(***************************************************************************)
(* Theorems about ProviderStream and ProviderCall.                         *)
(*                                                                         *)
(* ProviderStream: for any calls, usages and bounds the decoder stays in   *)
(* step with the frames, what the consumer is given is the reply, Done     *)
(* tells a whole reply from a truncated one, the usage adds up, and the    *)
(* streams implement ReplyStream.                                          *)
(*                                                                         *)
(* ProviderCall: all of it for calls one after the other, a stream agrees  *)
(* with complete, a request carries the conversation it was given, and a   *)
(* dropped parameter is warned of once.                                    *)
(***************************************************************************)
EXTENDS ProviderCall, Induction, SequenceTheorems, TLAPS

-----------------------------------------------------------------------------
(* The inductive invariant.                                                 *)

Named(c) == [id |-> c, name |-> c]
BlockTool(b) == IF b = <<>> THEN Unknown ELSE IF b[1] = NoCall THEN Unknown ELSE Named(b[1])
Bare(f) == f.tools = <<>> /\ ~f.text /\ ~f.reasoning
Told(s, c) == \E k \in DOMAIN s : s[k].id = c
Telling(s, tools) ==
  \A k \in DOMAIN tools :
    \/ tools[k].id = tools[k].index /\ tools[k].name = tools[k].index
    \/ Told(s, tools[k].index)
    \/ \E j \in 1 .. k - 1 : tools[j].index = tools[k].index

(* A stream that has not begun has nothing left of the one before.          *)
IdleFresh ==
  status = "idle" =>
    /\ sent = <<>> /\ block = <<>> /\ billed = NoUsage
    /\ frame = NoFrame /\ ~named /\ part = 0 /\ ~cut
    /\ eventType = "" /\ dataParts = <<>>
    /\ toolState = [c \in Calls |-> Unknown] /\ current = Unknown /\ inputTokens = 0
    /\ content = <<>> /\ done = 0 /\ reported = NoUsage

(* The decoder holds the lines of the frame being written.                  *)
Framing ==
  /\ frame = NoFrame => ~named /\ part = 0
  /\ part <= frame.lines
  /\ dataParts = [k \in 1 .. part |-> [of |-> frame, part |-> k]]
  /\ named => eventType = frame.type
  /\ status = "streaming" /\ ~named => eventType \in {"", "ping"}

(* What a frame can be.                                                     *)
FrameShape ==
  /\ frame.payload = "none" <=> frame = NoFrame
  /\ frame.lines = 0 =>
       frame.type \in {"", "ping"} /\ Bare(frame) /\ ~frame.finish /\ frame.usage = NoUsage
  /\ frame.payload # "json" => Bare(frame) /\ ~frame.finish /\ frame.usage = NoUsage
  /\ frame.reasoning => adapter = "moonshot"
  /\ adapter = "anthropic" =>
       /\ ~Bare(frame) => frame.type = "content_block_delta"
       /\ frame.finish => frame.type = "message_delta"
       /\ frame.type \notin {"", "ping"} => frame.payload = "json"

(* The reply is what was given and the pieces of the frame under way.       *)
Delivery ==
  /\ Len(content) <= Len(sent)
  /\ \A k \in DOMAIN content : content[k] = sent[k]
  /\ status = "streaming" => sent = content \o Pieces(frame)
  /\ status = "returned" /\ ~cut => content = sent

(* OpenAI: the state of a call that was told of is its id and its name, and *)
(* the frame under way tells of the others.                                 *)
ToolsKnown ==
  adapter # "anthropic" /\ status = "streaming" =>
    /\ \A c \in Calls : Told(content, c) => toolState[c] = Named(c)
    /\ Telling(content, frame.tools)

(* Anthropic: the current tool is the one of the open block.                *)
BlockKnown ==
  adapter = "anthropic" /\ status = "streaming" =>
    /\ frame.type \notin {"content_block_start", "content_block_stop"} =>
         current = BlockTool(block)
    /\ frame.type = "content_block_start" => block = <<frame.block>> /\ current = Unknown
    /\ frame.type = "content_block_stop" => block = <<>>
    /\ frame.tools # <<>> =>
         /\ Len(frame.tools) = 1
         /\ block # <<>> /\ block[1] # NoCall /\ frame.tools[1].index = block[1]

(* Done has been given when the frame that says so has been read.           *)
Ending ==
  /\ status = "streaming" =>
       /\ phase \in {"opening", "open"} => done = 0 /\ ~frame.finish
       /\ phase \in {"finished", "closed"} =>
            IF frame.finish THEN done = 0 ELSE done = 1 /\ Bare(frame)
       /\ adapter = "anthropic" /\ phase # "open" => block = <<>>
       /\ frame.payload = "[DONE]" => adapter # "anthropic" /\ phase = "closed"
  /\ done \in {0, 1}
  /\ done = 1 => content = sent
  /\ status = "returned" /\ done = 0 => cut

(* The usage that was reported is what was billed before the frame.         *)
OpenAIBilling ==
  adapter # "anthropic" =>
    /\ billed \in Usages \cup {NoUsage}
    /\ frame.usage # NoUsage => frame.usage = billed /\ reported = NoUsage
    /\ frame.usage = NoUsage =>
         reported = IF billed = NoUsage THEN NoUsage ELSE SplitUsage(billed)
    /\ phase = "open" => billed = NoUsage
    /\ phase = "closed" => billed # NoUsage

AnthropicBilling ==
  adapter = "anthropic" =>
    /\ phase = "opening" => reported = NoUsage /\ frame.type # "message_start"
    /\ frame.type = "message_start" => reported = NoUsage /\ frame.usage.in = billed.in
    /\ phase # "opening" /\ frame.type # "message_start" => inputTokens = billed.in
    /\ frame.type = "message_delta" => phase # "opening" /\ frame.usage.out = billed.out
    /\ frame.type # "message_delta" /\ reported # NoUsage =>
         reported = [in |-> billed.in, out |-> billed.out, reasoning |-> 0]
    /\ phase \in {"finished", "closed"} /\ ~frame.finish => reported # NoUsage

Billing == (status = "streaming" => OpenAIBilling /\ AnthropicBilling) /\ UsageAddsUp

(* Only the end of the connection raises within a stream.                   *)
RaisedCut == status = "raised" => cut

StreamInv ==
  /\ StreamTypeOK /\ IdleFresh /\ Framing /\ FrameShape /\ Delivery
  /\ ToolsKnown /\ BlockKnown /\ Ending /\ Billing /\ RaisedCut

-----------------------------------------------------------------------------
(* Frames and pieces.                                                       *)

LEMMA PlainTyped == Plain \in FrameSet /\ NoUsage \in UsageSet /\ <<>> \in Seq(Fragments)
<1>1. <<>> \in Seq(Fragments)
  OBVIOUS
<1>2. NoUsage \in UsageSet
  BY SMT DEF NoUsage, UsageSet
<1>3. Plain \in FrameSet
  BY <1>1, <1>2, SMT DEF Plain, FrameSet, FrameTypes
<1> QED
  BY <1>1, <1>2, <1>3

LEMMA UsagesTyped == \A u \in Usages : u \in UsageSet /\ u # NoUsage /\ u.reasoning <= u.out
BY StreamAssumption, SMT DEF UsageSet, Counts, NoUsage

LEMMA ZeroedTyped ==
  ASSUME NEW u \in UsageSet
  PROVE  [u EXCEPT !.in = 0, !.reasoning = 0] \in UsageSet
<1>1. 0 \in Nat /\ 0 \in Nat \cup {-1}
  OBVIOUS
<1> QED
  BY <1>1, Zenon DEF UsageSet

LEMMA IfTyped ==
  ASSUME NEW b \in BOOLEAN, NEW kind \in {"text", "reasoning", "tool"}
  PROVE  If(b, kind) \in Seq(PieceSet)
<1>1. Piece(kind, NoCall, NoCall) \in PieceSet
  BY SMT DEF Piece, PieceSet
<1> QED
  BY <1>1, SMT DEF If

LEMMA ToolPiecesTyped ==
  ASSUME NEW n \in Nat, NEW id \in [1 .. n -> Calls \cup {NoCall}],
         NEW name \in [1 .. n -> Calls \cup {NoCall}]
  PROVE  [k \in 1 .. n |-> Piece("tool", id[k], name[k])] \in Seq(PieceSet)
<1>1. \A k \in 1 .. n : Piece("tool", id[k], name[k]) \in PieceSet
  BY SMT DEF Piece, PieceSet
<1> QED
  BY <1>1, IsASeq

LEMMA FrameFields ==
  ASSUME NEW f \in FrameSet
  PROVE  /\ f.lines \in Nat /\ f.reasoning \in BOOLEAN /\ f.text \in BOOLEAN
         /\ f.tools \in Seq(Fragments) /\ f.block \in Calls \cup {NoCall}
         /\ f.finish \in BOOLEAN /\ f.usage \in UsageSet
<1>1. f.lines \in Nat
  BY DEF FrameSet
<1>2. f.reasoning \in BOOLEAN
  BY DEF FrameSet
<1>3. f.text \in BOOLEAN
  BY DEF FrameSet
<1>4. f.tools \in Seq(Fragments)
  BY DEF FrameSet
<1>5. f.block \in Calls \cup {NoCall}
  BY DEF FrameSet
<1>6. f.finish \in BOOLEAN
  BY DEF FrameSet
<1>7. f.usage \in UsageSet
  BY DEF FrameSet
<1> QED
  BY <1>1, <1>2, <1>3, <1>4, <1>5, <1>6, <1>7

LEMMA FragmentPieces ==
  ASSUME NEW f \in FrameSet
  PROVE  [k \in DOMAIN f.tools |-> Piece("tool", f.tools[k].index, f.tools[k].index)]
           \in Seq(PieceSet)
<1> DEFINE tools == [k \in DOMAIN f.tools |-> Piece("tool", f.tools[k].index, f.tools[k].index)]
<1>1. f.tools \in Seq(Fragments)
  BY FrameFields
<1> HIDE DEF tools
<1>2. Len(f.tools) \in Nat /\ DOMAIN f.tools = 1 .. Len(f.tools)
  BY <1>1
<1>3. \A k \in 1 .. Len(f.tools) : Piece("tool", f.tools[k].index, f.tools[k].index) \in PieceSet
  <2> SUFFICES ASSUME NEW k \in 1 .. Len(f.tools)
               PROVE  Piece("tool", f.tools[k].index, f.tools[k].index) \in PieceSet
    OBVIOUS
  <2>1. f.tools[k] \in Fragments
    BY <1>1, <1>2
  <2>2. f.tools[k].index \in Calls
    BY <2>1, SMT DEF Fragments
  <2> QED
    BY <2>2, SMT DEF Piece, PieceSet
<1>4. tools \in Seq(PieceSet)
  BY <1>2, <1>3, IsASeq DEF tools
<1> QED
  BY <1>4 DEF tools

LEMMA PiecesTyped ==
  ASSUME NEW f \in FrameSet
  PROVE  Pieces(f) \in Seq(PieceSet)
<1> DEFINE tools == [k \in DOMAIN f.tools |-> Piece("tool", f.tools[k].index, f.tools[k].index)]
<1>1. f.text \in BOOLEAN /\ f.reasoning \in BOOLEAN
  BY FrameFields
<1>4. tools \in Seq(PieceSet)
  BY FragmentPieces
<1> HIDE DEF tools
<1>5. If(f.reasoning, "reasoning") \in Seq(PieceSet) /\ If(f.text, "text") \in Seq(PieceSet)
  BY <1>1, IfTyped
<1>6. Pieces(f) = (If(f.reasoning, "reasoning") \o If(f.text, "text")) \o tools
  BY DEF Pieces, tools
<1> QED
  BY <1>4, <1>5, <1>6, ConcatProperties

LEMMA EmptyConcat == <<>> \o <<>> = <<>>
OBVIOUS

LEMMA EmptyDomain == DOMAIN <<>> = {}
OBVIOUS

LEMMA SingleDomain ==
  ASSUME NEW S, NEW s \in Seq(S), Len(s) = 1
  PROVE  DOMAIN s = {1}
OBVIOUS

LEMMA BareTools ==
  ASSUME NEW f, Bare(f)
  PROVE  [k \in DOMAIN f.tools |-> Piece("tool", f.tools[k].index, f.tools[k].index)] = <<>>
BY SMT DEF Bare

LEMMA BarePieces ==
  ASSUME NEW f \in FrameSet, Bare(f)
  PROVE  Pieces(f) = <<>>
<1>1. If(f.reasoning, "reasoning") = <<>> /\ If(f.text, "text") = <<>>
  BY DEF If, Bare
<1>2. [k \in DOMAIN f.tools |-> Piece("tool", f.tools[k].index, f.tools[k].index)] = <<>>
  BY BareTools
<1> QED
  BY <1>1, <1>2, ConcatEmptySeq DEF Pieces

-----------------------------------------------------------------------------
(* What the actions of the server have in common, and what each one writes. *)

Writes ==
  /\ status = "streaming" /\ frame = NoFrame /\ ~cut
  /\ frame' \in FrameSet /\ frame'.lines \in Nat
  /\ frame'.payload # "none"
  /\ sent' = sent \o Pieces(frame') /\ sent' \in Seq(PieceSet)
  /\ adapter' = adapter /\ named' = named /\ part' = part
  /\ eventType' = eventType /\ dataParts' = dataParts
  /\ toolState' = toolState /\ current' = current /\ inputTokens' = inputTokens
  /\ content' = content /\ done' = done /\ reported' = reported
  /\ status' = status

LEMMA LinesKeepPieces ==
  ASSUME NEW f \in FrameSet, NEW l \in Nat
  PROVE  /\ [f EXCEPT !.lines = l] \in FrameSet
         /\ Pieces([f EXCEPT !.lines = l]) = Pieces(f)
         /\ LET g == [f EXCEPT !.lines = l]
            IN  /\ g.lines = l /\ g.type = f.type /\ g.payload = f.payload
                /\ g.reasoning = f.reasoning /\ g.text = f.text /\ g.tools = f.tools
                /\ g.block = f.block /\ g.finish = f.finish /\ g.usage = f.usage
<1> DEFINE g == [f EXCEPT !.lines = l]
<1>1. g \in FrameSet
  BY Zenon DEF FrameSet
<1>4. g.lines = l
  BY Zenon DEF FrameSet
<1>5. g.type = f.type
  BY Zenon DEF FrameSet
<1>6. g.payload = f.payload
  BY Zenon DEF FrameSet
<1>7. g.reasoning = f.reasoning
  BY Zenon DEF FrameSet
<1>8. g.text = f.text
  BY Zenon DEF FrameSet
<1>9. g.tools = f.tools
  BY Zenon DEF FrameSet
<1>10. g.block = f.block
  BY Zenon DEF FrameSet
<1>11. g.finish = f.finish
  BY Zenon DEF FrameSet
<1>12. g.usage = f.usage
  BY Zenon DEF FrameSet
<1>2. /\ g.lines = l /\ g.type = f.type /\ g.payload = f.payload
      /\ g.reasoning = f.reasoning /\ g.text = f.text /\ g.tools = f.tools
      /\ g.block = f.block /\ g.finish = f.finish /\ g.usage = f.usage
  BY <1>4, <1>5, <1>6, <1>7, <1>8, <1>9, <1>10, <1>11, <1>12
<1> HIDE DEF g
<1>3. Pieces(g) = Pieces(f)
  BY <1>2 DEF Pieces
<1> QED
  BY <1>1, <1>2, <1>3 DEF g

LEMMA Begins ==
  ASSUME StreamTypeOK, NEW f \in FrameSet, f.payload # "none", Begin(f)
  PROVE  /\ Writes
         /\ frame'.lines # 0 /\ frame'.type = f.type /\ frame'.payload = f.payload
         /\ frame'.reasoning = f.reasoning /\ frame'.text = f.text /\ frame'.tools = f.tools
         /\ frame'.block = f.block /\ frame'.finish = f.finish /\ frame'.usage = f.usage
<1>1. PICK l \in 1 .. MaxLines : frame' = [f EXCEPT !.lines = l]
  BY DEF Begin
<1>2. l \in Nat /\ l # 0
  BY <1>1, StreamAssumption
<1>3. frame' \in FrameSet /\ Pieces(frame') = Pieces(f)
  BY <1>1, <1>2, LinesKeepPieces
<1>4. /\ frame'.lines = l /\ frame'.type = f.type /\ frame'.payload = f.payload
      /\ frame'.reasoning = f.reasoning /\ frame'.text = f.text /\ frame'.tools = f.tools
      /\ frame'.block = f.block /\ frame'.finish = f.finish /\ frame'.usage = f.usage
  BY <1>1, <1>2, LinesKeepPieces
<1>5. sent' = sent \o Pieces(f)
  BY DEF Begin
<1>6. sent \in Seq(PieceSet) /\ Pieces(f) \in Seq(PieceSet)
  BY PiecesTyped DEF StreamTypeOK
<1>7. sent' \in Seq(PieceSet)
  BY <1>5, <1>6, ConcatProperties
<1>8. status = "streaming" /\ frame = NoFrame /\ ~cut
  BY DEF Begin
<1>9. /\ adapter' = adapter /\ named' = named /\ part' = part
      /\ eventType' = eventType /\ dataParts' = dataParts
      /\ toolState' = toolState /\ current' = current /\ inputTokens' = inputTokens
      /\ content' = content /\ done' = done /\ reported' = reported
      /\ status' = status
  BY DEF Begin, decoderVars, parserVars
<1> QED
  BY <1>2, <1>3, <1>4, <1>5, <1>7, <1>8, <1>9 DEF Writes

LEMMA ChunkWrites ==
  ASSUME StreamTypeOK, Chunk
  PROVE  /\ Writes /\ frame'.lines # 0
         /\ adapter # "anthropic" /\ phase = "open"
         /\ frame'.type = "" /\ frame'.payload = "json" /\ frame'.block = NoCall
         /\ Introduced(frame'.tools)
         /\ frame'.reasoning => adapter = "moonshot"
         /\ frame'.usage \in Usages \cup {NoUsage}
         /\ frame'.usage # NoUsage => frame'.finish
         /\ phase' = IF frame'.finish THEN "finished" ELSE phase
         /\ billed' = frame'.usage
         /\ block' = block /\ cut' = cut
<1>1. PICK tools \in ToolLists, text, reasoning \in BOOLEAN, finish \in BOOLEAN,
           u \in Usages \cup {NoUsage} :
        /\ Introduced(tools)
        /\ reasoning => adapter = "moonshot"
        /\ u # NoUsage => finish
        /\ Begin([Plain EXCEPT !.reasoning = reasoning, !.text = text, !.tools = tools,
                              !.finish = finish, !.usage = u])
        /\ phase' = IF finish THEN "finished" ELSE phase
        /\ billed' = u
  BY ZenonT(40) DEF Chunk
<1> DEFINE f == [Plain EXCEPT !.reasoning = reasoning, !.text = text, !.tools = tools,
                              !.finish = finish, !.usage = u]
<1>2. tools \in Seq(Fragments)
  BY <1>1, StreamAssumption DEF ToolLists
<1>3. u \in UsageSet
  BY PlainTyped, UsagesTyped
<1>4. f \in FrameSet
  BY <1>2, <1>3, PlainTyped, Zenon DEF FrameSet, FrameTypes
<1>5. /\ f.type = "" /\ f.payload = "json" /\ f.reasoning = reasoning /\ f.text = text
      /\ f.tools = tools /\ f.block = NoCall /\ f.finish = finish /\ f.usage = u
  BY Zenon DEF Plain
<1>6. Begin(f)
  BY <1>1
<1> HIDE DEF f
<1>7. Writes /\ frame'.lines # 0
  BY <1>4, <1>5, <1>6, Begins
<1>8. /\ frame'.type = "" /\ frame'.payload = "json" /\ frame'.reasoning = reasoning
      /\ frame'.tools = tools /\ frame'.block = NoCall
      /\ frame'.finish = finish /\ frame'.usage = u
  BY <1>4, <1>5, <1>6, Begins
<1>9. adapter # "anthropic" /\ phase = "open" /\ block' = block /\ cut' = cut
  BY DEF Chunk
<1> QED
  BY <1>1, <1>7, <1>8, <1>9, Zenon

LEMMA UsageChunkWrites ==
  ASSUME StreamTypeOK, NEW u \in Usages, UsageChunk(u)
  PROVE  /\ Writes /\ frame'.lines # 0
         /\ frame'.type = "" /\ frame'.payload = "json" /\ ~frame'.reasoning /\ ~frame'.text
         /\ frame'.tools = <<>> /\ frame'.block = NoCall /\ ~frame'.finish /\ frame'.usage = u
         /\ adapter # "anthropic" /\ phase = "finished" /\ billed = NoUsage
         /\ billed' = u /\ phase' = phase /\ block' = block /\ cut' = cut
<1> DEFINE f == [Plain EXCEPT !.usage = u]
<1>0. u \in UsageSet
  BY UsagesTyped
<1>1. f \in FrameSet
  BY <1>0, PlainTyped, Zenon DEF FrameSet, FrameTypes
<1>2. /\ f.type = "" /\ f.payload = "json" /\ ~f.reasoning /\ ~f.text
      /\ f.tools = <<>> /\ f.block = NoCall /\ ~f.finish /\ f.usage = u
  BY SMT DEF Plain
<1>3. Begin(f)
  BY DEF UsageChunk
<1> HIDE DEF f
<1>4. Writes /\ frame'.lines # 0
  BY <1>1, <1>2, <1>3, Begins
<1>5. /\ frame'.type = "" /\ frame'.payload = "json" /\ ~frame'.reasoning /\ ~frame'.text
         /\ frame'.tools = <<>> /\ frame'.block = NoCall /\ ~frame'.finish /\ frame'.usage = u
  BY <1>1, <1>2, <1>3, Begins
<1> QED
  BY <1>4, <1>5 DEF UsageChunk

LEMMA DoneMarkerWrites ==
  ASSUME StreamTypeOK, DoneMarker
  PROVE  /\ Writes /\ frame'.lines # 0
         /\ frame'.type = "" /\ frame'.payload = "[DONE]" /\ ~frame'.reasoning /\ ~frame'.text
         /\ frame'.tools = <<>> /\ frame'.block = NoCall /\ ~frame'.finish /\ frame'.usage = NoUsage
         /\ adapter # "anthropic" /\ phase = "finished" /\ billed # NoUsage
         /\ phase' = "closed" /\ block' = block /\ billed' = billed /\ cut' = cut
<1> DEFINE f == [Plain EXCEPT !.payload = "[DONE]"]
<1>1. f \in FrameSet
  BY PlainTyped, Zenon DEF FrameSet, FrameTypes
<1>2. /\ f.type = "" /\ f.payload = "[DONE]" /\ ~f.reasoning /\ ~f.text
      /\ f.tools = <<>> /\ f.block = NoCall /\ ~f.finish /\ f.usage = NoUsage
  BY SMT DEF Plain
<1>3. Begin(f)
  BY DEF DoneMarker
<1> HIDE DEF f
<1>4. Writes /\ frame'.lines # 0
  BY <1>1, <1>2, <1>3, Begins
<1>5. /\ frame'.type = "" /\ frame'.payload = "[DONE]" /\ ~frame'.reasoning /\ ~frame'.text
         /\ frame'.tools = <<>> /\ frame'.block = NoCall /\ ~frame'.finish /\ frame'.usage = NoUsage
  BY <1>1, <1>2, <1>3, Begins
<1> QED
  BY <1>4, <1>5 DEF DoneMarker

LEMMA MessageStartWrites ==
  ASSUME StreamTypeOK, NEW u \in Usages, MessageStart(u)
  PROVE  /\ Writes /\ frame'.lines # 0
         /\ frame'.type = "message_start" /\ frame'.payload = "json" /\ ~frame'.reasoning /\ ~frame'.text
         /\ frame'.tools = <<>> /\ frame'.block = NoCall /\ ~frame'.finish /\ frame'.usage = u
         /\ adapter = "anthropic" /\ phase = "opening"
         /\ phase' = "open" /\ billed' = [u EXCEPT !.out = 0, !.reasoning = 0]
         /\ block' = block /\ cut' = cut
<1> DEFINE f == [Plain EXCEPT !.type = "message_start", !.usage = u]
<1>0. u \in UsageSet
  BY UsagesTyped
<1>1. f \in FrameSet
  BY <1>0, PlainTyped, Zenon DEF FrameSet, FrameTypes
<1>2. /\ f.type = "message_start" /\ f.payload = "json" /\ ~f.reasoning /\ ~f.text
      /\ f.tools = <<>> /\ f.block = NoCall /\ ~f.finish /\ f.usage = u
  BY SMT DEF Plain
<1>3. Begin(f)
  BY DEF MessageStart
<1> HIDE DEF f
<1>4. Writes /\ frame'.lines # 0
  BY <1>1, <1>2, <1>3, Begins
<1>5. /\ frame'.type = "message_start" /\ frame'.payload = "json" /\ ~frame'.reasoning /\ ~frame'.text
         /\ frame'.tools = <<>> /\ frame'.block = NoCall /\ ~frame'.finish /\ frame'.usage = u
  BY <1>1, <1>2, <1>3, Begins
<1> QED
  BY <1>4, <1>5 DEF MessageStart

LEMMA BlockStartWrites ==
  ASSUME StreamTypeOK, NEW c \in Calls \cup {NoCall}, BlockStart(c)
  PROVE  /\ Writes /\ frame'.lines # 0
         /\ frame'.type = "content_block_start" /\ frame'.payload = "json" /\ ~frame'.reasoning /\ ~frame'.text
         /\ frame'.tools = <<>> /\ frame'.block = c /\ ~frame'.finish /\ frame'.usage = NoUsage
         /\ adapter = "anthropic" /\ phase = "open" /\ block = <<>>
         /\ block' = <<c>> /\ phase' = phase /\ billed' = billed /\ cut' = cut
<1> DEFINE f == [Plain EXCEPT !.type = "content_block_start", !.block = c]
<1>1. f \in FrameSet
  BY PlainTyped, Zenon DEF FrameSet, FrameTypes
<1>2. /\ f.type = "content_block_start" /\ f.payload = "json" /\ ~f.reasoning /\ ~f.text
      /\ f.tools = <<>> /\ f.block = c /\ ~f.finish /\ f.usage = NoUsage
  BY SMT DEF Plain
<1>3. Begin(f)
  BY DEF BlockStart
<1> HIDE DEF f
<1>4. Writes /\ frame'.lines # 0
  BY <1>1, <1>2, <1>3, Begins
<1>5. /\ frame'.type = "content_block_start" /\ frame'.payload = "json" /\ ~frame'.reasoning /\ ~frame'.text
         /\ frame'.tools = <<>> /\ frame'.block = c /\ ~frame'.finish /\ frame'.usage = NoUsage
  BY <1>1, <1>2, <1>3, Begins
<1> QED
  BY <1>4, <1>5 DEF BlockStart

LEMMA BlockStopWrites ==
  ASSUME StreamTypeOK, BlockStop
  PROVE  /\ Writes /\ frame'.lines # 0
         /\ frame'.type = "content_block_stop" /\ frame'.payload = "json" /\ ~frame'.reasoning /\ ~frame'.text
         /\ frame'.tools = <<>> /\ frame'.block = NoCall /\ ~frame'.finish /\ frame'.usage = NoUsage
         /\ adapter = "anthropic" /\ block # <<>>
         /\ block' = <<>> /\ phase' = phase /\ billed' = billed /\ cut' = cut
<1> DEFINE f == [Plain EXCEPT !.type = "content_block_stop"]
<1>1. f \in FrameSet
  BY PlainTyped, Zenon DEF FrameSet, FrameTypes
<1>2. /\ f.type = "content_block_stop" /\ f.payload = "json" /\ ~f.reasoning /\ ~f.text
      /\ f.tools = <<>> /\ f.block = NoCall /\ ~f.finish /\ f.usage = NoUsage
  BY SMT DEF Plain
<1>3. Begin(f)
  BY DEF BlockStop
<1> HIDE DEF f
<1>4. Writes /\ frame'.lines # 0
  BY <1>1, <1>2, <1>3, Begins
<1>5. /\ frame'.type = "content_block_stop" /\ frame'.payload = "json" /\ ~frame'.reasoning /\ ~frame'.text
         /\ frame'.tools = <<>> /\ frame'.block = NoCall /\ ~frame'.finish /\ frame'.usage = NoUsage
  BY <1>1, <1>2, <1>3, Begins
<1> QED
  BY <1>4, <1>5 DEF BlockStop

LEMMA MessageDeltaWrites ==
  ASSUME StreamTypeOK, NEW u \in Usages, NEW finish \in BOOLEAN, MessageDelta(u, finish)
  PROVE  /\ Writes /\ frame'.lines # 0
         /\ frame'.type = "message_delta" /\ frame'.payload = "json" /\ ~frame'.reasoning /\ ~frame'.text
         /\ frame'.tools = <<>> /\ frame'.block = NoCall /\ frame'.finish = finish /\ frame'.usage = [u EXCEPT !.in = 0, !.reasoning = 0]
         /\ adapter = "anthropic" /\ phase = "open" /\ block = <<>>
         /\ phase' = IF finish THEN "finished" ELSE phase
         /\ billed' = [billed EXCEPT !.out = u.out] /\ block' = block /\ cut' = cut
<1> DEFINE f == [Plain EXCEPT !.type = "message_delta", !.finish = finish,
                               !.usage = [u EXCEPT !.in = 0, !.reasoning = 0]]
<1>0. [u EXCEPT !.in = 0, !.reasoning = 0] \in UsageSet
  BY UsagesTyped, ZeroedTyped
<1>1. f \in FrameSet
  BY <1>0, PlainTyped, Zenon DEF FrameSet, FrameTypes
<1>2. /\ f.type = "message_delta" /\ f.payload = "json" /\ ~f.reasoning /\ ~f.text
      /\ f.tools = <<>> /\ f.block = NoCall /\ f.finish = finish /\ f.usage = [u EXCEPT !.in = 0, !.reasoning = 0]
  BY SMT DEF Plain
<1>3. Begin(f)
  BY DEF MessageDelta
<1> HIDE DEF f
<1>4. Writes /\ frame'.lines # 0
  BY <1>1, <1>2, <1>3, Begins
<1>5. /\ frame'.type = "message_delta" /\ frame'.payload = "json" /\ ~frame'.reasoning /\ ~frame'.text
         /\ frame'.tools = <<>> /\ frame'.block = NoCall /\ frame'.finish = finish /\ frame'.usage = [u EXCEPT !.in = 0, !.reasoning = 0]
  BY <1>1, <1>2, <1>3, Begins
<1> QED
  BY <1>4, <1>5 DEF MessageDelta

LEMMA MessageStopWrites ==
  ASSUME StreamTypeOK, MessageStop
  PROVE  /\ Writes /\ frame'.lines # 0
         /\ frame'.type = "message_stop" /\ frame'.payload = "json" /\ ~frame'.reasoning /\ ~frame'.text
         /\ frame'.tools = <<>> /\ frame'.block = NoCall /\ ~frame'.finish /\ frame'.usage = NoUsage
         /\ adapter = "anthropic" /\ phase = "finished"
         /\ phase' = "closed" /\ block' = block /\ billed' = billed /\ cut' = cut
<1> DEFINE f == [Plain EXCEPT !.type = "message_stop"]
<1>1. f \in FrameSet
  BY PlainTyped, Zenon DEF FrameSet, FrameTypes
<1>2. /\ f.type = "message_stop" /\ f.payload = "json" /\ ~f.reasoning /\ ~f.text
      /\ f.tools = <<>> /\ f.block = NoCall /\ ~f.finish /\ f.usage = NoUsage
  BY SMT DEF Plain
<1>3. Begin(f)
  BY DEF MessageStop
<1> HIDE DEF f
<1>4. Writes /\ frame'.lines # 0
  BY <1>1, <1>2, <1>3, Begins
<1>5. /\ frame'.type = "message_stop" /\ frame'.payload = "json" /\ ~frame'.reasoning /\ ~frame'.text
         /\ frame'.tools = <<>> /\ frame'.block = NoCall /\ ~frame'.finish /\ frame'.usage = NoUsage
  BY <1>1, <1>2, <1>3, Begins
<1> QED
  BY <1>4, <1>5 DEF MessageStop

LEMMA ServerErrorWrites ==
  ASSUME StreamTypeOK, ServerError
  PROVE  /\ Writes /\ frame'.lines # 0
         /\ frame'.type = (IF adapter = "anthropic" THEN "error" ELSE "") /\ frame'.payload = "json" /\ ~frame'.reasoning /\ ~frame'.text
         /\ frame'.tools = <<>> /\ frame'.block = NoCall /\ ~frame'.finish /\ frame'.usage = NoUsage
         /\ phase # "closed"
         /\ phase' = phase /\ block' = block /\ billed' = billed /\ cut'
<1> DEFINE f == [Plain EXCEPT !.type = IF adapter = "anthropic" THEN "error" ELSE ""]
<1>1. f \in FrameSet
  BY PlainTyped, Zenon DEF FrameSet, FrameTypes
<1>2. /\ f.type = (IF adapter = "anthropic" THEN "error" ELSE "") /\ f.payload = "json" /\ ~f.reasoning /\ ~f.text
      /\ f.tools = <<>> /\ f.block = NoCall /\ ~f.finish /\ f.usage = NoUsage
  BY SMT DEF Plain
<1>3. Begin(f)
  BY DEF ServerError
<1> HIDE DEF f
<1>4. Writes /\ frame'.lines # 0
  BY <1>1, <1>2, <1>3, Begins
<1>5. /\ frame'.type = (IF adapter = "anthropic" THEN "error" ELSE "") /\ frame'.payload = "json" /\ ~frame'.reasoning /\ ~frame'.text
         /\ frame'.tools = <<>> /\ frame'.block = NoCall /\ ~frame'.finish /\ frame'.usage = NoUsage
  BY <1>1, <1>2, <1>3, Begins
<1> QED
  BY <1>4, <1>5 DEF ServerError

LEMMA BlockDeltaWrites ==
  ASSUME StreamTypeOK, BlockDelta
  PROVE  /\ Writes /\ frame'.lines # 0
         /\ frame'.type = "content_block_delta" /\ frame'.payload = "json"
         /\ ~frame'.reasoning /\ ~frame'.finish
         /\ frame'.block = NoCall /\ frame'.usage = NoUsage
         /\ frame'.tools # <<>> =>
              /\ Len(frame'.tools) = 1
              /\ block[1] # NoCall /\ frame'.tools[1].index = block[1]
         /\ adapter = "anthropic" /\ block # <<>>
         /\ block' = block /\ phase' = phase /\ billed' = billed /\ cut' = cut
<1>1. /\ adapter = "anthropic" /\ block # <<>>
      /\ block' = block /\ phase' = phase /\ billed' = billed /\ cut' = cut
  BY DEF BlockDelta
<1>2. CASE Begin([Plain EXCEPT !.type = "content_block_delta", !.text = TRUE])
  <2> DEFINE f == [Plain EXCEPT !.type = "content_block_delta", !.text = TRUE]
  <2>1. f \in FrameSet
    BY PlainTyped, Zenon DEF FrameSet, FrameTypes
  <2>2. /\ f.type = "content_block_delta" /\ f.payload = "json" /\ ~f.reasoning /\ ~f.finish
        /\ f.block = NoCall /\ f.usage = NoUsage /\ f.tools = <<>>
    BY SMT DEF Plain
  <2>3. Begin(f)
    BY <1>2
  <2> HIDE DEF f
  <2>4. Writes /\ frame'.lines # 0
    BY <2>1, <2>2, <2>3, Begins
  <2>5. /\ frame'.type = "content_block_delta" /\ frame'.payload = "json" /\ ~frame'.reasoning
        /\ ~frame'.finish /\ frame'.block = NoCall /\ frame'.usage = NoUsage
        /\ frame'.tools = <<>>
    BY <2>1, <2>2, <2>3, Begins
  <2> QED
    BY <1>1, <2>4, <2>5
<1>3. CASE /\ block[1] # NoCall
           /\ Begin([Plain EXCEPT !.type = "content_block_delta",
                       !.tools = <<[index |-> block[1], id |-> NoCall, name |-> NoCall]>>])
  <2> DEFINE fragment == [index |-> block[1], id |-> NoCall, name |-> NoCall]
             f == [Plain EXCEPT !.type = "content_block_delta", !.tools = <<fragment>>]
  <2>1. block[1] \in Calls
    BY <1>1, <1>3 DEF StreamTypeOK
  <2>2. fragment \in Fragments
    BY <2>1, SMT DEF Fragments
  <2>3. <<fragment>> \in Seq(Fragments) /\ Len(<<fragment>>) = 1
        /\ <<fragment>>[1] = fragment /\ fragment.index = block[1]
    BY <2>2
  <2> HIDE DEF fragment
  <2>4. f \in FrameSet
    BY <2>3, PlainTyped, Zenon DEF FrameSet, FrameTypes
  <2>5. /\ f.type = "content_block_delta" /\ f.payload = "json" /\ ~f.reasoning /\ ~f.finish
        /\ f.block = NoCall /\ f.usage = NoUsage /\ f.tools = <<fragment>>
    BY SMT DEF Plain
  <2>6. Begin(f)
    BY <1>3 DEF fragment
  <2> HIDE DEF f
  <2>7. Writes /\ frame'.lines # 0
    BY <2>4, <2>5, <2>6, Begins
  <2>8. /\ frame'.type = "content_block_delta" /\ frame'.payload = "json" /\ ~frame'.reasoning
        /\ ~frame'.finish /\ frame'.block = NoCall /\ frame'.usage = NoUsage
        /\ frame'.tools = <<fragment>>
    BY <2>4, <2>5, <2>6, Begins
  <2> QED
    BY <1>1, <1>3, <2>3, <2>7, <2>8
<1> QED
  BY <1>2, <1>3 DEF BlockDelta

LEMMA LinesAreNat == \A n \in 0 .. MaxLines : n \in Nat
BY StreamAssumption

LEMMA KeepAliveWrites ==
  ASSUME StreamTypeOK, KeepAlive
  PROVE  /\ Writes /\ Bare(frame') /\ ~frame'.finish /\ frame'.usage = NoUsage
         /\ frame'.type \in {"", "ping"} /\ frame'.payload \in {"json", "junk"}
         /\ phase # "closed" /\ phase' = phase /\ block' = block /\ billed' = billed /\ cut' = cut
<1>1. PICK t \in {"", "ping"}, p \in {"json", "junk"}, n \in 0 .. MaxLines :
        frame' = [Plain EXCEPT !.type = t, !.payload = p, !.lines = n]
  BY DEF KeepAlive
<1> DEFINE f == [Plain EXCEPT !.type = t, !.payload = p, !.lines = n]
<1>2. n \in Nat
  BY LinesAreNat, Zenon
<1>3. f \in FrameSet
  BY <1>1, <1>2, PlainTyped, Zenon DEF FrameSet, FrameTypes
<1>4. /\ f.type = t /\ f.payload = p /\ ~f.reasoning /\ ~f.text /\ f.tools = <<>>
      /\ ~f.finish /\ f.usage = NoUsage /\ f.lines = n
  BY Zenon DEF Plain
<1>5. frame' = f
  BY <1>1
<1> HIDE DEF f
<1>6. Bare(frame') /\ Pieces(frame') = <<>>
  BY <1>3, <1>4, <1>5, BarePieces DEF Bare
<1>7. sent \in Seq(PieceSet) /\ sent' = sent
  BY DEF KeepAlive, serverVars, StreamTypeOK
<1>8. sent' = sent \o Pieces(frame') /\ sent' \in Seq(PieceSet)
  BY <1>6, <1>7, ConcatEmptySeq
<1>9. /\ status = "streaming" /\ frame = NoFrame /\ ~cut /\ phase # "closed"
      /\ adapter' = adapter /\ named' = named /\ part' = part
      /\ eventType' = eventType /\ dataParts' = dataParts
      /\ toolState' = toolState /\ current' = current /\ inputTokens' = inputTokens
      /\ content' = content /\ done' = done /\ reported' = reported
      /\ status' = status
      /\ phase' = phase /\ block' = block /\ billed' = billed /\ cut' = cut
  BY DEF KeepAlive, serverVars, decoderVars, parserVars
<1>10. frame' \in FrameSet /\ frame'.lines \in Nat /\ frame'.payload # "none"
  BY <1>2, <1>3, <1>4, <1>5
<1> QED
  BY <1>4, <1>5, <1>6, <1>8, <1>9, <1>10 DEF Writes

-----------------------------------------------------------------------------
(* The tool state of OpenAI.                                                *)

CallOrNone == Calls \cup {NoCall}
Idents == [id : CallOrNone, name : CallOrNone]

LEMMA FragmentFields ==
  ASSUME NEW tools \in Seq(Fragments), NEW k \in DOMAIN tools
  PROVE  /\ tools[k].index \in Calls
         /\ tools[k].id \in {NoCall, tools[k].index}
         /\ tools[k].name \in {NoCall, tools[k].index}
<1>1. tools[k] \in Fragments
  OBVIOUS
<1> QED
  BY <1>1, SMT DEF Fragments

(* What a chunk says of a call, taken from the last fragment that says it.  *)
LEMMA LastSays ==
  ASSUME NEW tools \in Seq(Fragments), NEW c \in Calls, NEW k \in 0 .. Len(tools)
  PROVE  /\ LET S == {j \in 1 .. k : tools[j].index = c /\ tools[j].id # NoCall}
            IN  S # {} => tools[CHOOSE j \in S : \A i \in S : i <= j].id = c
         /\ LET S == {j \in 1 .. k : tools[j].index = c /\ tools[j].name # NoCall}
            IN  S # {} => tools[CHOOSE j \in S : \A i \in S : i <= j].name = c
<1>1. k \in Nat /\ 1 .. k \subseteq DOMAIN tools
  OBVIOUS
<1> DEFINE I == {j \in 1 .. k : tools[j].index = c /\ tools[j].id # NoCall}
           N == {j \in 1 .. k : tools[j].index = c /\ tools[j].name # NoCall}
<1>2. ASSUME I # {}
      PROVE  tools[CHOOSE j \in I : \A i \in I : i <= j].id = c
  <2> DEFINE l == CHOOSE j \in I : \A i \in I : i <= j
  <2>1. \E j \in I : \A i \in I : i <= j
    BY <1>1, <1>2, NatMax
  <2>2. l \in I
    BY <2>1, Zenon
  <2> HIDE DEF l
  <2>3. l \in DOMAIN tools /\ tools[l].index = c /\ tools[l].id # NoCall
    BY <1>1, <2>2
  <2>4. tools[l].id = c
    BY <2>3, FragmentFields
  <2> QED
    BY <2>4 DEF l
<1>3. ASSUME N # {}
      PROVE  tools[CHOOSE j \in N : \A i \in N : i <= j].name = c
  <2> DEFINE l == CHOOSE j \in N : \A i \in N : i <= j
  <2>1. \E j \in N : \A i \in N : i <= j
    BY <1>1, <1>3, NatMax
  <2>2. l \in N
    BY <2>1, Zenon
  <2> HIDE DEF l
  <2>3. l \in DOMAIN tools /\ tools[l].index = c /\ tools[l].name # NoCall
    BY <1>1, <2>2
  <2>4. tools[l].name = c
    BY <2>3, FragmentFields
  <2> QED
    BY <2>4 DEF l
<1> QED
  BY <1>2, <1>3

LEMMA StateSays ==
  ASSUME toolState \in [Calls -> Idents],
         NEW tools \in Seq(Fragments), NEW c \in Calls, NEW k \in 0 .. Len(tools)
  PROVE  /\ StateAfter(c, tools, k) = [id |-> StateAfter(c, tools, k).id,
                                       name |-> StateAfter(c, tools, k).name]
         /\ StateAfter(c, tools, k).id =
              IF \E j \in 1 .. k : tools[j].index = c /\ tools[j].id # NoCall
              THEN c ELSE toolState[c].id
         /\ StateAfter(c, tools, k).name =
              IF \E j \in 1 .. k : tools[j].index = c /\ tools[j].name # NoCall
              THEN c ELSE toolState[c].name
<1> DEFINE I == {j \in 1 .. k : tools[j].index = c /\ tools[j].id # NoCall}
           N == {j \in 1 .. k : tools[j].index = c /\ tools[j].name # NoCall}
           id == IF I = {} THEN toolState[c].id
                 ELSE tools[CHOOSE j \in I : \A i \in I : i <= j].id
           name == IF N = {} THEN toolState[c].name
                   ELSE tools[CHOOSE j \in N : \A i \in N : i <= j].name
<1>1. StateAfter(c, tools, k) = [id |-> id, name |-> name]
  BY Zenon DEF StateAfter
<1>2. I # {} => id = c
  BY LastSays, ZenonT(40)
<1>3. N # {} => name = c
  BY LastSays, ZenonT(40)
<1>4. I = {} => id = toolState[c].id
  OBVIOUS
<1>5. N = {} => name = toolState[c].name
  OBVIOUS
<1>6. I # {} <=> \E j \in 1 .. k : tools[j].index = c /\ tools[j].id # NoCall
  BY Zenon
<1>7. N # {} <=> \E j \in 1 .. k : tools[j].index = c /\ tools[j].name # NoCall
  BY Zenon
<1> HIDE DEF id, name, I, N
<1>8. StateAfter(c, tools, k).id = id /\ StateAfter(c, tools, k).name = name
  BY <1>1
<1> QED
  BY <1>1, <1>2, <1>3, <1>4, <1>5, <1>6, <1>7, <1>8, Zenon

LEMMA StateTyped ==
  ASSUME toolState \in [Calls -> Idents],
         NEW tools \in Seq(Fragments), NEW c \in Calls, NEW k \in 0 .. Len(tools)
  PROVE  StateAfter(c, tools, k) \in Idents
<1>1. toolState[c].id \in CallOrNone /\ toolState[c].name \in CallOrNone
  BY DEF Idents
<1>2. /\ StateAfter(c, tools, k).id \in {c, toolState[c].id}
      /\ StateAfter(c, tools, k).name \in {c, toolState[c].name}
      /\ StateAfter(c, tools, k) = [id |-> StateAfter(c, tools, k).id,
                                    name |-> StateAfter(c, tools, k).name]
  BY StateSays, Zenon
<1>3. StateAfter(c, tools, k).id \in CallOrNone /\ StateAfter(c, tools, k).name \in CallOrNone
  BY <1>1, <1>2 DEF CallOrNone
<1> QED
  BY <1>2, <1>3 DEF Idents

(* A call the parser knows, or hears of in the chunk, has its id and name.  *)
LEMMA StateNamed ==
  ASSUME toolState \in [Calls -> Idents],
         NEW tools \in Seq(Fragments), NEW c \in Calls, NEW k \in 0 .. Len(tools),
         \/ toolState[c] = Named(c)
         \/ \E j \in 1 .. k : tools[j].index = c /\ tools[j].id = c /\ tools[j].name = c
  PROVE  StateAfter(c, tools, k) = Named(c)
<1>1. c # NoCall
  BY StreamAssumption
<1>2. StateAfter(c, tools, k).id = c /\ StateAfter(c, tools, k).name = c
  <2>1. CASE toolState[c] = Named(c)
    <3>1. toolState[c].id = c /\ toolState[c].name = c
      BY <2>1 DEF Named
    <3> QED
      BY <3>1, StateSays, Zenon
  <2>2. CASE \E j \in 1 .. k : tools[j].index = c /\ tools[j].id = c /\ tools[j].name = c
    BY <1>1, <2>2, StateSays, Zenon
  <2> QED
    BY <2>1, <2>2
<1>3. StateAfter(c, tools, k) = [id |-> StateAfter(c, tools, k).id,
                                 name |-> StateAfter(c, tools, k).name]
  BY StateSays, Zenon
<1> QED
  BY <1>2, <1>3 DEF Named

(* The first fragment of a call that was not told of tells of it.           *)
LEMMA FirstTells ==
  ASSUME NEW s, NEW tools \in Seq(Fragments), Telling(s, tools),
         NEW k \in DOMAIN tools, ~Told(s, tools[k].index)
  PROVE  \E j \in 1 .. k : /\ tools[j].index = tools[k].index
                           /\ tools[j].id = tools[k].index /\ tools[j].name = tools[k].index
<1> DEFINE c == tools[k].index
           S == {j \in 1 .. k : tools[j].index = c}
<1>1. DOMAIN tools = 1 .. Len(tools) /\ Len(tools) \in Nat /\ k \in Nat
  OBVIOUS
<1>2. S \in SUBSET Nat /\ k \in S
  BY <1>1
<1>3. PICK n \in S : \A m \in S : n <= m
  BY <1>2, NatMin
<1>4. n \in 1 .. k /\ n \in DOMAIN tools /\ tools[n].index = c
  BY <1>1
<1>5. ~\E j \in 1 .. n - 1 : tools[j].index = tools[n].index
  <2> SUFFICES ASSUME NEW j \in 1 .. n - 1, tools[j].index = tools[n].index
               PROVE  FALSE
    OBVIOUS
  <2>1. j \in S /\ j < n
    BY <1>1, <1>4
  <2> QED
    BY <1>1, <1>3, <1>4, <2>1
<1>6. tools[n].id = tools[n].index /\ tools[n].name = tools[n].index
  BY <1>4, <1>5, Zenon DEF Telling
<1> QED
  BY <1>4, <1>6

-----------------------------------------------------------------------------
(* What the parsers give for a frame.                                       *)

LEMMA ToldConcat ==
  ASSUME NEW s \in Seq(PieceSet), NEW t \in Seq(PieceSet), NEW c, Told(s \o t, c)
  PROVE  Told(s, c) \/ Told(t, c)
<1>1. PICK k \in 1 .. Len(s) + Len(t) : (s \o t)[k].id = c
  BY ConcatProperties DEF Told
<1>2. CASE k <= Len(s)
  BY <1>1, <1>2, ConcatProperties DEF Told
<1>3. CASE k > Len(s)
  <2>1. (s \o t)[k] = t[k - Len(s)] /\ k - Len(s) \in DOMAIN t
    BY <1>1, <1>3, ConcatProperties
  <2> QED
    BY <1>1, <2>1 DEF Told
<1> QED
  BY <1>1, <1>2, <1>3

LEMMA ToldMore ==
  ASSUME NEW s \in Seq(PieceSet), NEW t \in Seq(PieceSet), NEW c, Told(s, c)
  PROVE  Told(s \o t, c)
<1>1. PICK k \in 1 .. Len(s) : s[k].id = c
  BY DEF Told
<1>2. (s \o t)[k] = s[k] /\ k \in DOMAIN (s \o t)
  BY <1>1, ConcatProperties
<1> QED
  BY <1>1, <1>2 DEF Told

LEMMA PiecesTell ==
  ASSUME NEW f \in FrameSet, NEW c \in Calls, Told(Pieces(f), c)
  PROVE  \E k \in DOMAIN f.tools : f.tools[k].index = c
<1> DEFINE tools == [k \in DOMAIN f.tools |-> Piece("tool", f.tools[k].index, f.tools[k].index)]
           a == If(f.reasoning, "reasoning")
           b == If(f.text, "text")
<1>1. c # NoCall
  BY StreamAssumption
<1>2. ~Told(a, c)
  BY <1>1, SMT DEF Told, If, Piece
<1>3. ~Told(b, c)
  BY <1>1, SMT DEF Told, If, Piece
<1>4. a \in Seq(PieceSet) /\ b \in Seq(PieceSet)
  BY FrameFields, IfTyped
<1>5. Pieces(f) = (a \o b) \o tools
  BY DEF Pieces
<1>6. \A k \in DOMAIN f.tools : tools[k].id = f.tools[k].index
  BY SMT DEF Piece
<1>7. DOMAIN tools = DOMAIN f.tools
  OBVIOUS
<1>8. tools \in Seq(PieceSet)
  <2>1. f.tools \in Seq(Fragments)
    BY FrameFields
  <2>2. Len(f.tools) \in Nat /\ DOMAIN f.tools = 1 .. Len(f.tools)
    BY <2>1
  <2>3. \A k \in 1 .. Len(f.tools) : Piece("tool", f.tools[k].index, f.tools[k].index) \in PieceSet
    <3> SUFFICES ASSUME NEW k \in 1 .. Len(f.tools)
                 PROVE  Piece("tool", f.tools[k].index, f.tools[k].index) \in PieceSet
      OBVIOUS
    <3>1. f.tools[k].index \in Calls
      BY <2>1, <2>2, FragmentFields
    <3> QED
      BY <3>1, SMT DEF Piece, PieceSet
  <2> QED
    BY <2>2, <2>3, IsASeq
<1> HIDE DEF tools, a, b
<1>9. Told(tools, c)
  <2>1. a \o b \in Seq(PieceSet)
    BY <1>4, ConcatProperties
  <2>2. ~Told(a \o b, c)
    BY <1>2, <1>3, <1>4, ToldConcat
  <2>3. Told((a \o b) \o tools, c)
    BY <1>5, Zenon
  <2> HIDE DEF tools, a, b
  <2> QED
    BY <1>8, <2>1, <2>2, <2>3, ToldConcat
<1> QED
  BY <1>6, <1>7, <1>9 DEF Told

LEMMA ToolEventsTyped ==
  ASSUME toolState \in [Calls -> Idents], NEW tools \in Seq(Fragments)
  PROVE  ToolEvents(tools) \in Seq(PieceSet)
<1>1. Len(tools) \in Nat /\ DOMAIN tools = 1 .. Len(tools)
  OBVIOUS
<1> DEFINE e(k) == Piece("tool", StateAfter(tools[k].index, tools, k).id,
                                 StateAfter(tools[k].index, tools, k).name)
<1>2. \A k \in 1 .. Len(tools) : e(k) \in PieceSet
  <2> SUFFICES ASSUME NEW k \in 1 .. Len(tools)
               PROVE  e(k) \in PieceSet
    OBVIOUS
  <2>1. tools[k].index \in Calls /\ k \in 0 .. Len(tools)
    BY <1>1, FragmentFields
  <2>2. StateAfter(tools[k].index, tools, k) \in Idents
    BY <2>1, StateTyped
  <2>3. /\ StateAfter(tools[k].index, tools, k).id \in Calls \cup {NoCall}
        /\ StateAfter(tools[k].index, tools, k).name \in Calls \cup {NoCall}
    BY <2>2 DEF Idents, CallOrNone
  <2> QED
    BY <2>3, SMT DEF Piece, PieceSet
<1>3. ToolEvents(tools) = [k \in 1 .. Len(tools) |-> e(k)]
  BY <1>1, Zenon DEF ToolEvents
<1> HIDE DEF e
<1> QED
  BY <1>1, <1>2, <1>3, IsASeq

LEMMA EventsTyped ==
  ASSUME toolState \in [Calls -> Idents], NEW f \in FrameSet
  PROVE  EventsFromDelta(f) \in Seq(PieceSet)
<1>1. f.tools \in Seq(Fragments) /\ f.text \in BOOLEAN /\ f.reasoning \in BOOLEAN
  BY FrameFields
<1>2. ToolEvents(f.tools) \in Seq(PieceSet)
  BY <1>1, ToolEventsTyped
<1>3. If(f.reasoning, "reasoning") \in Seq(PieceSet) /\ If(f.text, "text") \in Seq(PieceSet)
  BY <1>1, IfTyped
<1>4. OpenAIEvents(f) \in Seq(PieceSet)
  BY <1>2, <1>3, ConcatProperties DEF OpenAIEvents
<1>5. If(f.reasoning, "reasoning") \o If(f.text, "text") \in Seq(PieceSet)
  BY <1>3, ConcatProperties
<1>6. MoonshotEvents(f) \in Seq(PieceSet)
  BY <1>2, <1>5, ConcatProperties DEF MoonshotEvents
<1> QED
  BY <1>4, <1>6 DEF EventsFromDelta

(* OpenAI: the fragments of a chunk are given with the ids of their calls.  *)
LEMMA EventsArePieces ==
  ASSUME toolState \in [Calls -> Idents], NEW f \in FrameSet,
         f.reasoning => adapter = "moonshot",
         \A c \in Calls : Told(content, c) => toolState[c] = Named(c),
         Telling(content, f.tools)
  PROVE  EventsFromDelta(f) = Pieces(f)
<1> DEFINE tools == [k \in DOMAIN f.tools |-> Piece("tool", f.tools[k].index, f.tools[k].index)]
<1>1. f.tools \in Seq(Fragments) /\ f.text \in BOOLEAN
  BY FrameFields
<1>2. \A k \in DOMAIN f.tools :
        StateAfter(f.tools[k].index, f.tools, k) = Named(f.tools[k].index)
  <2> SUFFICES ASSUME NEW k \in DOMAIN f.tools
               PROVE  StateAfter(f.tools[k].index, f.tools, k) = Named(f.tools[k].index)
    OBVIOUS
  <2>1. f.tools[k].index \in Calls /\ k \in 0 .. Len(f.tools)
    BY <1>1, FragmentFields
  <2>2. \/ toolState[f.tools[k].index] = Named(f.tools[k].index)
        \/ \E j \in 1 .. k : /\ f.tools[j].index = f.tools[k].index
                             /\ f.tools[j].id = f.tools[k].index
                             /\ f.tools[j].name = f.tools[k].index
    BY <1>1, <2>1, FirstTells
  <2> QED
    BY <1>1, <2>1, <2>2, StateNamed
<1>3. \A k \in DOMAIN f.tools :
        Piece("tool", StateAfter(f.tools[k].index, f.tools, k).id,
                      StateAfter(f.tools[k].index, f.tools, k).name)
          = Piece("tool", f.tools[k].index, f.tools[k].index)
  <2>1. \A c : Named(c).id = c /\ Named(c).name = c
    BY DEF Named
  <2> QED
    BY <1>2, <2>1, Zenon
<1>4. ToolEvents(f.tools) = tools
  BY <1>3, Zenon DEF ToolEvents
<1>5. tools \in Seq(PieceSet)
  <2>1. toolState \in [Calls -> Idents]
    OBVIOUS
  <2> QED
    BY <1>1, <1>4, <2>1, ToolEventsTyped
<1> HIDE DEF tools
<1>6. If(f.text, "text") \in Seq(PieceSet)
  BY <1>1, IfTyped
<1>7. Pieces(f) = If(f.reasoning, "reasoning") \o If(f.text, "text") \o tools
  BY DEF Pieces, tools
<1>8. CASE adapter = "moonshot"
  BY <1>4, <1>7, <1>8 DEF EventsFromDelta, MoonshotEvents
<1>9. CASE adapter # "moonshot"
  <2>1. If(f.reasoning, "reasoning") = <<>>
    BY <1>9 DEF If
  <2>2. <<>> \o If(f.text, "text") = If(f.text, "text")
    BY <1>6, ConcatEmptySeq
  <2> QED
    BY <1>4, <1>7, <1>9, <2>1, <2>2 DEF EventsFromDelta, OpenAIEvents
<1> QED
  BY <1>8, <1>9

LEMMA ToldAfterChunk ==
  ASSUME toolState \in [Calls -> Idents], content \in Seq(PieceSet), NEW f \in FrameSet,
         \A c \in Calls : Told(content, c) => toolState[c] = Named(c),
         Telling(content, f.tools),
         NEW c \in Calls, Told(content \o Pieces(f), c)
  PROVE  StateAfter(c, f.tools, Len(f.tools)) = Named(c)
<1>1. f.tools \in Seq(Fragments) /\ Pieces(f) \in Seq(PieceSet)
  BY FrameFields, PiecesTyped
<1>2. Len(f.tools) \in 0 .. Len(f.tools)
  BY <1>1
<1>3. Told(content, c) \/ \E k \in DOMAIN f.tools : f.tools[k].index = c
  BY <1>1, ToldConcat, PiecesTell
<1>4. CASE Told(content, c)
  BY <1>1, <1>2, <1>4, StateNamed
<1>5. CASE ~Told(content, c)
  <2>1. PICK k \in DOMAIN f.tools : f.tools[k].index = c
    BY <1>3, <1>5
  <2>2. \E j \in 1 .. k : f.tools[j].index = c /\ f.tools[j].id = c /\ f.tools[j].name = c
    BY <1>1, <1>5, <2>1, FirstTells
  <2>3. \E j \in 1 .. Len(f.tools) :
          f.tools[j].index = c /\ f.tools[j].id = c /\ f.tools[j].name = c
    BY <1>1, <2>1, <2>2
  <2> QED
    BY <1>1, <1>2, <2>3, StateNamed
<1> QED
  BY <1>4, <1>5

(* Anthropic: the fragment of a block delta belongs to the open block.      *)
LEMMA DeltasArePieces ==
  ASSUME NEW f \in FrameSet, ~f.reasoning,
         eventType = f.type \/ (f.type = "" /\ eventType \in {"", "ping"}),
         ~Bare(f) => f.type = "content_block_delta",
         f.tools # <<>> =>
           /\ Len(f.tools) = 1
           /\ current.id = f.tools[1].index /\ current.name = f.tools[1].index
  PROVE  DeltaEvents(f) = Pieces(f)
<1> DEFINE tools == [k \in DOMAIN f.tools |-> Piece("tool", f.tools[k].index, f.tools[k].index)]
           given == [k \in DOMAIN f.tools |-> Piece("tool", current.id, current.name)]
<1>1. f.tools \in Seq(Fragments) /\ f.text \in BOOLEAN
  BY FrameFields
<1>2. given = tools
  <2>1. CASE f.tools = <<>>
    <3>1. \A k \in DOMAIN f.tools : FALSE
      BY <2>1, EmptyDomain, Zenon
    <3> QED
      BY <3>1, Zenon
  <2>2. CASE f.tools # <<>>
    <3>1. DOMAIN f.tools = {1}
      BY <1>1, <2>2, SingleDomain
    <3>2. current.id = f.tools[1].index /\ current.name = f.tools[1].index
      BY <2>2
    <3>3. \A k \in DOMAIN f.tools :
            Piece("tool", current.id, current.name)
              = Piece("tool", f.tools[k].index, f.tools[k].index)
      BY <3>1, <3>2, Zenon
    <3> QED
      BY <3>3, Zenon
  <2> QED
    BY <2>1, <2>2
<1>3. CASE Bare(f)
  <2>1. Pieces(f) = <<>>
    BY <1>3, BarePieces
  <2>2. If(f.text, "text") = <<>>
    BY <1>3 DEF If, Bare
  <2>3. given = <<>>
    BY <1>2, <1>3, BareTools
  <2> HIDE DEF given
  <2>4. <<>> \o given = <<>>
    BY <2>3, EmptyConcat, Zenon
  <2> QED
    BY <2>1, <2>2, <2>4 DEF DeltaEvents, given
<1>4. CASE ~Bare(f)
  <2>1. eventType = "content_block_delta"
    BY <1>4
  <2>2. If(f.reasoning, "reasoning") = <<>>
    BY DEF If
  <2>3. If(f.text, "text") \in Seq(PieceSet)
    BY <1>1, IfTyped
  <2>4. <<>> \o If(f.text, "text") = If(f.text, "text")
    BY <2>3, ConcatEmptySeq
  <2>5. Pieces(f) = (If(f.reasoning, "reasoning") \o If(f.text, "text")) \o tools
    BY DEF Pieces
  <2>6. DeltaEvents(f) = If(f.text, "text") \o given
    BY <2>1 DEF DeltaEvents
  <2> HIDE DEF given, tools
  <2> QED
    BY <1>2, <2>2, <2>4, <2>5, <2>6
<1> QED
  BY <1>3, <1>4

LEMMA DeltasTyped ==
  ASSUME current \in Idents, NEW f \in FrameSet
  PROVE  DeltaEvents(f) \in Seq(PieceSet)
<1> DEFINE given == [k \in DOMAIN f.tools |-> Piece("tool", current.id, current.name)]
<1>1. f.tools \in Seq(Fragments) /\ f.text \in BOOLEAN
  BY FrameFields
<1>2. Len(f.tools) \in Nat /\ DOMAIN f.tools = 1 .. Len(f.tools)
  BY <1>1
<1>3. Piece("tool", current.id, current.name) \in PieceSet
  BY SMT DEF Piece, PieceSet, Idents, CallOrNone
<1>4. given \in Seq(PieceSet)
  BY <1>2, <1>3, IsASeq
<1>5. If(f.text, "text") \in Seq(PieceSet)
  BY <1>1, IfTyped
<1>6. DeltaEvents(f) = IF eventType # "content_block_delta" THEN <<>> ELSE If(f.text, "text") \o given
  BY DEF DeltaEvents
<1> HIDE DEF given
<1> QED
  BY <1>4, <1>5, <1>6, ConcatProperties

LEMMA JunkTyped == Junk \in FrameSet /\ Junk.payload = "junk"
<1>1. Junk \in FrameSet
  BY PlainTyped, Zenon DEF Junk, FrameSet
<1>2. Junk.payload = "junk"
  BY Zenon DEF Junk, Plain
<1> QED
  BY <1>1, <1>2

(* The data of an event are those of the frame, whole or cut off.           *)
LEMMA LoadedFrame ==
  ASSUME StreamTypeOK, Framing, Dispatches
  PROVE  /\ frame # NoFrame /\ part > 0
         /\ part = frame.lines => Loaded = frame
         /\ part # frame.lines => Loaded = Junk
<1> DEFINE line(k) == [of |-> frame, part |-> k]
<1>1. part \in Nat /\ frame.lines \in Nat
  BY FrameFields DEF StreamTypeOK
<1>2. dataParts = [k \in 1 .. part |-> line(k)] /\ dataParts # <<>>
  BY DEF Framing, Dispatches
<1>3. \A k : line(k).of = frame
  OBVIOUS
<1> HIDE DEF line
<1>4. part > 0
  BY <1>1, <1>2
<1>11. frame = NoFrame => part = 0
  BY Zenon DEF Framing
<1>5. frame # NoFrame
  BY <1>4, <1>11
<1>6. dataParts[1] = line(1)
  BY <1>1, <1>2, <1>4
<1>7. dataParts[1].of = frame
  BY <1>3, <1>6
<1>8. Loaded = IF dataParts = [k \in 1 .. frame.lines |-> line(k)] THEN frame ELSE Junk
  BY <1>7, Zenon DEF Loaded, line
<1>9. part = frame.lines => dataParts = [k \in 1 .. frame.lines |-> line(k)]
  BY <1>2
<1>10. ASSUME dataParts = [k \in 1 .. frame.lines |-> line(k)]
       PROVE  part = frame.lines
  <2>1. DOMAIN dataParts = 1 .. part
    BY <1>2, Zenon
  <2>2. DOMAIN dataParts = 1 .. frame.lines
    BY <1>10, Zenon
  <2> QED
    BY <1>1, <1>4, <2>1, <2>2
<1> QED
  BY <1>4, <1>5, <1>8, <1>9, <1>10

LEMMA SplitTyped == \A u \in UsageSet : SplitUsage(u) \in UsageSet
<1> SUFFICES ASSUME NEW u \in UsageSet
             PROVE  SplitUsage(u) \in UsageSet
  OBVIOUS
<1> DEFINE n == IF u.out >= u.reasoning THEN u.out - u.reasoning ELSE 0
<1>1. u.out \in Nat /\ u.reasoning \in Nat \cup {-1}
  BY DEF UsageSet
<1>2. n \in Nat
  BY <1>1
<1>3. SplitUsage(u) = [u EXCEPT !.out = n]
  BY DEF SplitUsage
<1> HIDE DEF n
<1> QED
  BY <1>2, <1>3, Zenon DEF UsageSet

LEMMA ParseTyped ==
  ASSUME StreamTypeOK, NEW f \in FrameSet, Parse(f)
  PROVE  /\ content' \in Seq(PieceSet) /\ toolState' \in [Calls -> Idents] /\ current' \in Idents
         /\ inputTokens' \in Nat /\ done' \in Nat /\ reported' \in UsageSet
<1>1. /\ content \in Seq(PieceSet) /\ toolState \in [Calls -> Idents] /\ current \in Idents
      /\ inputTokens \in Nat /\ done \in Nat /\ reported \in UsageSet
  BY DEF StreamTypeOK, Idents, CallOrNone
<1>2. f.tools \in Seq(Fragments) /\ f.block \in CallOrNone /\ f.usage \in UsageSet /\ f.finish \in BOOLEAN
  BY FrameFields DEF CallOrNone
<1>3. f.usage.in \in Nat /\ f.usage.out \in Nat
  BY <1>2 DEF UsageSet
<1>4. CASE UNCHANGED parserVars
  BY <1>1, <1>4 DEF parserVars
<1>5. CASE OpenAIReads(f)
  <2>1. content' \in Seq(PieceSet)
    BY <1>1, <1>5, EventsTyped, ConcatProperties DEF OpenAIReads
  <2>2. Len(f.tools) \in 0 .. Len(f.tools)
    BY <1>2
  <2>3. \A c \in Calls : StateAfter(c, f.tools, Len(f.tools)) \in Idents
    BY <1>1, <1>2, <2>2, StateTyped
  <2>4. toolState' \in [Calls -> Idents]
    BY <1>5, <2>3, Zenon DEF OpenAIReads
  <2>5. done' \in Nat
    BY <1>1, <1>5 DEF OpenAIReads
  <2>6. reported' \in UsageSet
    BY <1>1, <1>2, <1>5, SplitTyped DEF OpenAIReads
  <2> QED
    BY <1>1, <1>5, <2>1, <2>4, <2>5, <2>6 DEF OpenAIReads
<1>6. CASE AnthropicReads(f)
  <2>1. content' \in Seq(PieceSet)
    BY <1>1, <1>6, DeltasTyped, ConcatProperties DEF AnthropicReads
  <2>2. current' \in Idents
    BY <1>1, <1>2, <1>6 DEF AnthropicReads, CurrentAfter, Unknown, Idents, CallOrNone
  <2>3. inputTokens' \in Nat /\ done' \in Nat
    BY <1>1, <1>3, <1>6 DEF AnthropicReads
  <2>4. reported' \in UsageSet
    <3>1. [in |-> inputTokens, out |-> f.usage.out, reasoning |-> 0] \in UsageSet
      BY <1>1, <1>3 DEF UsageSet
    <3>2. reported' = [in |-> inputTokens, out |-> f.usage.out, reasoning |-> 0]
          \/ reported' = reported
      BY <1>6 DEF AnthropicReads
    <3> QED
      BY <1>1, <3>1, <3>2
  <2> QED
    BY <1>1, <1>6, <2>1, <2>2, <2>3, <2>4 DEF AnthropicReads
<1> QED
  BY <1>4, <1>5, <1>6 DEF Parse

-----------------------------------------------------------------------------
(* Types.                                                                   *)

(* The parts of the type invariant that change together.                    *)
ServerTypes ==
  /\ sent \in Seq(PieceSet)
  /\ phase \in {"opening", "open", "finished", "closed"}
  /\ block \in Seq(Calls \cup {NoCall}) /\ Len(block) <= 1
  /\ billed \in UsageSet
  /\ cut \in BOOLEAN
LineTypes ==
  /\ frame \in FrameSet /\ named \in BOOLEAN /\ part \in Nat
  /\ eventType \in FrameTypes /\ dataParts \in Seq([of : FrameSet, part : Nat])
ParserTypes ==
  /\ content \in Seq(PieceSet) /\ toolState \in [Calls -> Idents] /\ current \in Idents
  /\ inputTokens \in Nat /\ done \in Nat /\ reported \in UsageSet
StatusTypes ==
  /\ adapter \in Adapters
  /\ status \in {"idle", "streaming", "returned", "raised", "abandoned"}

LEMMA TypeParts == StreamTypeOK <=> ServerTypes /\ LineTypes /\ ParserTypes /\ StatusTypes
BY Zenon DEF StreamTypeOK, ServerTypes, LineTypes, ParserTypes, StatusTypes, Idents, CallOrNone

LEMMA TypePartsNext ==
  ServerTypes' /\ LineTypes' /\ ParserTypes' /\ StatusTypes' => StreamTypeOK'
BY Zenon DEF StreamTypeOK, ServerTypes, LineTypes, ParserTypes, StatusTypes, Idents, CallOrNone

LEMMA NoFrameTyped == NoFrame \in FrameSet /\ Unknown \in Idents
<1>1. NoFrame \in FrameSet
  BY PlainTyped, Zenon DEF NoFrame, FrameSet
<1>2. Unknown \in Idents
  BY DEF Unknown, Idents, CallOrNone
<1> QED
  BY <1>1, <1>2

LEMMA NameTyped == "" \in FrameTypes
BY DEF FrameTypes

LEMMA TypeTyped ==
  ASSUME NEW f \in FrameSet
  PROVE  f.type \in FrameTypes
BY Zenon DEF FrameSet

LEMMA FirstTyped ==
  ASSUME NEW S, NEW s \in Seq(S), s # <<>>
  PROVE  s[1] \in S
OBVIOUS

LEMMA EmptyTyped == (\A S : <<>> \in Seq(S)) /\ Len(<<>>) <= 1
OBVIOUS

LEMMA LoadedTyped ==
  ASSUME StreamTypeOK, Dispatches
  PROVE  Loaded \in FrameSet
<1>1. dataParts \in Seq([of : FrameSet, part : Nat]) /\ dataParts # <<>>
  BY DEF StreamTypeOK, Dispatches
<1>2. dataParts[1] \in [of : FrameSet, part : Nat]
  BY <1>1, FirstTyped
<1>3. dataParts[1].of \in FrameSet
  BY <1>2
<1> QED
  BY <1>3, JunkTyped, Zenon DEF Loaded

LEMMA InitTyped == StreamInit => StreamTypeOK
<1> SUFFICES ASSUME StreamInit
             PROVE  ServerTypes /\ LineTypes /\ ParserTypes /\ StatusTypes
  BY TypeParts
<1>1. ServerTypes
  BY PlainTyped, EmptyTyped, Zenon DEF StreamInit, ServerTypes
<1>2. LineTypes
  <2>1. 0 \in Nat /\ "" \in FrameTypes
    BY NameTyped
  <2> QED
    BY <2>1, NoFrameTyped, EmptyTyped, Zenon DEF StreamInit, LineTypes, DecoderInit
<1>3. ParserTypes
  BY NoFrameTyped, PlainTyped DEF StreamInit, ParserTypes
<1>4. StatusTypes
  BY DEF StreamInit, StatusTypes
<1> QED
  BY <1>1, <1>2, <1>3, <1>4

LEMMA WritesTyped ==
  ASSUME StreamTypeOK, Writes,
         phase' \in {"opening", "open", "finished", "closed"},
         block' \in Seq(Calls \cup {NoCall}), Len(block') <= 1,
         billed' \in UsageSet, cut' \in BOOLEAN
  PROVE  StreamTypeOK'
<1>1. ServerTypes'
  BY DEF Writes, ServerTypes
<1>2. LineTypes'
  BY TypeParts DEF Writes, LineTypes
<1>3. ParserTypes'
  BY TypeParts DEF Writes, ParserTypes
<1>4. StatusTypes'
  BY TypeParts DEF Writes, StatusTypes
<1> QED
  BY <1>1, <1>2, <1>3, <1>4, TypePartsNext

LEMMA ServerTyped ==
  ASSUME StreamTypeOK, Server
  PROVE  Writes /\ StreamTypeOK'
<1>1. ServerTypes
  BY TypeParts
<1>2. CASE Chunk
  <2>1. /\ Writes /\ phase' \in {"opening", "open", "finished", "closed"}
        /\ block' = block /\ cut' = cut /\ billed' = frame'.usage
    BY <1>1, <1>2, ChunkWrites DEF ServerTypes
  <2>2. billed' \in UsageSet
    BY <2>1, FrameFields DEF Writes
  <2> QED
    BY <1>1, <2>1, <2>2, WritesTyped DEF ServerTypes
<1>3. ASSUME NEW u \in Usages, UsageChunk(u)
      PROVE  Writes /\ StreamTypeOK'
  <2>1. Writes /\ phase' = phase /\ block' = block /\ cut' = cut /\ billed' = u
    BY <1>3, UsageChunkWrites
  <2>2. u \in UsageSet
    BY UsagesTyped
  <2> QED
    BY <1>1, <2>1, <2>2, WritesTyped DEF ServerTypes
<1>4. ASSUME NEW u \in Usages, MessageStart(u)
      PROVE  Writes /\ StreamTypeOK'
  <2>1. /\ Writes /\ phase' = "open" /\ block' = block /\ cut' = cut
        /\ billed' = [u EXCEPT !.out = 0, !.reasoning = 0]
    BY <1>4, MessageStartWrites
  <2>2. u \in UsageSet /\ 0 \in Nat /\ 0 \in Nat \cup {-1}
    BY UsagesTyped
  <2>3. [u EXCEPT !.out = 0, !.reasoning = 0] \in UsageSet
    BY <2>2, Zenon DEF UsageSet
  <2> QED
    BY <1>1, <2>1, <2>3, WritesTyped DEF ServerTypes
<1>5. ASSUME NEW u \in Usages, NEW finish \in BOOLEAN, MessageDelta(u, finish)
      PROVE  Writes /\ StreamTypeOK'
  <2>1. /\ Writes /\ phase' = (IF finish THEN "finished" ELSE phase)
        /\ block' = block /\ cut' = cut /\ billed' = [billed EXCEPT !.out = u.out]
    BY <1>5, MessageDeltaWrites
  <2>2. u \in UsageSet /\ billed \in UsageSet
    BY <1>1, UsagesTyped DEF ServerTypes
  <2>3. u.out \in Nat
    BY <2>2 DEF UsageSet
  <2>4. [billed EXCEPT !.out = u.out] \in UsageSet
    BY <2>2, <2>3, Zenon DEF UsageSet
  <2> QED
    BY <1>1, <2>1, <2>4, WritesTyped DEF ServerTypes
<1>6. ASSUME NEW c \in Calls \cup {NoCall}, BlockStart(c)
      PROVE  Writes /\ StreamTypeOK'
  <2>1. Writes /\ phase' = phase /\ block' = <<c>> /\ cut' = cut /\ billed' = billed
    BY <1>6, BlockStartWrites
  <2>2. <<c>> \in Seq(Calls \cup {NoCall}) /\ Len(<<c>>) <= 1
    OBVIOUS
  <2> QED
    BY <1>1, <2>1, <2>2, WritesTyped DEF ServerTypes
<1>7. CASE DoneMarker
  BY <1>1, <1>7, DoneMarkerWrites, WritesTyped DEF ServerTypes
<1>8. CASE BlockDelta
  BY <1>1, <1>8, BlockDeltaWrites, WritesTyped DEF ServerTypes
<1>9. CASE BlockStop
  <2>1. <<>> \in Seq(Calls \cup {NoCall}) /\ Len(<<>>) <= 1
    OBVIOUS
  <2> QED
    BY <1>1, <1>9, <2>1, BlockStopWrites, WritesTyped DEF ServerTypes
<1>10. CASE MessageStop
  BY <1>1, <1>10, MessageStopWrites, WritesTyped DEF ServerTypes
<1>11. CASE KeepAlive
  BY <1>1, <1>11, KeepAliveWrites, WritesTyped DEF ServerTypes
<1>12. CASE ServerError
  <2>1. Writes /\ phase' = phase /\ block' = block /\ cut' /\ billed' = billed
    BY <1>12, ServerErrorWrites
  <2>2. cut' \in BOOLEAN
    BY <1>12 DEF ServerError
  <2> QED
    BY <1>1, <2>1, <2>2, WritesTyped DEF ServerTypes
<1> QED
  BY <1>2, <1>3, <1>4, <1>5, <1>6, <1>7, <1>8, <1>9, <1>10, <1>11, <1>12, Zenon DEF Server

LEMMA WrittenTyped ==
  ASSUME StreamTypeOK, Written, eventType' \in FrameTypes,
         dataParts' \in Seq([of : FrameSet, part : Nat])
  PROVE  LineTypes'
BY NoFrameTyped DEF Written, LineTypes

LEMMA ClosedTyped ==
  ASSUME StreamTypeOK, Closed, status' \in {"raised", "abandoned"}, cut' \in BOOLEAN
  PROVE  StreamTypeOK'
<1>1. ServerTypes /\ ParserTypes /\ StatusTypes
  BY TypeParts
<1>2. LineTypes'
  BY NameTyped, EmptyTyped, WrittenTyped, Zenon DEF Closed, Forget
<1>3. ServerTypes'
  BY <1>1 DEF Closed, serverVars, ServerTypes
<1>4. ParserTypes'
  <2>1. toolState' \in [Calls -> Idents] /\ current' \in Idents /\ inputTokens' \in Nat
    BY NoFrameTyped DEF Closed
  <2> QED
    BY <1>1, <2>1, Zenon DEF Closed, ParserTypes
<1>5. StatusTypes'
  BY <1>1 DEF Closed, StatusTypes
<1> QED
  BY <1>2, <1>3, <1>4, <1>5, TypePartsNext

LEMMA LeaveTyped ==
  ASSUME StreamTypeOK, Leave
  PROVE  StreamTypeOK'
<1>1. StatusTypes
  BY TypeParts
<1>2. LineTypes'
  BY NameTyped, EmptyTyped, WrittenTyped, Zenon DEF Leave
<1>3. ServerTypes'
  BY PlainTyped, EmptyTyped, Zenon DEF Leave, ServerTypes
<1>4. ParserTypes'
  <2>1. toolState' \in [Calls -> Idents] /\ current' \in Idents
    BY NoFrameTyped DEF Leave
  <2>2. inputTokens' \in Nat /\ done' \in Nat
    BY DEF Leave
  <2> QED
    BY <2>1, <2>2, PlainTyped, EmptyTyped, Zenon DEF Leave, ParserTypes
<1>5. StatusTypes'
  BY <1>1 DEF Leave, StatusTypes
<1> QED
  BY <1>2, <1>3, <1>4, <1>5, TypePartsNext

LEMMA OpenTyped ==
  ASSUME StreamTypeOK, NEW a \in Adapters, Open(a)
  PROVE  StreamTypeOK'
<1>1. ServerTypes /\ LineTypes /\ ParserTypes
  BY TypeParts
<1>2. ServerTypes' /\ StatusTypes'
  BY <1>1 DEF Open, ServerTypes, StatusTypes
<1>3. LineTypes'
  BY <1>1 DEF Open, frameVars, decoderVars, LineTypes
<1>4. ParserTypes'
  BY <1>1 DEF Open, parserVars, ParserTypes
<1> QED
  BY <1>2, <1>3, <1>4, TypePartsNext

LEMMA LineTyped ==
  ASSUME StreamTypeOK, Line
  PROVE  StreamTypeOK'
<1>1. ServerTypes /\ LineTypes /\ ParserTypes /\ StatusTypes
  BY TypeParts
<1>2. CASE EventLine
  <2>1. ServerTypes' /\ ParserTypes' /\ StatusTypes'
    BY <1>1, <1>2 DEF EventLine, serverVars, parserVars, ServerTypes, ParserTypes, StatusTypes
  <2>2. frame.type \in FrameTypes
    BY <1>1, TypeTyped DEF LineTypes
  <2>3. LineTypes'
    BY <1>1, <1>2, <2>2 DEF EventLine, ReadEvent, LineTypes
  <2> QED
    BY <2>1, <2>3, TypePartsNext
<1>3. CASE DataLine
  <2>1. ServerTypes' /\ ParserTypes' /\ StatusTypes'
    BY <1>1, <1>3 DEF DataLine, serverVars, parserVars, ServerTypes, ParserTypes, StatusTypes
  <2>2. [of |-> frame, part |-> part + 1] \in [of : FrameSet, part : Nat] /\ part + 1 \in Nat
    BY <1>1 DEF LineTypes
  <2>3. Append(dataParts, [of |-> frame, part |-> part + 1]) \in Seq([of : FrameSet, part : Nat])
    BY <1>1, <2>2, AppendProperties DEF LineTypes
  <2>4. LineTypes'
    BY <1>1, <1>3, <2>2, <2>3, Zenon DEF DataLine, ReadData, LineTypes
  <2> QED
    BY <2>1, <2>4, TypePartsNext
<1>4. CASE OtherLine
  BY <1>1, <1>4, TypePartsNext
  DEF OtherLine, ReadOther, serverVars, frameVars, decoderVars, parserVars,
      ServerTypes, LineTypes, ParserTypes, StatusTypes
<1>5. CASE BlankLine
  <2>1. ServerTypes'
    BY <1>1, <1>5 DEF BlankLine, serverVars, ServerTypes
  <2>2. CASE SkipBlank /\ UNCHANGED <<parserVars, status>>
    <3>1. ParserTypes' /\ StatusTypes'
      BY <1>1, <1>5, <2>2 DEF BlankLine, parserVars, ParserTypes, StatusTypes
    <3>2. LineTypes'
      BY <1>1, <1>5, <2>2, WrittenTyped DEF BlankLine, SkipBlank, decoderVars, LineTypes
    <3> QED
      BY <2>1, <3>1, <3>2, TypePartsNext
  <2>3. CASE /\ Dispatches /\ Forget /\ Parse(Loaded)
             /\ status' = IF Breaks(Loaded) THEN "returned" ELSE status
    <3>1. ParserTypes'
      BY <2>3, LoadedTyped, ParseTyped DEF ParserTypes
    <3>2. StatusTypes'
      BY <1>1, <1>5, <2>3 DEF BlankLine, StatusTypes
    <3>3. LineTypes'
      BY <1>5, <2>3, NameTyped, EmptyTyped, WrittenTyped, Zenon DEF BlankLine, Forget
    <3> QED
      BY <2>1, <3>1, <3>2, <3>3, TypePartsNext
  <2> QED
    BY <1>5, <2>2, <2>3 DEF BlankLine
<1>6. CASE EndOfLines
  <2>1. ServerTypes'
    BY <1>1, <1>6 DEF EndOfLines, serverVars, ServerTypes
  <2>2. StatusTypes'
    BY <1>1, <1>6 DEF EndOfLines, StatusTypes
  <2>3. CASE Dispatches
    <3>1. Forget /\ Parse(Loaded)
      BY <1>6, <2>3 DEF EndOfLines
    <3>2. ParserTypes'
      BY <2>3, <3>1, LoadedTyped, ParseTyped DEF ParserTypes
    <3>3. LineTypes'
      BY <1>6, <3>1, NameTyped, EmptyTyped, WrittenTyped, Zenon DEF EndOfLines, Forget
    <3> QED
      BY <2>1, <2>2, <3>2, <3>3, TypePartsNext
  <2>4. CASE ~Dispatches
    <3>1. UNCHANGED <<decoderVars, parserVars>>
      BY <1>6, <2>4 DEF EndOfLines
    <3>2. ParserTypes'
      BY <1>1, <3>1 DEF parserVars, ParserTypes
    <3>3. LineTypes'
      BY <1>1, <1>6, <3>1, WrittenTyped DEF EndOfLines, decoderVars, LineTypes
    <3> QED
      BY <2>1, <2>2, <3>2, <3>3, TypePartsNext
  <2> QED
    BY <2>3, <2>4
<1> QED
  BY <1>2, <1>3, <1>4, <1>5, <1>6 DEF Line

LEMMA NextTyped == StreamTypeOK /\ [StreamNext]_streamVars => StreamTypeOK'
<1> SUFFICES ASSUME StreamTypeOK, [StreamNext]_streamVars
             PROVE  StreamTypeOK'
  OBVIOUS
<1>1. ASSUME NEW a \in Adapters, Open(a)
      PROVE  StreamTypeOK'
  BY <1>1, OpenTyped
<1>2. CASE Leave
  BY <1>2, LeaveTyped
<1>3. CASE Server
  BY <1>3, ServerTyped
<1>4. CASE Line
  BY <1>4, LineTyped
<1>5. CASE TransportError
  BY <1>5, ClosedTyped DEF TransportError
<1>6. CASE Abandon
  <2>1. Closed /\ status' = "abandoned" /\ cut' = cut
    BY <1>6 DEF Abandon
  <2>2. cut' \in BOOLEAN
    BY <2>1, TypeParts DEF ServerTypes
  <2> QED
    BY <2>1, <2>2, ClosedTyped
<1>7. CASE UNCHANGED streamVars
  BY <1>7, TypeParts, TypePartsNext
  DEF streamVars, serverVars, frameVars, decoderVars, parserVars,
      ServerTypes, LineTypes, ParserTypes, StatusTypes
<1> QED
  BY <1>1, <1>2, <1>3, <1>4, <1>5, <1>6, <1>7 DEF StreamNext

(* Every variable of the streams has its type.                              *)
THEOREM StreamTypeCorrect == StreamSpec => []StreamTypeOK
<1> QED
  BY InitTyped, NextTyped, PTL DEF StreamSpec

-----------------------------------------------------------------------------
(* Framing, and the shape of frames.                                        *)

LEMMA EmptyLines == \A f : [k \in 1 .. 0 |-> [of |-> f, part |-> k]] = <<>>
OBVIOUS

LEMMA NoFrameFields ==
  /\ NoFrame.type = "" /\ NoFrame.payload = "none" /\ NoFrame.lines = 1
  /\ ~NoFrame.reasoning /\ ~NoFrame.text /\ NoFrame.tools = <<>>
  /\ ~NoFrame.finish /\ NoFrame.usage = NoUsage
BY Zenon DEF NoFrame, Plain

LEMMA NoFrameBare == Bare(NoFrame) /\ Pieces(NoFrame) = <<>>
<1>1. Bare(NoFrame)
  BY NoFrameFields DEF Bare
<1> QED
  BY <1>1, NoFrameTyped, BarePieces

LEMMA IdleNext == StreamTypeOK /\ IdleFresh /\ [StreamNext]_streamVars => IdleFresh'
<1> SUFFICES ASSUME StreamTypeOK, IdleFresh, [StreamNext]_streamVars
             PROVE  IdleFresh'
  OBVIOUS
<1>1. ASSUME status' # "idle"
      PROVE  IdleFresh'
  BY <1>1 DEF IdleFresh
<1>2. ASSUME NEW a \in Adapters, Open(a)
      PROVE  IdleFresh'
  BY <1>1, <1>2 DEF Open
<1>3. CASE Leave
  BY <1>3 DEF Leave, Written, IdleFresh
<1>4. CASE Server
  <2>1. status' = "streaming"
    BY <1>4, ServerTyped DEF Writes
  <2> QED
    BY <1>1, <2>1
<1>5. CASE Line
  BY <1>1, <1>5 DEF Line, EventLine, DataLine, OtherLine, BlankLine, EndOfLines, Writing
<1>6. CASE TransportError
  BY <1>1, <1>6 DEF TransportError
<1>7. CASE Abandon
  BY <1>1, <1>7 DEF Abandon
<1>8. CASE UNCHANGED streamVars
  BY <1>8 DEF streamVars, serverVars, frameVars, decoderVars, parserVars, IdleFresh
<1> QED
  BY <1>2, <1>3, <1>4, <1>5, <1>6, <1>7, <1>8 DEF StreamNext

LEMMA NoneOfOne == 0 <= 1
OBVIOUS

LEMMA WrittenFraming ==
  ASSUME Written, dataParts' = <<>>,
         status' = "streaming" => eventType' \in {"", "ping"}
  PROVE  Framing'
<1>1. part' = 0 /\ frame' = NoFrame /\ ~named'
  BY DEF Written
<1>2. frame'.lines = 1
  BY <1>1, NoFrameFields
<1>3. part' <= frame'.lines
  BY <1>1, <1>2, NoneOfOne, Zenon
<1>4. dataParts' = [k \in 1 .. part' |-> [of |-> frame', part |-> k]]
  BY <1>1, EmptyLines
<1> QED
  BY <1>1, <1>3, <1>4 DEF Framing

LEMMA WritesFraming ==
  ASSUME StreamTypeOK, Framing, Writes
  PROVE  Framing'
<1>1. part = 0 /\ ~named /\ part' = 0 /\ ~named'
  BY DEF Framing, Writes
<1>2. dataParts' = <<>>
  BY <1>1, EmptyLines DEF Framing, Writes
<1>3. dataParts' = [k \in 1 .. part' |-> [of |-> frame', part |-> k]]
  BY <1>1, <1>2, EmptyLines
<1>6. frame'.lines \in Nat
  BY DEF Writes
<1>4. part' <= frame'.lines
  BY <1>1, <1>6
<1>5. eventType' \in {"", "ping"}
  BY <1>1 DEF Framing, Writes
<1> QED
  BY <1>1, <1>3, <1>4, <1>5 DEF Framing

LEMMA LinesAppend ==
  ASSUME NEW n \in Nat, NEW S, NEW e \in [1 .. n + 1 -> S]
  PROVE  Append([k \in 1 .. n |-> e[k]], e[n + 1]) = [k \in 1 .. n + 1 |-> e[k]]
OBVIOUS

(* A blank line that gives nothing out ends a frame without data.           *)
LEMMA BlankSkips ==
  ASSUME StreamTypeOK, Framing, FrameShape, BlankLine, ~Dispatches
  PROVE  /\ dataParts = <<>> /\ frame.lines = 0 /\ eventType \in {"", "ping"}
         /\ Bare(frame) /\ ~frame.finish /\ frame.usage = NoUsage
         /\ frame.type \in {"", "ping"}
<1>1. part \in Nat /\ part = frame.lines /\ status = "streaming"
  BY TypeParts DEF LineTypes, BlankLine, Writing
<1>2. dataParts = <<>>
  BY DEF Dispatches
<1>3. part = 0
  <2>1. DOMAIN dataParts = 1 .. part
    BY Zenon DEF Framing
  <2>2. DOMAIN dataParts = {}
    BY <1>2, EmptyDomain
  <2> QED
    BY <1>1, <2>1, <2>2
<1>4. frame.lines = 0
  BY <1>1, <1>3
<1>5. /\ frame.type \in {"", "ping"}
      /\ Bare(frame) /\ ~frame.finish /\ frame.usage = NoUsage
  BY <1>4 DEF FrameShape
<1>6. eventType \in {"", "ping"}
  BY <1>1, <1>5 DEF Framing
<1> QED
  BY <1>2, <1>4, <1>5, <1>6

LEMMA FramingNext ==
  StreamTypeOK /\ IdleFresh /\ Framing /\ FrameShape /\ [StreamNext]_streamVars => Framing'
<1> SUFFICES ASSUME StreamTypeOK, IdleFresh, Framing, FrameShape, [StreamNext]_streamVars
             PROVE  Framing'
  OBVIOUS
<1>1. ASSUME NEW a \in Adapters, Open(a)
      PROVE  Framing'
  <2>1. /\ status = "idle" /\ frame' = frame /\ named' = named /\ part' = part
        /\ eventType' = eventType /\ dataParts' = dataParts
    BY <1>1 DEF Open, frameVars, decoderVars
  <2>2. eventType' = ""
    BY <2>1 DEF IdleFresh
  <2> QED
    BY <2>1, <2>2 DEF Framing
<1>2. CASE Leave
  BY <1>2, WrittenFraming DEF Leave
<1>3. CASE Server
  BY <1>3, ServerTyped, WritesFraming
<1>4. CASE TransportError
  BY <1>4, WrittenFraming DEF TransportError, Closed, Forget
<1>5. CASE Abandon
  BY <1>5, WrittenFraming DEF Abandon, Closed, Forget
<1>6. CASE UNCHANGED streamVars
  BY <1>6 DEF streamVars, frameVars, decoderVars, Framing
<1>7. CASE EventLine
  BY <1>7 DEF EventLine, ReadEvent, Writing, Framing
<1>8. CASE DataLine
  <2>1. /\ frame # NoFrame /\ frame' = frame /\ named' = named /\ part' = part + 1
        /\ part < frame.lines /\ eventType' = eventType /\ status' = status
        /\ dataParts' = Append(dataParts, [of |-> frame, part |-> part + 1])
    BY <1>8 DEF DataLine, ReadData, Writing
  <2>2. part \in Nat /\ frame \in FrameSet
    BY TypeParts DEF LineTypes
  <2>3. frame.lines \in Nat
    BY <2>2, FrameFields
  <2>4. part' <= frame'.lines
    BY <2>1, <2>2, <2>3
  <2> DEFINE e == [k \in 1 .. part + 1 |-> [of |-> frame, part |-> k]]
  <2>5. e \in [1 .. part + 1 -> {e[k] : k \in 1 .. part + 1}]
    OBVIOUS
  <2>6. /\ \A k \in 1 .. part : e[k] = [of |-> frame, part |-> k]
        /\ e[part + 1] = [of |-> frame, part |-> part + 1]
    BY <2>2
  <2>7. dataParts = [k \in 1 .. part |-> [of |-> frame, part |-> k]]
    BY DEF Framing
  <2>8. e = [k \in 1 .. part + 1 |-> e[k]]
    OBVIOUS
  <2> HIDE DEF e
  <2>9. dataParts = [k \in 1 .. part |-> e[k]]
    BY <2>6, <2>7
  <2>10. Append([k \in 1 .. part |-> e[k]], e[part + 1]) = [k \in 1 .. part + 1 |-> e[k]]
    BY <2>2, <2>5, LinesAppend
  <2>11. dataParts' = e
    BY <2>1, <2>6, <2>8, <2>9, <2>10
  <2>12. dataParts' = [k \in 1 .. part' |-> [of |-> frame', part |-> k]]
    BY <2>1, <2>11 DEF e
  <2> QED
    BY <2>1, <2>4, <2>12 DEF Framing
<1>9. CASE OtherLine
  BY <1>9 DEF OtherLine, ReadOther, frameVars, decoderVars, Framing
<1>10. CASE BlankLine /\ ~Dispatches
  <2>1. Written /\ UNCHANGED decoderVars
    BY <1>10 DEF BlankLine, SkipBlank
  <2> QED
    BY <1>10, <2>1, BlankSkips, WrittenFraming DEF decoderVars
<1>11. CASE BlankLine /\ Dispatches
  BY <1>11, WrittenFraming DEF BlankLine, SkipBlank, Forget
<1>12. CASE EndOfLines
  <2>1. Written /\ status' = "returned"
    BY <1>12 DEF EndOfLines
  <2>2. dataParts' = <<>>
    BY <1>12 DEF EndOfLines, Dispatches, Forget, decoderVars
  <2> QED
    BY <2>1, <2>2, WrittenFraming
<1> QED
  BY <1>1, <1>2, <1>3, <1>4, <1>5, <1>6, <1>7, <1>8, <1>9, <1>10, <1>11, <1>12
  DEF StreamNext, Line

LEMMA NoFrameShape ==
  ASSUME frame' = NoFrame
  PROVE  FrameShape'
BY NoFrameFields, NoFrameBare DEF FrameShape

LEMMA SameShape ==
  ASSUME FrameShape, frame' = frame, adapter' = adapter
  PROVE  FrameShape'
BY DEF FrameShape

LEMMA ServerShape ==
  ASSUME StreamTypeOK, Server
  PROVE  FrameShape'
<1>1. adapter' = adapter /\ frame'.payload # "none" /\ frame' # NoFrame
  BY ServerTyped, NoFrameFields DEF Writes
<1>2. CASE Chunk
  BY <1>1, <1>2, ChunkWrites DEF FrameShape, Bare, Writes
<1>3. ASSUME NEW u \in Usages, UsageChunk(u)
      PROVE  FrameShape'
  BY <1>1, <1>3, UsageChunkWrites DEF FrameShape, Bare, Writes
<1>4. ASSUME NEW u \in Usages, MessageStart(u)
      PROVE  FrameShape'
  BY <1>1, <1>4, MessageStartWrites DEF FrameShape, Bare, Writes
<1>5. ASSUME NEW u \in Usages, NEW finish \in BOOLEAN, MessageDelta(u, finish)
      PROVE  FrameShape'
  BY <1>1, <1>5, MessageDeltaWrites DEF FrameShape, Bare, Writes
<1>6. ASSUME NEW c \in Calls \cup {NoCall}, BlockStart(c)
      PROVE  FrameShape'
  BY <1>1, <1>6, BlockStartWrites DEF FrameShape, Bare, Writes
<1>7. CASE DoneMarker
  BY <1>1, <1>7, DoneMarkerWrites DEF FrameShape, Bare, Writes
<1>8. CASE BlockDelta
  BY <1>1, <1>8, BlockDeltaWrites DEF FrameShape, Bare, Writes
<1>9. CASE BlockStop
  BY <1>1, <1>9, BlockStopWrites DEF FrameShape, Bare, Writes
<1>10. CASE MessageStop
  BY <1>1, <1>10, MessageStopWrites DEF FrameShape, Bare, Writes
<1>11. CASE KeepAlive
  BY <1>1, <1>11, KeepAliveWrites DEF FrameShape, Bare, Writes
<1>12. CASE ServerError
  BY <1>1, <1>12, ServerErrorWrites DEF FrameShape, Bare, Writes
<1> QED
  BY <1>2, <1>3, <1>4, <1>5, <1>6, <1>7, <1>8, <1>9, <1>10, <1>11, <1>12, Zenon DEF Server

LEMMA ShapeNext ==
  StreamTypeOK /\ IdleFresh /\ FrameShape /\ [StreamNext]_streamVars => FrameShape'
<1> SUFFICES ASSUME StreamTypeOK, IdleFresh, FrameShape, [StreamNext]_streamVars
             PROVE  FrameShape'
  OBVIOUS
<1>1. ASSUME NEW a \in Adapters, Open(a)
      PROVE  FrameShape'
  BY <1>1, NoFrameShape DEF Open, frameVars, IdleFresh
<1>2. CASE Leave
  BY <1>2, NoFrameShape DEF Leave, Written
<1>3. CASE Server
  BY <1>3, ServerShape
<1>4. CASE TransportError
  BY <1>4, NoFrameShape DEF TransportError, Closed, Written
<1>5. CASE Abandon
  BY <1>5, NoFrameShape DEF Abandon, Closed, Written
<1>6. CASE UNCHANGED streamVars
  BY <1>6, SameShape DEF streamVars, frameVars
<1>7. CASE EventLine \/ DataLine \/ OtherLine
  BY <1>7, SameShape DEF EventLine, DataLine, OtherLine, frameVars
<1>8. CASE BlankLine \/ EndOfLines
  BY <1>8, NoFrameShape DEF BlankLine, EndOfLines, Written
<1> QED
  BY <1>1, <1>2, <1>3, <1>4, <1>5, <1>6, <1>7, <1>8 DEF StreamNext, Line

-----------------------------------------------------------------------------
(* What the consumer is given when a frame is read.                         *)

Inv1 == StreamTypeOK /\ IdleFresh /\ Framing /\ FrameShape

LEMMA JunkReads == Parse(Junk) => UNCHANGED parserVars
BY JunkTyped DEF Parse

LEMMA BareReads ==
  ASSUME StreamTypeOK, Delivery, status = "streaming", Bare(frame)
  PROVE  content = sent
<1>1. content \in Seq(PieceSet) /\ frame \in FrameSet
  BY TypeParts DEF ParserTypes, LineTypes
<1>2. Pieces(frame) = <<>>
  BY <1>1, BarePieces
<1>3. content \o <<>> = content
  BY <1>1, ConcatEmptySeq
<1> QED
  BY <1>2, <1>3 DEF Delivery

(* Read whole and under its name, a frame gives its pieces and its Done.    *)
LEMMA FullRead ==
  ASSUME Inv1, Delivery, ToolsKnown, BlockKnown,
         status = "streaming", adapter # "anthropic" \/ named \/ frame.type = "", Parse(frame)
  PROVE  content' = sent /\ done' = IF frame.finish THEN done + 1 ELSE done
<1>1. /\ content \in Seq(PieceSet) /\ frame \in FrameSet
      /\ toolState \in [Calls -> Idents] /\ current \in Idents
  BY TypeParts DEF Inv1, ParserTypes, LineTypes
<1>2. FrameShape /\ Framing /\ StreamTypeOK
  BY DEF Inv1
<1>3. sent = content \o Pieces(frame)
  BY DEF Delivery
<1>4. CASE frame.payload # "json"
  <2>1. Bare(frame) /\ ~frame.finish
    BY <1>2, <1>4 DEF FrameShape
  <2>2. UNCHANGED parserVars
    BY <1>4 DEF Parse
  <2> QED
    BY <1>2, <2>1, <2>2, BareReads DEF parserVars
<1>5. CASE frame.payload = "json" /\ adapter # "anthropic"
  <2>1. OpenAIReads(frame)
    BY <1>5 DEF Parse
  <2>2. EventsFromDelta(frame) = Pieces(frame)
    BY <1>1, <1>2, <1>5, EventsArePieces DEF FrameShape, ToolsKnown
  <2> QED
    BY <1>3, <2>1, <2>2 DEF OpenAIReads
<1>6. CASE frame.payload = "json" /\ adapter = "anthropic"
  <2>1. AnthropicReads(frame)
    BY <1>6 DEF Parse
  <2>2. eventType = frame.type \/ (frame.type = "" /\ eventType \in {"", "ping"})
    BY <1>2, <1>6 DEF Framing
  <2>3. /\ ~frame.reasoning
        /\ ~Bare(frame) => frame.type = "content_block_delta"
        /\ frame.finish => frame.type = "message_delta"
    BY <1>2, <1>6 DEF FrameShape
  <2>4. frame.tools # <<>> =>
          /\ Len(frame.tools) = 1
          /\ current.id = frame.tools[1].index /\ current.name = frame.tools[1].index
    <3> SUFFICES ASSUME frame.tools # <<>>
                 PROVE  /\ Len(frame.tools) = 1
                        /\ current.id = frame.tools[1].index
                        /\ current.name = frame.tools[1].index
      OBVIOUS
    <3>1. /\ Len(frame.tools) = 1
          /\ block # <<>> /\ block[1] # NoCall /\ frame.tools[1].index = block[1]
      BY <1>6 DEF BlockKnown
    <3>2. frame.type = "content_block_delta"
      BY <2>3 DEF Bare
    <3>3. current = BlockTool(block)
      BY <1>6, <3>2 DEF BlockKnown
    <3>4. current = Named(block[1])
      BY <3>1, <3>3 DEF BlockTool
    <3> QED
      BY <3>1, <3>4 DEF Named
  <2>5. DeltaEvents(frame) = Pieces(frame)
    BY <1>1, <2>2, <2>3, <2>4, DeltasArePieces
  <2>6. content' = content \o DeltaEvents(frame)
    BY <2>1 DEF AnthropicReads
  <2>7. Stops(frame) <=> frame.finish
    BY <2>2, <2>3, Zenon DEF Stops
  <2>8. done' = IF Stops(frame) THEN done + 1 ELSE done
    BY <2>1 DEF AnthropicReads
  <2> QED
    BY <1>3, <2>5, <2>6, <2>7, <2>8
<1> QED
  BY <1>4, <1>5, <1>6

(* Anthropic: data without a name says nothing.                             *)
LEMMA UnnamedRead ==
  ASSUME Inv1, status = "streaming", adapter = "anthropic", ~named, Parse(frame)
  PROVE  /\ content' = content /\ done' = done /\ reported' = reported
         /\ inputTokens' = inputTokens /\ current' = current
<1>1. eventType \in {"", "ping"}
  BY DEF Inv1, Framing
<1>2. CASE UNCHANGED parserVars
  BY <1>2 DEF parserVars
<1>3. CASE AnthropicReads(frame)
  <2>1. DeltaEvents(frame) = <<>>
    BY <1>1 DEF DeltaEvents
  <2>2. content \in Seq(PieceSet)
    BY TypeParts DEF Inv1, ParserTypes
  <2>3. content' = content
    BY <1>3, <2>1, <2>2, ConcatEmptySeq DEF AnthropicReads
  <2> QED
    BY <1>1, <1>3, <2>3 DEF AnthropicReads, Stops, CurrentAfter
<1> QED
  BY <1>2, <1>3 DEF Parse

(* At the end of the lines the data may also be cut off, or be unnamed.     *)
LEMMA LastRead ==
  ASSUME Inv1, Delivery, ToolsKnown, BlockKnown,
         status = "streaming", Dispatches, Parse(Loaded)
  PROVE  \/ content' = sent /\ done' = IF frame.finish THEN done + 1 ELSE done
         \/ content' = content /\ done' = done
<1>1. CASE part # frame.lines
  <2>1. Loaded = Junk
    BY <1>1, LoadedFrame DEF Inv1
  <2> QED
    BY <2>1, JunkReads DEF parserVars
<1>2. CASE part = frame.lines
  <2>1. Parse(frame)
    BY <1>2, LoadedFrame DEF Inv1
  <2> QED
    BY <2>1, FullRead, UnnamedRead
<1> QED
  BY <1>1, <1>2

LEMMA BlankReads ==
  ASSUME Inv1, Delivery, ToolsKnown, BlockKnown, BlankLine, Dispatches
  PROVE  /\ Loaded = frame /\ Parse(frame) /\ status = "streaming"
         /\ frame # NoFrame /\ frame' = NoFrame /\ sent' = sent /\ cut' = cut
         /\ adapter' = adapter /\ phase' = phase /\ block' = block /\ billed' = billed
         /\ status' = IF Breaks(frame) THEN "returned" ELSE status
         /\ adapter # "anthropic" \/ named \/ frame.type = ""
         /\ content' = sent /\ done' = IF frame.finish THEN done + 1 ELSE done
<1>1. /\ status = "streaming" /\ frame # NoFrame /\ part = frame.lines
      /\ named \/ frame.type = ""
      /\ frame' = NoFrame /\ sent' = sent /\ cut' = cut
      /\ adapter' = adapter /\ phase' = phase /\ block' = block /\ billed' = billed
  BY DEF BlankLine, Writing, Written, serverVars
<1>2. Loaded = frame
  BY <1>1, LoadedFrame DEF Inv1
<1>3. Parse(frame) /\ status' = IF Breaks(frame) THEN "returned" ELSE status
  BY <1>2 DEF BlankLine, SkipBlank
<1> QED
  BY <1>1, <1>2, <1>3, FullRead

-----------------------------------------------------------------------------
(* The content is the reply.                                                *)

LEMMA Prefix ==
  ASSUME NEW S, NEW s \in Seq(S), NEW t \in Seq(S)
  PROVE  Len(s) <= Len(s \o t) /\ \A k \in DOMAIN s : s[k] = (s \o t)[k]
BY ConcatProperties

LEMMA LenOrder == \A S : \A s \in Seq(S) : Len(s) <= Len(s)
OBVIOUS

LEMMA DeliveredAll ==
  ASSUME content' = sent', content' \in Seq(PieceSet), frame' = NoFrame
  PROVE  Delivery'
<1>1. Len(content') <= Len(sent')
  BY LenOrder
<1>2. content' \o <<>> = content'
  BY ConcatEmptySeq
<1>3. Pieces(frame') = <<>>
  BY NoFrameBare
<1> QED
  BY <1>1, <1>2, <1>3 DEF Delivery

LEMMA DeliveryKept ==
  ASSUME Delivery, content' = content, sent' = sent,
         status' = "streaming" => status = "streaming" /\ frame' = frame,
         status' = "returned" /\ ~cut' => content = sent
  PROVE  Delivery'
BY DEF Delivery

LEMMA WritesDelivery ==
  ASSUME StreamTypeOK, Delivery, Writes
  PROVE  Delivery'
<1>1. content \in Seq(PieceSet) /\ Pieces(frame') \in Seq(PieceSet)
  BY TypeParts, PiecesTyped DEF Writes, ParserTypes
<1>2. sent = content
  BY BareReads, NoFrameBare DEF Writes
<1>3. /\ sent' = content \o Pieces(frame') /\ content' = content
      /\ status' = "streaming"
  BY <1>2 DEF Writes
<1> QED
  BY <1>1, <1>3, Prefix DEF Delivery

LEMMA NothingDispatched ==
  ASSUME StreamTypeOK, Framing, frame = NoFrame
  PROVE  ~Dispatches
<1>1. part = 0
  BY DEF Framing
<1>2. dataParts = <<>>
  BY <1>1, EmptyLines DEF Framing
<1> QED
  BY <1>2 DEF Dispatches

(* What the end of the lines does to a frame that is being written.         *)
LEMMA EndsLines ==
  ASSUME Inv1, Delivery, ToolsKnown, BlockKnown, EndOfLines
  PROVE  /\ status = "streaming" /\ status' = "returned" /\ frame' = NoFrame /\ sent' = sent
         /\ adapter' = adapter /\ phase' = phase /\ billed' = billed
         /\ \/ content' = content /\ done' = done
            \/ content' = sent /\ done' = IF frame.finish THEN done + 1 ELSE done
         /\ ~cut' => /\ ~cut /\ frame = NoFrame /\ phase = "closed"
                     /\ content' = content /\ done' = done /\ reported' = reported
<1>1. /\ status = "streaming" /\ status' = "returned" /\ frame' = NoFrame /\ sent' = sent
      /\ adapter' = adapter /\ phase' = phase /\ billed' = billed
      /\ ~cut' => ~cut /\ frame = NoFrame /\ phase = "closed"
  BY DEF EndOfLines, Written, serverVars
<1>2. CASE Dispatches
  <2>1. Parse(Loaded)
    BY <1>2 DEF EndOfLines
  <2>2. frame # NoFrame
    BY <1>2, NothingDispatched DEF Inv1
  <2> QED
    BY <1>1, <1>2, <2>1, <2>2, LastRead
<1>3. CASE ~Dispatches
  <2>1. UNCHANGED parserVars
    BY <1>3 DEF EndOfLines
  <2> QED
    BY <1>1, <2>1 DEF parserVars
<1> QED
  BY <1>2, <1>3

Inv2 == Delivery /\ ToolsKnown /\ BlockKnown

LEMMA DeliveryNext == Inv1 /\ Inv2 /\ [StreamNext]_streamVars => Delivery'
<1> SUFFICES ASSUME Inv1, Inv2, [StreamNext]_streamVars
             PROVE  Delivery'
  OBVIOUS
<1> USE DEF Inv1, Inv2
<1>1. /\ content \in Seq(PieceSet) /\ sent \in Seq(PieceSet)
      /\ content' \in Seq(PieceSet)
  BY TypeParts, NextTyped DEF ParserTypes, ServerTypes, StreamTypeOK
<1>2. ASSUME NEW a \in Adapters, Open(a)
      PROVE  Delivery'
  <2>1. content' = content /\ sent' = sent /\ content = sent /\ frame' = NoFrame
    BY <1>2 DEF Open, IdleFresh, frameVars, parserVars
  <2> QED
    BY <1>1, <2>1, DeliveredAll
<1>3. CASE Leave
  BY <1>1, <1>3, DeliveredAll DEF Leave, Written
<1>4. CASE Server
  BY <1>4, ServerTyped, WritesDelivery
<1>5. CASE TransportError
  BY <1>5, DeliveryKept DEF TransportError, Closed, serverVars
<1>6. CASE Abandon
  BY <1>6, DeliveryKept DEF Abandon, Closed, serverVars
<1>7. CASE UNCHANGED streamVars
  BY <1>7, DeliveryKept DEF streamVars, serverVars, frameVars, parserVars, Delivery
<1>8. CASE EventLine \/ DataLine \/ OtherLine
  <2>1. content' = content /\ sent' = sent /\ frame' = frame /\ status' = "streaming" /\ status = "streaming"
    BY <1>8 DEF EventLine, DataLine, OtherLine, Writing, frameVars, serverVars, parserVars
  <2> QED
    BY <2>1, DeliveryKept
<1>9. CASE BlankLine /\ ~Dispatches
  <2>1. content' = content /\ sent' = sent /\ frame' = NoFrame /\ status = "streaming"
    BY <1>9 DEF BlankLine, Written, Writing, serverVars, parserVars
  <2>2. content = sent
    BY <1>9, <2>1, BlankSkips, BareReads
  <2> QED
    BY <1>1, <2>1, <2>2, DeliveredAll
<1>10. CASE BlankLine /\ Dispatches
  BY <1>1, <1>10, BlankReads, DeliveredAll
<1>11. CASE EndOfLines
  <2>1. CASE content' = content
    <3>1. ~cut' => content = sent
      <4>1. frame = NoFrame => content = sent
        BY <1>11, BareReads, NoFrameBare, EndsLines
      <4> QED
        BY <1>11, <4>1, EndsLines
    <3> QED
      BY <1>11, <2>1, <3>1, EndsLines, DeliveryKept
  <2>2. CASE content' = sent
    BY <1>1, <1>11, <2>2, EndsLines, DeliveredAll
  <2> QED
    BY <1>11, <2>1, <2>2, EndsLines
<1> QED
  BY <1>2, <1>3, <1>4, <1>5, <1>6, <1>7, <1>8, <1>9, <1>10, <1>11 DEF StreamNext, Line

LEMMA TellingNothing == \A s : Telling(s, <<>>)
BY EmptyDomain DEF Telling

LEMMA NothingTold == \A c : ~Told(<<>>, c)
BY EmptyDomain DEF Told

LEMMA ServerTells ==
  ASSUME Inv1, Delivery, Server, adapter # "anthropic"
  PROVE  Telling(content, frame'.tools)
<1>1. /\ sent = content /\ StreamTypeOK
  BY ServerTyped, BareReads, NoFrameBare DEF Inv1, Writes
<1>2. CASE Chunk
  BY <1>1, <1>2, ChunkWrites DEF Introduced, Started, Telling, Told
<1>3. ASSUME NEW u \in Usages, UsageChunk(u)
      PROVE  Telling(content, frame'.tools)
  BY <1>1, <1>3, UsageChunkWrites, TellingNothing
<1>4. ASSUME NEW u \in Usages, MessageStart(u)
      PROVE  Telling(content, frame'.tools)
  BY <1>1, <1>4, MessageStartWrites, TellingNothing
<1>5. ASSUME NEW u \in Usages, NEW finish \in BOOLEAN, MessageDelta(u, finish)
      PROVE  Telling(content, frame'.tools)
  BY <1>1, <1>5, MessageDeltaWrites, TellingNothing
<1>6. ASSUME NEW c \in Calls \cup {NoCall}, BlockStart(c)
      PROVE  Telling(content, frame'.tools)
  BY <1>1, <1>6, BlockStartWrites, TellingNothing
<1>7. CASE DoneMarker
  BY <1>1, <1>7, DoneMarkerWrites, TellingNothing
<1>8. CASE BlockDelta
  BY <1>1, <1>8, BlockDeltaWrites, TellingNothing
<1>9. CASE BlockStop
  BY <1>1, <1>9, BlockStopWrites, TellingNothing
<1>10. CASE MessageStop
  BY <1>1, <1>10, MessageStopWrites, TellingNothing
<1>11. CASE KeepAlive
  BY <1>1, <1>11, KeepAliveWrites, TellingNothing DEF Bare
<1>12. CASE ServerError
  BY <1>1, <1>12, ServerErrorWrites, TellingNothing
<1> QED
  BY <1>2, <1>3, <1>4, <1>5, <1>6, <1>7, <1>8, <1>9, <1>10, <1>11, <1>12, Zenon DEF Server

LEMMA ToolsNext == Inv1 /\ Inv2 /\ [StreamNext]_streamVars => ToolsKnown'
<1> SUFFICES ASSUME Inv1, Inv2, [StreamNext]_streamVars,
                    adapter' # "anthropic", status' = "streaming"
             PROVE  /\ \A c \in Calls : Told(content', c) => toolState'[c] = Named(c)
                    /\ Telling(content', frame'.tools)
  BY DEF ToolsKnown
<1> USE DEF Inv1, Inv2
<1>1. ASSUME NEW a \in Adapters, Open(a)
      PROVE  content' = <<>> /\ frame'.tools = <<>>
  BY <1>1, NoFrameFields DEF Open, frameVars, parserVars, IdleFresh
<1>2. CASE Leave
  BY <1>2 DEF Leave
<1>3. CASE Server
  <2>1. /\ content' = content /\ toolState' = toolState
        /\ adapter' = adapter /\ status = "streaming"
    BY <1>3, ServerTyped DEF Writes
  <2> QED
    BY <1>3, <2>1, ServerTells DEF ToolsKnown
<1>4. CASE TransportError \/ Abandon
  BY <1>4 DEF TransportError, Abandon
<1>5. CASE UNCHANGED streamVars \/ EventLine \/ DataLine \/ OtherLine
  <2>1. /\ content' = content /\ toolState' = toolState /\ frame' = frame
        /\ adapter' = adapter /\ status' = status
    BY <1>5 DEF EventLine, DataLine, OtherLine, streamVars, frameVars, parserVars
  <2> QED
    BY <2>1 DEF ToolsKnown
<1>6. CASE BlankLine /\ ~Dispatches
  <2>1. /\ content' = content /\ toolState' = toolState /\ frame' = NoFrame
        /\ adapter' = adapter /\ status' = status
    BY <1>6 DEF BlankLine, Written, parserVars
  <2>2. frame'.tools = <<>>
    BY <2>1, NoFrameFields
  <2> QED
    BY <2>1, <2>2, TellingNothing DEF ToolsKnown
<1>7. CASE BlankLine /\ Dispatches
  <2>1. /\ frame' = NoFrame /\ adapter' = adapter /\ status = "streaming"
        /\ Parse(frame) /\ content' = sent
    BY <1>7, BlankReads
  <2>2. frame'.tools = <<>>
    BY <2>1, NoFrameFields
  <2>3. sent = content \o Pieces(frame)
    BY <2>1 DEF Delivery
  <2>4. content \in Seq(PieceSet) /\ frame \in FrameSet /\ toolState \in [Calls -> Idents]
    BY TypeParts DEF ParserTypes, LineTypes
  <2>5. \A c \in Calls : Told(content, c) => toolState[c] = Named(c)
    BY <2>1 DEF ToolsKnown
  <2>6. Telling(content, frame.tools)
    BY <2>1 DEF ToolsKnown
  <2>7. ASSUME NEW c \in Calls, Told(content', c)
        PROVE  toolState'[c] = Named(c)
    <3>1. Told(content \o Pieces(frame), c)
      BY <2>1, <2>3, <2>7
    <3>2. CASE frame.payload # "json"
      <4>1. content = sent
        BY <2>1, <3>2, BareReads DEF FrameShape
      <4>2. toolState' = toolState
        BY <2>1, <3>2 DEF Parse, parserVars
      <4> QED
        BY <2>1, <2>5, <2>7, <4>1, <4>2
    <3>3. CASE frame.payload = "json"
      <4>1. toolState' = [d \in Calls |-> StateAfter(d, frame.tools, Len(frame.tools))]
        BY <2>1, <3>3 DEF Parse, OpenAIReads
      <4>2. StateAfter(c, frame.tools, Len(frame.tools)) = Named(c)
        BY <2>4, <2>5, <2>6, <3>1, ToldAfterChunk
      <4> QED
        BY <4>1, <4>2
    <3> QED
      BY <3>2, <3>3
  <2> QED
    BY <2>2, <2>7, TellingNothing
<1>8. CASE EndOfLines
  BY <1>8 DEF EndOfLines
<1> QED
  BY <1>1, <1>2, <1>3, <1>4, <1>5, <1>6, <1>7, <1>8, NothingTold, TellingNothing
  DEF StreamNext, Line

-----------------------------------------------------------------------------
(* The current tool of Anthropic.                                           *)

BlockFits ==
  /\ frame.type \notin {"content_block_start", "content_block_stop"} => current = BlockTool(block)
  /\ frame.type = "content_block_start" => block = <<frame.block>> /\ current = Unknown
  /\ frame.type = "content_block_stop" => block = <<>>
  /\ frame.tools # <<>> =>
       /\ Len(frame.tools) = 1
       /\ block # <<>> /\ block[1] # NoCall /\ frame.tools[1].index = block[1]

LEMMA BlockIs == BlockKnown <=> (adapter = "anthropic" /\ status = "streaming" => BlockFits)
BY Zenon DEF BlockKnown, BlockFits

LEMMA ServerFits ==
  ASSUME Inv1, BlockKnown, Server, adapter = "anthropic"
  PROVE  BlockFits'
<1>1. /\ current' = current /\ current = BlockTool(block)
      /\ StreamTypeOK /\ BlockTool(<<>>) = Unknown
  BY ServerTyped, NoFrameFields DEF Inv1, Writes, BlockKnown, BlockTool
<1>2. CASE Chunk
  BY <1>1, <1>2, ChunkWrites DEF BlockFits, Bare
<1>3. ASSUME NEW u \in Usages, UsageChunk(u)
      PROVE  BlockFits'
  BY <1>1, <1>3, UsageChunkWrites DEF BlockFits, Bare
<1>4. ASSUME NEW u \in Usages, MessageStart(u)
      PROVE  BlockFits'
  BY <1>1, <1>4, MessageStartWrites DEF BlockFits, Bare
<1>5. ASSUME NEW u \in Usages, NEW finish \in BOOLEAN, MessageDelta(u, finish)
      PROVE  BlockFits'
  BY <1>1, <1>5, MessageDeltaWrites DEF BlockFits, Bare
<1>6. ASSUME NEW c \in Calls \cup {NoCall}, BlockStart(c)
      PROVE  BlockFits'
  BY <1>1, <1>6, BlockStartWrites DEF BlockFits, Bare
<1>7. CASE DoneMarker
  BY <1>1, <1>7, DoneMarkerWrites DEF BlockFits, Bare
<1>8. CASE BlockDelta
  BY <1>1, <1>8, BlockDeltaWrites DEF BlockFits, Bare
<1>9. CASE BlockStop
  BY <1>1, <1>9, BlockStopWrites DEF BlockFits, Bare
<1>10. CASE MessageStop
  BY <1>1, <1>10, MessageStopWrites DEF BlockFits, Bare
<1>11. CASE KeepAlive
  BY <1>1, <1>11, KeepAliveWrites DEF BlockFits, Bare
<1>12. CASE ServerError
  BY <1>1, <1>12, ServerErrorWrites DEF BlockFits, Bare
<1> QED
  BY <1>2, <1>3, <1>4, <1>5, <1>6, <1>7, <1>8, <1>9, <1>10, <1>11, <1>12, Zenon DEF Server

LEMMA NoFrameFits ==
  ASSUME frame' = NoFrame, current' = BlockTool(block')
  PROVE  BlockFits'
BY NoFrameFields DEF BlockFits

LEMMA BlockNext == Inv1 /\ Inv2 /\ [StreamNext]_streamVars => BlockKnown'
<1> SUFFICES ASSUME Inv1, Inv2, [StreamNext]_streamVars,
                    adapter' = "anthropic", status' = "streaming"
             PROVE  BlockFits'
  BY Zenon DEF BlockKnown, BlockFits
<1> USE DEF Inv1, Inv2
<1>1. ASSUME NEW a \in Adapters, Open(a)
      PROVE  BlockFits'
  BY <1>1, NoFrameFits DEF Open, frameVars, parserVars, IdleFresh, BlockTool
<1>2. CASE Leave
  BY <1>2 DEF Leave
<1>3. CASE Server
  <2>1. adapter' = adapter
    BY <1>3, ServerTyped DEF Writes
  <2> QED
    BY <1>3, <2>1, ServerFits
<1>4. CASE TransportError \/ Abandon
  BY <1>4 DEF TransportError, Abandon
<1>5. CASE UNCHANGED streamVars \/ EventLine \/ DataLine \/ OtherLine
  <2>1. /\ current' = current /\ block' = block /\ frame' = frame
        /\ adapter' = adapter /\ status' = status
    BY <1>5 DEF EventLine, DataLine, OtherLine, streamVars, serverVars, frameVars, parserVars
  <2>2. BlockFits
    BY <2>1, BlockIs
  <2> QED
    BY <2>1, <2>2 DEF BlockFits
<1>6. CASE BlankLine /\ ~Dispatches
  <2>1. /\ current' = current /\ block' = block /\ frame' = NoFrame
        /\ adapter' = adapter /\ status' = status
    BY <1>6 DEF BlankLine, Written, parserVars, serverVars
  <2>2. BlockFits /\ frame.type \in {"", "ping"}
    BY <1>6, <2>1, BlockIs, BlankSkips
  <2>3. current = BlockTool(block)
    BY <2>2 DEF BlockFits
  <2> QED
    BY <2>1, <2>3, NoFrameFits
<1>7. CASE BlankLine /\ Dispatches
  <2>1. /\ frame' = NoFrame /\ adapter' = adapter /\ status = "streaming" /\ block' = block
        /\ Parse(frame)
        /\ named \/ frame.type = ""
    BY <1>7, BlankReads
  <2>2. BlockFits
    BY <2>1, BlockIs
  <2>3. eventType = frame.type \/ (frame.type = "" /\ eventType \in {"", "ping"})
    BY <2>1 DEF Framing
  <2>4. current' = BlockTool(block)
    <3>0. Parse(frame) /\ adapter = "anthropic"
      BY <2>1
    <3>1. CASE frame.payload # "json"
      <4>1. frame.type \in {"", "ping"}
        BY <3>0, <3>1 DEF FrameShape
      <4>2. current' = current
        BY <3>0, <3>1, Zenon DEF Parse, parserVars
      <4> QED
        BY <2>2, <4>1, <4>2 DEF BlockFits
    <3>2. CASE frame.payload = "json"
      <4>1. current' = CurrentAfter(frame)
        BY <3>0, <3>2, Zenon DEF Parse, AnthropicReads
      <4>2. CASE frame.type = "content_block_start"
        <5>1. block = <<frame.block>> /\ current = Unknown /\ eventType = frame.type
          BY <2>2, <2>3, <4>2 DEF BlockFits
        <5>2. BlockTool(block) = IF frame.block = NoCall THEN Unknown ELSE Named(frame.block)
          BY <5>1 DEF BlockTool
        <5> QED
          BY <4>1, <4>2, <5>1, <5>2 DEF CurrentAfter, Named
      <4>3. CASE frame.type = "content_block_stop"
        BY <2>2, <2>3, <4>1, <4>3 DEF CurrentAfter, BlockFits, BlockTool
      <4>4. CASE frame.type \notin {"content_block_start", "content_block_stop"}
        BY <2>2, <2>3, <4>1, <4>4 DEF CurrentAfter, BlockFits
      <4> QED
        BY <4>2, <4>3, <4>4
    <3> QED
      BY <3>1, <3>2
  <2> QED
    BY <2>1, <2>4, NoFrameFits
<1>8. CASE EndOfLines
  BY <1>8 DEF EndOfLines
<1> QED
  BY <1>1, <1>2, <1>3, <1>4, <1>5, <1>6, <1>7, <1>8 DEF StreamNext, Line

-----------------------------------------------------------------------------
(* Done.                                                                    *)

EndFits ==
  /\ phase \in {"opening", "open"} => done = 0 /\ ~frame.finish
  /\ phase \in {"finished", "closed"} =>
       IF frame.finish THEN done = 0 ELSE done = 1 /\ Bare(frame)
  /\ adapter = "anthropic" /\ phase # "open" => block = <<>>
  /\ frame.payload = "[DONE]" => adapter # "anthropic" /\ phase = "closed"

LEMMA EndIs ==
  Ending <=> /\ status = "streaming" => EndFits
             /\ done \in {0, 1}
             /\ done = 1 => content = sent
             /\ status = "returned" /\ done = 0 => cut
BY Zenon DEF Ending, EndFits

LEMMA EndIsNext ==
  ASSUME status' = "streaming" => EndFits', done' \in {0, 1},
         done' = 1 => content' = sent', status' = "returned" /\ done' = 0 => cut'
  PROVE  Ending'
BY Zenon DEF Ending, EndFits

LEMMA ServerEnds ==
  ASSUME Inv1, EndFits, Server
  PROVE  EndFits' /\ (done = 0 \/ Bare(frame'))
<1>1. /\ StreamTypeOK /\ done' = done /\ adapter' = adapter
      /\ ~frame.finish /\ phase \in {"opening", "open", "finished", "closed"}
  BY ServerTyped, NoFrameFields, TypeParts DEF Inv1, Writes, ServerTypes
<1>2. CASE Chunk
  BY <1>1, <1>2, ChunkWrites DEF EndFits, Bare
<1>3. ASSUME NEW u \in Usages, UsageChunk(u)
      PROVE  EndFits' /\ (done = 0 \/ Bare(frame'))
  BY <1>1, <1>3, UsageChunkWrites DEF EndFits, Bare
<1>4. ASSUME NEW u \in Usages, MessageStart(u)
      PROVE  EndFits' /\ (done = 0 \/ Bare(frame'))
  BY <1>1, <1>4, MessageStartWrites DEF EndFits, Bare
<1>5. ASSUME NEW u \in Usages, NEW finish \in BOOLEAN, MessageDelta(u, finish)
      PROVE  EndFits' /\ (done = 0 \/ Bare(frame'))
  BY <1>1, <1>5, MessageDeltaWrites DEF EndFits, Bare
<1>6. ASSUME NEW c \in Calls \cup {NoCall}, BlockStart(c)
      PROVE  EndFits' /\ (done = 0 \/ Bare(frame'))
  BY <1>1, <1>6, BlockStartWrites DEF EndFits, Bare
<1>7. CASE DoneMarker
  BY <1>1, <1>7, DoneMarkerWrites DEF EndFits, Bare
<1>8. CASE BlockDelta
  BY <1>1, <1>8, BlockDeltaWrites DEF EndFits, Bare
<1>9. CASE BlockStop
  BY <1>1, <1>9, BlockStopWrites DEF EndFits, Bare
<1>10. CASE MessageStop
  BY <1>1, <1>10, MessageStopWrites DEF EndFits, Bare
<1>11. CASE KeepAlive
  BY <1>1, <1>11, KeepAliveWrites DEF EndFits, Bare
<1>12. CASE ServerError
  BY <1>1, <1>12, ServerErrorWrites DEF EndFits, Bare
<1> QED
  BY <1>2, <1>3, <1>4, <1>5, <1>6, <1>7, <1>8, <1>9, <1>10, <1>11, <1>12, Zenon DEF Server

LEMMA EndingNext == Inv1 /\ Inv2 /\ Ending /\ [StreamNext]_streamVars => Ending'
<1> SUFFICES ASSUME Inv1, Inv2, Ending, [StreamNext]_streamVars
             PROVE  Ending'
  OBVIOUS
<1> USE DEF Inv1, Inv2
<1>0. /\ done \in {0, 1}
      /\ done = 1 => content = sent
      /\ status = "streaming" => EndFits
  BY EndIs
<1>1. ASSUME NEW a \in Adapters, Open(a)
      PROVE  Ending'
  <2>1. /\ done' = 0 /\ frame' = NoFrame /\ block' = <<>> /\ status' = "streaming"
        /\ phase' \in {"opening", "open"}
    BY <1>1 DEF Open, frameVars, parserVars, IdleFresh
  <2>2. EndFits'
    BY <2>1, NoFrameFields DEF EndFits
  <2> QED
    BY <2>1, <2>2, EndIsNext
<1>2. CASE Leave
  BY <1>2, EndIsNext DEF Leave
<1>3. CASE Server
  <2>1. /\ content' = content /\ done' = done /\ status' = "streaming" /\ status = "streaming"
        /\ frame = NoFrame /\ frame' \in FrameSet /\ sent' = sent \o Pieces(frame')
    BY <1>3, ServerTyped DEF Writes
  <2>2. EndFits' /\ (done = 0 \/ Bare(frame'))
    BY <1>0, <1>3, <2>1, ServerEnds
  <2>3. Bare(frame') => sent' = sent
    <3>1. sent \in Seq(PieceSet)
      BY TypeParts DEF ServerTypes
    <3> QED
      BY <2>1, <3>1, BarePieces, ConcatEmptySeq
  <2> QED
    BY <1>0, <2>1, <2>2, <2>3, EndIsNext
<1>4. CASE TransportError \/ Abandon
  <2>1. /\ done' = done /\ content' = content /\ sent' = sent
        /\ status' \in {"raised", "abandoned"}
    BY <1>4 DEF TransportError, Abandon, Closed, serverVars
  <2> QED
    BY <1>0, <2>1, EndIsNext
<1>5. CASE UNCHANGED streamVars \/ EventLine \/ DataLine \/ OtherLine
  <2>1. /\ content' = content /\ sent' = sent /\ done' = done /\ frame' = frame /\ cut' = cut
        /\ block' = block /\ phase' = phase /\ adapter' = adapter /\ status' = status
    BY <1>5 DEF EventLine, DataLine, OtherLine, streamVars, serverVars, frameVars, parserVars
  <2> QED
    BY <2>1 DEF Ending
<1>6. CASE BlankLine /\ ~Dispatches
  <2>1. /\ content' = content /\ sent' = sent /\ done' = done /\ frame' = NoFrame /\ cut' = cut
        /\ block' = block /\ phase' = phase /\ adapter' = adapter
        /\ status' = "streaming" /\ status = "streaming"
    BY <1>6 DEF BlankLine, Writing, Written, parserVars, serverVars
  <2>2. ~frame.finish
    BY <1>6, BlankSkips
  <2>3. EndFits'
    BY <1>0, <2>1, <2>2, NoFrameFields, NoFrameBare DEF EndFits
  <2> QED
    BY <1>0, <2>1, <2>3, EndIsNext
<1>7. CASE BlankLine /\ Dispatches
  <2>1. /\ status = "streaming" /\ frame' = NoFrame /\ sent' = sent /\ content' = sent
        /\ adapter' = adapter /\ phase' = phase /\ block' = block
        /\ status' = (IF Breaks(frame) THEN "returned" ELSE status)
        /\ done' = IF frame.finish THEN done + 1 ELSE done
    BY <1>7, BlankReads
  <2>2. EndFits /\ phase \in {"opening", "open", "finished", "closed"}
    BY <1>0, <2>1, TypeParts DEF ServerTypes
  <2>3. frame.finish => done = 0 /\ phase \in {"finished", "closed"}
    BY <2>2 DEF EndFits
  <2>4. done' = IF frame.finish THEN 1 ELSE done
    BY <2>1, <2>3
  <2>5. EndFits'
    BY <2>1, <2>2, <2>3, <2>4, NoFrameFields, NoFrameBare DEF EndFits
  <2>6. ASSUME status' = "returned"
        PROVE  done' = 1
    <3>1. frame.payload = "[DONE]"
      BY <2>1, <2>6 DEF Breaks
    <3>2. phase = "closed" /\ ~frame.finish
      BY <2>2, <3>1 DEF EndFits, FrameShape
    <3> QED
      BY <2>2, <2>4, <3>2 DEF EndFits
  <2>7. done' \in {0, 1}
    BY <1>0, <2>4
  <2> QED
    BY <2>1, <2>5, <2>6, <2>7, EndIsNext
<1>8. CASE EndOfLines
  <2>1. /\ status = "streaming" /\ status' = "returned" /\ sent' = sent
        /\ \/ content' = content /\ done' = done
           \/ content' = sent /\ done' = IF frame.finish THEN done + 1 ELSE done
        /\ ~cut' => frame = NoFrame /\ phase = "closed" /\ done' = done
    BY <1>8, EndsLines
  <2>2. EndFits /\ phase \in {"opening", "open", "finished", "closed"}
    BY <1>0, <2>1, TypeParts DEF ServerTypes
  <2>3. frame.finish => done = 0
    BY <2>2 DEF EndFits
  <2>4. \/ content' = content /\ done' = done
        \/ content' = sent /\ done' = IF frame.finish THEN 1 ELSE done
    BY <2>1, <2>3
  <2>5. done' \in {0, 1} /\ (done' = 1 => content' = sent')
    BY <1>0, <2>1, <2>4
  <2>6. ~cut' => done' = 1
    BY <2>1, <2>2, NoFrameFields DEF EndFits
  <2> QED
    BY <2>1, <2>5, <2>6, EndIsNext
<1> QED
  BY <1>1, <1>2, <1>3, <1>4, <1>5, <1>6, <1>7, <1>8 DEF StreamNext, Line

-----------------------------------------------------------------------------
(* The usage.                                                               *)

AddUp(r, b) == r.in = b.in /\ r.out + r.reasoning = b.out

LEMMA SplitAdds == \A u \in Usages : SplitUsage(u) # NoUsage /\ AddUp(SplitUsage(u), u)
<1> SUFFICES ASSUME NEW u \in Usages
             PROVE  SplitUsage(u) # NoUsage /\ AddUp(SplitUsage(u), u)
  OBVIOUS
<1>1. u \in Counts /\ u.out \in Nat /\ u.reasoning \in Nat /\ u.reasoning <= u.out
  BY StreamAssumption DEF Counts
<1>2. SplitUsage(u) = [u EXCEPT !.out = u.out - u.reasoning]
  BY <1>1 DEF SplitUsage
<1> DEFINE n == u.out - u.reasoning
           r == [u EXCEPT !.out = n]
<1>3. n + u.reasoning = u.out
  BY <1>1
<1> HIDE DEF n
<1>4. r.in = u.in /\ r.out = n /\ r.reasoning = u.reasoning
  BY <1>1, Zenon DEF Counts
<1>5. NoUsage.reasoning = -1
  BY DEF NoUsage
<1> HIDE DEF r
<1>6. r # NoUsage
  BY <1>1, <1>4, <1>5
<1> QED
  BY <1>2, <1>3, <1>4, <1>6, Zenon DEF AddUp, n, r

LEMMA WholeAdds ==
  ASSUME NEW b \in UsageSet
  PROVE  AddUp([in |-> b.in, out |-> b.out, reasoning |-> 0], b)
BY DEF AddUp, UsageSet

LEMMA ZeroedFields ==
  ASSUME NEW u \in UsageSet
  PROVE  /\ [u EXCEPT !.out = 0, !.reasoning = 0].in = u.in
         /\ [u EXCEPT !.in = 0, !.reasoning = 0].out = u.out
         /\ [u EXCEPT !.in = 0, !.reasoning = 0] # NoUsage
<1> DEFINE r == [u EXCEPT !.in = 0, !.reasoning = 0]
<1>1. [u EXCEPT !.out = 0, !.reasoning = 0].in = u.in
  BY Zenon DEF UsageSet
<1>2. r.out = u.out /\ r.reasoning = 0
  BY Zenon DEF UsageSet
<1>3. NoUsage.reasoning = -1
  BY DEF NoUsage
<1>4. 0 # -1
  OBVIOUS
<1> HIDE DEF r
<1>5. r # NoUsage
  BY <1>2, <1>3, <1>4, Zenon
<1> QED
  BY <1>1, <1>2, <1>5, Zenon DEF r

LEMMA OutFields ==
  ASSUME NEW u \in UsageSet, NEW n
  PROVE  [u EXCEPT !.out = n].in = u.in /\ [u EXCEPT !.out = n].out = n
BY Zenon DEF UsageSet

LEMMA ServerBills ==
  ASSUME StreamTypeOK, OpenAIBilling, AnthropicBilling, Server
  PROVE  OpenAIBilling' /\ AnthropicBilling'
<1>1. /\ adapter' = adapter /\ reported' = reported /\ inputTokens' = inputTokens
      /\ frame.usage = NoUsage /\ frame.type = "" /\ ~frame.finish
      /\ phase \in {"opening", "open", "finished", "closed"} /\ billed \in UsageSet
  BY ServerTyped, NoFrameFields, TypeParts DEF Writes, ServerTypes
<1>2. CASE Chunk
  BY <1>1, <1>2, ChunkWrites DEF OpenAIBilling, AnthropicBilling
<1>3. ASSUME NEW u \in Usages, UsageChunk(u)
      PROVE  OpenAIBilling' /\ AnthropicBilling'
  BY <1>1, <1>3, UsageChunkWrites, UsagesTyped DEF OpenAIBilling, AnthropicBilling
<1>4. ASSUME NEW u \in Usages, MessageStart(u)
      PROVE  OpenAIBilling' /\ AnthropicBilling'
  <2>1. /\ adapter = "anthropic" /\ phase = "opening" /\ phase' = "open"
        /\ frame'.type = "message_start" /\ frame'.usage = u
        /\ billed' = [u EXCEPT !.out = 0, !.reasoning = 0]
    BY <1>4, MessageStartWrites
  <2>2. frame'.usage.in = billed'.in
    BY <2>1, UsagesTyped, ZeroedFields
  <2> QED
    BY <1>1, <2>1, <2>2 DEF OpenAIBilling, AnthropicBilling
<1>5. ASSUME NEW u \in Usages, NEW finish \in BOOLEAN, MessageDelta(u, finish)
      PROVE  OpenAIBilling' /\ AnthropicBilling'
  <2>1. /\ adapter = "anthropic" /\ phase = "open" /\ frame'.finish = finish
        /\ phase' = (IF finish THEN "finished" ELSE phase)
        /\ frame'.type = "message_delta" /\ billed' = [billed EXCEPT !.out = u.out]
        /\ frame'.usage = [u EXCEPT !.in = 0, !.reasoning = 0]
    BY <1>5, MessageDeltaWrites
  <2>2. billed'.in = billed.in /\ billed'.out = u.out
    BY <1>1, <2>1, OutFields
  <2>3. frame'.usage.out = u.out
    BY <2>1, UsagesTyped, ZeroedFields
  <2> QED
    BY <1>1, <2>1, <2>2, <2>3 DEF OpenAIBilling, AnthropicBilling
<1>6. ASSUME NEW c \in Calls \cup {NoCall}, BlockStart(c)
      PROVE  OpenAIBilling' /\ AnthropicBilling'
  BY <1>1, <1>6, BlockStartWrites DEF OpenAIBilling, AnthropicBilling
<1>7. CASE DoneMarker
  BY <1>1, <1>7, DoneMarkerWrites DEF OpenAIBilling, AnthropicBilling
<1>8. CASE BlockDelta
  BY <1>1, <1>8, BlockDeltaWrites DEF OpenAIBilling, AnthropicBilling
<1>9. CASE BlockStop
  BY <1>1, <1>9, BlockStopWrites DEF OpenAIBilling, AnthropicBilling
<1>10. CASE MessageStop
  BY <1>1, <1>10, MessageStopWrites DEF OpenAIBilling, AnthropicBilling
<1>11. CASE KeepAlive
  BY <1>1, <1>11, KeepAliveWrites DEF OpenAIBilling, AnthropicBilling
<1>12. CASE ServerError
  BY <1>1, <1>12, ServerErrorWrites DEF OpenAIBilling, AnthropicBilling
<1> QED
  BY <1>2, <1>3, <1>4, <1>5, <1>6, <1>7, <1>8, <1>9, <1>10, <1>11, <1>12, Zenon DEF Server

LEMMA WholeReports == \A i, o : [in |-> i, out |-> o, reasoning |-> 0] # NoUsage
<1>1. 0 # -1
  OBVIOUS
<1>2. NoUsage.reasoning = -1
  BY DEF NoUsage
<1> QED
  BY <1>1, <1>2

LEMMA ReadBills ==
  ASSUME Inv1, OpenAIBilling, AnthropicBilling, status = "streaming", Parse(frame),
         adapter # "anthropic" \/ named \/ frame.type = "",
         frame' = NoFrame, adapter' = adapter, phase' = phase, billed' = billed
  PROVE  OpenAIBilling' /\ AnthropicBilling'
<1>1. frame'.type = "" /\ frame'.usage = NoUsage /\ ~frame'.finish
  BY NoFrameFields
<1>2. FrameShape /\ Framing
  BY DEF Inv1
<1>3. CASE frame.payload # "json"
  <2>1. reported' = reported /\ inputTokens' = inputTokens
    BY <1>3 DEF Parse, parserVars
  <2>2. /\ frame.usage = NoUsage /\ ~frame.finish
        /\ adapter = "anthropic" => frame.type \in {"", "ping"}
    BY <1>2, <1>3 DEF FrameShape
  <2> QED
    BY <1>1, <2>1, <2>2 DEF OpenAIBilling, AnthropicBilling
<1>4. CASE frame.payload = "json" /\ adapter # "anthropic"
  <2>1. reported' = IF frame.usage # NoUsage THEN SplitUsage(frame.usage) ELSE reported
    BY <1>4 DEF Parse, OpenAIReads
  <2> QED
    BY <1>1, <1>4, <2>1 DEF OpenAIBilling, AnthropicBilling
<1>5. CASE frame.payload = "json" /\ adapter = "anthropic"
  <2>1. eventType = frame.type \/ (frame.type = "" /\ eventType \in {"", "ping"})
    BY <1>2, <1>5 DEF Framing
  <2>2. frame.finish => frame.type = "message_delta"
    BY <1>2, <1>5 DEF FrameShape
  <2>3. /\ inputTokens' = IF frame.type = "message_start" THEN frame.usage.in ELSE inputTokens
        /\ reported' = IF frame.type = "message_delta"
                       THEN [in |-> inputTokens, out |-> frame.usage.out, reasoning |-> 0]
                       ELSE reported
    BY <1>5, <2>1 DEF Parse, AnthropicReads
  <2>4. CASE frame.type = "message_start"
    BY <1>1, <1>5, <2>2, <2>3, <2>4 DEF OpenAIBilling, AnthropicBilling
  <2>5. CASE frame.type = "message_delta"
    BY <1>1, <1>5, <2>3, <2>5, WholeReports DEF OpenAIBilling, AnthropicBilling
  <2>6. CASE frame.type \notin {"message_start", "message_delta"}
    BY <1>1, <1>5, <2>2, <2>3, <2>6 DEF OpenAIBilling, AnthropicBilling
  <2> QED
    BY <2>4, <2>5, <2>6
<1> QED
  BY <1>3, <1>4, <1>5

(* Between two frames what was reported adds up.                            *)
LEMMA BillsAdd ==
  ASSUME billed \in UsageSet, OpenAIBilling, AnthropicBilling, frame = NoFrame
  PROVE  /\ reported # NoUsage => AddUp(reported, billed)
         /\ phase = "closed" => reported # NoUsage
<1>1. frame.type = "" /\ frame.usage = NoUsage /\ ~frame.finish
  BY NoFrameFields
<1>2. CASE adapter # "anthropic"
  BY <1>1, <1>2, SplitAdds DEF OpenAIBilling
<1>3. CASE adapter = "anthropic"
  BY <1>1, <1>3, WholeAdds DEF AnthropicBilling
<1> QED
  BY <1>2, <1>3

LEMMA BillsAddNext ==
  ASSUME billed' \in UsageSet, OpenAIBilling', AnthropicBilling', frame' = NoFrame,
         reported' # NoUsage
  PROVE  AddUp(reported', billed')
<1>1. frame'.type = "" /\ frame'.usage = NoUsage
  BY NoFrameFields
<1>2. CASE adapter' # "anthropic"
  BY <1>1, <1>2, SplitAdds DEF OpenAIBilling
<1>3. CASE adapter' = "anthropic"
  BY <1>1, <1>3, WholeAdds DEF AnthropicBilling
<1> QED
  BY <1>2, <1>3

LEMMA BillingIsNext ==
  ASSUME status' = "streaming" => OpenAIBilling' /\ AnthropicBilling',
         ~cut' /\ frame' = NoFrame /\ status' # "abandoned" /\ reported' # NoUsage =>
           AddUp(reported', billed'),
         ~cut' /\ status' = "returned" => reported' # NoUsage
  PROVE  Billing'
BY Zenon DEF Billing, UsageAddsUp, AddUp

LEMMA BillingNext == Inv1 /\ Inv2 /\ Ending /\ Billing /\ [StreamNext]_streamVars => Billing'
<1> SUFFICES ASSUME Inv1, Inv2, Ending, Billing, [StreamNext]_streamVars
             PROVE  Billing'
  OBVIOUS
<1> USE DEF Inv1, Inv2
<1>0. /\ status = "streaming" => OpenAIBilling /\ AnthropicBilling
      /\ ~cut /\ frame = NoFrame /\ status # "abandoned" /\ reported # NoUsage =>
           AddUp(reported, billed)
      /\ ~cut /\ status = "returned" => reported # NoUsage
  BY DEF Billing, UsageAddsUp, AddUp
<1>n. billed \in UsageSet /\ billed' \in UsageSet
  <2>1. StreamTypeOK'
    BY NextTyped
  <2> QED
    BY <2>1, TypeParts DEF ServerTypes, StreamTypeOK
<1>1. ASSUME NEW a \in Adapters, Open(a)
      PROVE  Billing'
  <2>1. /\ billed' = NoUsage /\ reported' = NoUsage /\ frame' = NoFrame /\ adapter' = a
        /\ phase' = (IF a = "anthropic" THEN "opening" ELSE "open") /\ status' = "streaming"
    BY <1>1 DEF Open, frameVars, parserVars, IdleFresh
  <2>2. OpenAIBilling' /\ AnthropicBilling'
    BY <2>1, NoFrameFields DEF OpenAIBilling, AnthropicBilling
  <2> QED
    BY <2>1, <2>2, BillingIsNext
<1>2. CASE Leave
  BY <1>2, BillingIsNext DEF Leave
<1>3. CASE Server
  <2>1. status = "streaming" /\ status' = "streaming" /\ frame' # NoFrame
    BY <1>3, ServerTyped, NoFrameFields DEF Writes
  <2>2. OpenAIBilling' /\ AnthropicBilling'
    BY <1>0, <1>3, <2>1, ServerBills
  <2> QED
    BY <2>1, <2>2, BillingIsNext
<1>4. CASE TransportError \/ Abandon
  BY <1>4, BillingIsNext DEF TransportError, Abandon
<1>5. CASE UNCHANGED streamVars \/ EventLine \/ DataLine \/ OtherLine
  <2>1. /\ billed' = billed /\ reported' = reported /\ frame' = frame /\ cut' = cut
        /\ phase' = phase /\ adapter' = adapter /\ status' = status /\ inputTokens' = inputTokens
    BY <1>5 DEF EventLine, DataLine, OtherLine, streamVars, serverVars, frameVars, parserVars
  <2>2. status' = "streaming" => OpenAIBilling' /\ AnthropicBilling'
    BY <1>0, <2>1 DEF OpenAIBilling, AnthropicBilling
  <2> QED
    BY <1>0, <2>1, <2>2, BillingIsNext
<1>6. CASE BlankLine /\ ~Dispatches
  <2>1. /\ billed' = billed /\ reported' = reported /\ frame' = NoFrame /\ cut' = cut
        /\ phase' = phase /\ adapter' = adapter /\ inputTokens' = inputTokens
        /\ status' = "streaming" /\ status = "streaming"
    BY <1>6 DEF BlankLine, Writing, Written, parserVars, serverVars
  <2>2. /\ ~frame.finish /\ frame.usage = NoUsage
        /\ frame.type \notin {"message_start", "message_delta"}
    BY <1>6, BlankSkips
  <2>3. OpenAIBilling' /\ AnthropicBilling'
    BY <1>0, <2>1, <2>2, NoFrameFields DEF OpenAIBilling, AnthropicBilling
  <2> QED
    BY <1>n, <2>1, <2>3, BillingIsNext, BillsAddNext
<1>7. CASE BlankLine /\ Dispatches
  <2>1. /\ status = "streaming" /\ frame' = NoFrame /\ adapter' = adapter /\ phase' = phase
        /\ billed' = billed /\ Parse(frame)
        /\ status' = IF Breaks(frame) THEN "returned" ELSE status
    BY <1>7, BlankReads
  <2>2. adapter # "anthropic" \/ named \/ frame.type = ""
    BY <1>7, BlankReads
  <2>3. OpenAIBilling' /\ AnthropicBilling'
    BY <1>0, <2>1, <2>2, ReadBills
  <2>4. ASSUME status' = "returned"
        PROVE  reported' # NoUsage
    <3>1. frame.payload = "[DONE]" /\ adapter # "anthropic"
      BY <2>1, <2>4 DEF Breaks
    <3>2. phase = "closed"
      BY <2>1, <3>1 DEF Ending
    <3>3. billed' \in Usages /\ reported' = SplitUsage(billed')
      BY <2>1, <2>3, <3>1, <3>2, NoFrameFields DEF OpenAIBilling
    <3> QED
      BY <3>3, SplitAdds
  <2> QED
    BY <1>n, <2>1, <2>3, <2>4, BillingIsNext, BillsAddNext
<1>8. CASE EndOfLines
  <2>1. /\ status = "streaming" /\ status' = "returned" /\ billed' = billed
        /\ ~cut' => frame = NoFrame /\ phase = "closed" /\ reported' = reported
    BY <1>8, EndsLines
  <2>2. ~cut' => reported' # NoUsage /\ AddUp(reported', billed')
    BY <1>0, <1>n, <2>1, BillsAdd
  <2> QED
    BY <2>1, <2>2, BillingIsNext
<1> QED
  BY <1>1, <1>2, <1>3, <1>4, <1>5, <1>6, <1>7, <1>8 DEF StreamNext, Line

-----------------------------------------------------------------------------
(* The theorems.                                                            *)

LEMMA RaisedNext == StreamTypeOK /\ RaisedCut /\ [StreamNext]_streamVars => RaisedCut'
<1> SUFFICES ASSUME StreamTypeOK, RaisedCut, [StreamNext]_streamVars
             PROVE  RaisedCut'
  OBVIOUS
<1>1. CASE (\E a \in Adapters : Open(a)) \/ Leave \/ Line \/ TransportError \/ Abandon
  <2>1. status' = "raised" => cut'
    BY <1>1 DEF Open, Leave, Line, EventLine, DataLine, OtherLine, BlankLine, EndOfLines,
                Writing, TransportError, Abandon
  <2> QED
    BY <2>1 DEF RaisedCut
<1>2. CASE Server
  <2>1. status' = "streaming"
    BY <1>2, ServerTyped DEF Writes
  <2> QED
    BY <2>1 DEF RaisedCut
<1>3. CASE UNCHANGED streamVars
  BY <1>3 DEF streamVars, RaisedCut
<1> QED
  BY <1>1, <1>2, <1>3 DEF StreamNext

LEMMA InitInv == StreamInit => StreamInv
<1> SUFFICES ASSUME StreamInit
             PROVE  StreamInv
  OBVIOUS
<1>1. StreamTypeOK
  BY InitTyped
<1>2. /\ status = "idle" /\ frame = NoFrame /\ ~named /\ part = 0 /\ ~cut /\ done = 0
      /\ content = <<>> /\ sent = <<>> /\ dataParts = <<>> /\ reported = NoUsage
  BY DEF StreamInit, DecoderInit
<1>3. IdleFresh
  BY DEF StreamInit, DecoderInit, IdleFresh
<1>4. Framing
  <2>1. part <= frame.lines
    BY <1>2, NoFrameFields, NoneOfOne, Zenon
  <2>2. dataParts = [k \in 1 .. part |-> [of |-> frame, part |-> k]]
    BY <1>2, EmptyLines
  <2> QED
    BY <1>2, <2>1, <2>2 DEF Framing
<1>5. FrameShape
  BY <1>2, NoFrameFields, NoFrameBare DEF FrameShape
<1>6. Delivery
  BY <1>2, EmptyTyped, LenOrder DEF Delivery
<1>7. ToolsKnown /\ BlockKnown /\ Ending /\ RaisedCut
  BY <1>2 DEF ToolsKnown, BlockKnown, Ending, RaisedCut
<1>8. Billing
  BY <1>2 DEF Billing, UsageAddsUp
<1> QED
  BY <1>1, <1>3, <1>4, <1>5, <1>6, <1>7, <1>8 DEF StreamInv

LEMMA InvNext == StreamInv /\ [StreamNext]_streamVars => StreamInv'
<1> SUFFICES ASSUME StreamInv, [StreamNext]_streamVars
             PROVE  StreamInv'
  OBVIOUS
<1>1. Inv1 /\ Inv2 /\ Ending /\ Billing /\ RaisedCut
  BY DEF StreamInv, Inv1, Inv2
<1>2. StreamTypeOK' /\ IdleFresh' /\ Framing' /\ FrameShape'
  BY <1>1, NextTyped, IdleNext, FramingNext, ShapeNext DEF Inv1
<1>3. Delivery' /\ ToolsKnown' /\ BlockKnown'
  BY <1>1, DeliveryNext, ToolsNext, BlockNext
<1>4. Ending' /\ Billing' /\ RaisedCut'
  BY <1>1, EndingNext, BillingNext, RaisedNext DEF Inv1
<1> QED
  BY <1>2, <1>3, <1>4 DEF StreamInv

LEMMA StreamInvariant == StreamSpec => []StreamInv
<1>1. StreamInit => StreamInv
  BY InitInv
<1>2. StreamInv /\ [StreamNext]_streamVars => StreamInv'
  BY InvNext
<1> QED
  BY <1>1, <1>2, PTL DEF StreamSpec

LEMMA InvImplies == StreamInv => DecoderInSync /\ ContentIsReply /\ DoneTellsWhole /\ UsageAddsUp
<1> SUFFICES ASSUME StreamInv
             PROVE  DecoderInSync /\ ContentIsReply /\ DoneTellsWhole /\ UsageAddsUp
  OBVIOUS
<1> USE DEF StreamInv
<1>1. DecoderInSync
  <2>1. frame = NoFrame => dataParts = <<>>
    BY EmptyLines DEF Framing
  <2> QED
    BY <2>1, Zenon DEF Framing, DecoderInSync
<1>2. ContentIsReply
  <2>1. ASSUME frame = NoFrame, ~cut, status # "abandoned"
        PROVE  content = sent
    <3>1. CASE status = "idle"
      BY <3>1 DEF IdleFresh
    <3>2. CASE status = "streaming"
      BY <2>1, <3>2, BareReads, NoFrameBare
    <3>3. CASE status = "returned"
      BY <2>1, <3>3 DEF Delivery
    <3>4. status # "raised"
      BY <2>1 DEF RaisedCut
    <3> QED
      BY <2>1, <3>1, <3>2, <3>3, <3>4, TypeParts DEF StatusTypes
  <2> QED
    BY <2>1 DEF Delivery, ContentIsReply
<1>3. DoneTellsWhole
  BY DEF Ending, DoneTellsWhole
<1>4. UsageAddsUp
  BY DEF Billing
<1> QED
  BY <1>1, <1>2, <1>3, <1>4

(* For every set of calls and usages and however long replies, frames and   *)
(* chunks are: events stay those of their frames, the consumer is given the *)
(* reply, Done tells a whole reply from a truncated one, the usage adds up. *)
THEOREM StreamsCorrect ==
  StreamSpec => [](DecoderInSync /\ ContentIsReply /\ DoneTellsWhole /\ UsageAddsUp)
BY StreamInvariant, InvImplies, PTL

-----------------------------------------------------------------------------
(* The streams implement ReplyStream.                                       *)

LEMMA SameExtends == \A S : \A s \in Seq(S) : Reply!Extends(s, s)
BY LenOrder DEF Reply!Extends

(* What a step within a stream has to be.                                   *)
LEMMA IsStreamStep ==
  ASSUME status = "streaming", Delivery', Ending',
         Reply!Extends(sent', sent), sent' # sent => done = 0,
         Reply!Extends(content', content), done' = done \/ done = 0,
         cut => cut', status' \in {"streaming", "returned", "raised", "abandoned"}
  PROVE  Reply!Stream
<1>1. /\ done' \in {0, 1} /\ (done' = 1 => content' = sent')
      /\ status' = "returned" => done' = 1 \/ cut'
  BY DEF Ending
<1>2. Reply!Produces
  BY DEF Reply!Produces
<1>3. Reply!Extends(sent', content')
  BY DEF Delivery, Reply!Extends
<1>4. Reply!Gives
  BY <1>1, <1>3 DEF Reply!Gives
<1>5. Reply!Ends
  BY <1>1 DEF Reply!Ends, Reply!Over
<1> QED
  BY <1>2, <1>4, <1>5 DEF Reply!Stream

LEMMA ReplyStep == StreamInv /\ [StreamNext]_streamVars => [Reply!Next]_(Reply!vars)
<1> SUFFICES ASSUME StreamInv, [StreamNext]_streamVars
             PROVE  Reply!Next \/ UNCHANGED Reply!vars
  OBVIOUS
<1> USE DEF StreamInv
<1>0. /\ Inv1 /\ Inv2 /\ Ending /\ sent \in Seq(PieceSet) /\ content \in Seq(PieceSet)
      /\ done \in {0, 1}
  BY TypeParts DEF Inv1, Inv2, ServerTypes, ParserTypes, Ending
<1>i. Delivery' /\ Ending'
  BY <1>0, DeliveryNext, EndingNext
<1>s. Reply!Extends(sent, sent) /\ Reply!Extends(content, content) /\ Reply!Extends(sent, content)
  BY <1>0, SameExtends DEF Delivery, Reply!Extends
<1>1. ASSUME NEW a \in Adapters, Open(a)
      PROVE  Reply!Next
  BY <1>1 DEF Open, parserVars, Reply!Open, Reply!Next
<1>2. CASE Leave
  BY <1>2 DEF Leave, Reply!Leave, Reply!Over, Reply!Next
<1>3. CASE Server
  <2>1. /\ content' = content /\ done' = done /\ status' = "streaming" /\ status = "streaming"
        /\ ~cut /\ frame = NoFrame /\ frame' \in FrameSet /\ sent' = sent \o Pieces(frame')
    BY <1>3, ServerTyped DEF Writes
  <2>2. done = 0 \/ Bare(frame')
    <3>1. EndFits
      BY <2>1, EndIs
    <3> QED
      BY <1>0, <1>3, <3>1, ServerEnds
  <2>3. Bare(frame') => sent' = sent
    BY <1>0, <2>1, BarePieces, ConcatEmptySeq
  <2>4. Reply!Extends(sent', sent)
    <3>1. Pieces(frame') \in Seq(PieceSet)
      BY <2>1, PiecesTyped
    <3> QED
      BY <1>0, <2>1, <3>1, Prefix DEF Reply!Extends
  <2>5. Reply!Stream
    BY <1>i, <1>s, <2>1, <2>2, <2>3, <2>4, IsStreamStep
  <2> QED
    BY <2>5 DEF Reply!Next
<1>4. CASE TransportError \/ Abandon
  <2>1. /\ status = "streaming" /\ status' \in {"raised", "abandoned"}
        /\ done' = done /\ content' = content /\ sent' = sent /\ (cut => cut')
    BY <1>4 DEF TransportError, Abandon, Closed, serverVars
  <2>2. Reply!Stream
    BY <1>i, <1>s, <2>1, IsStreamStep
  <2> QED
    BY <2>2 DEF Reply!Next
<1>5. CASE UNCHANGED streamVars \/ EventLine \/ DataLine \/ OtherLine \/ (BlankLine /\ ~Dispatches)
  <2>1. content' = content /\ sent' = sent /\ done' = done /\ cut' = cut /\ status' = status
    BY <1>5 DEF EventLine, DataLine, OtherLine, BlankLine, streamVars, serverVars, parserVars
  <2> QED
    BY <2>1 DEF Reply!vars
<1>6. CASE BlankLine /\ Dispatches
  <2>1. /\ status = "streaming" /\ sent' = sent /\ content' = sent /\ cut' = cut
        /\ status' = (IF Breaks(frame) THEN "returned" ELSE status)
        /\ done' = IF frame.finish THEN done + 1 ELSE done
    BY <1>0, <1>6, BlankReads DEF Inv2
  <2>2. done' = done \/ done = 0
    BY <1>0, <1>i, <2>1 DEF Ending
  <2>3. Reply!Stream
    BY <1>i, <1>s, <2>1, <2>2, IsStreamStep
  <2> QED
    BY <2>3 DEF Reply!Next
<1>7. CASE EndOfLines
  <2>1. /\ status = "streaming" /\ status' = "returned" /\ sent' = sent
        /\ \/ content' = content /\ done' = done
           \/ content' = sent /\ done' = IF frame.finish THEN done + 1 ELSE done
        /\ ~cut' => ~cut
    BY <1>0, <1>7, EndsLines DEF Inv2
  <2>2. done' = done \/ done = 0
    BY <1>0, <1>i, <2>1 DEF Ending
  <2>3. Reply!Stream
    BY <1>i, <1>s, <2>1, <2>2, IsStreamStep
  <2> QED
    BY <2>3 DEF Reply!Next
<1> QED
  BY <1>1, <1>2, <1>3, <1>4, <1>5, <1>6, <1>7 DEF StreamNext, Line

(* The streams of the adapters, with the wire and the parsers, are what     *)
(* ReplyStream promises to the code that iterates over them.                *)
THEOREM StreamsImplementReply == StreamSpec => ImplementsReply
<1>1. StreamInit => Reply!Init
  BY DEF StreamInit, Reply!Init
<1>2. StreamInv /\ [StreamNext]_streamVars => [Reply!Next]_(Reply!vars)
  BY ReplyStep
<1> QED
  BY <1>1, <1>2, StreamInvariant, PTL DEF StreamSpec, ImplementsReply, Reply!Spec
-----------------------------------------------------------------------------
(***************************************************************************)
(* ProviderCall: whatever calls are made one after the other, the stream   *)
(* of each is one that the theorems above are about, and a dropped         *)
(* parameter is logged once per model.                                     *)
(***************************************************************************)

(* The warnings that were logged are those that were given, and the call    *)
(* that waits has had its own.                                              *)
Logged(w, l) ==
  /\ w \subseteq Models.openai
  /\ l \in [Models.openai -> Nat]
  /\ \A m \in Models.openai : l[m] = IF m \in w THEN 1 ELSE 0

Waiting(r, b, w) ==
  r # NoRequest => r \in Requests /\ b = Body(r) /\ (Drops(r) => r.model \in w)

CallInv == Waiting(request, body, warned) /\ Logged(warned, logged)

LEMMA CallInitInv == CallInit => CallInv
BY DEF CallInit, CallInv, Waiting, Logged

LEMMA OneMoreWarning ==
  ASSUME NEW w, NEW l, Logged(w, l), NEW m \in Models.openai, m \notin w
  PROVE  Logged(w \cup {m}, [l EXCEPT ![m] = @ + 1])
BY DEF Logged

LEMMA PostWarns ==
  ASSUME CallInv, NEW r \in Requests, Post(r)
  PROVE  CallInv'
<1>1. Logged(warned, logged)
  BY DEF CallInv
<1>2. request' = r /\ body' = Body(r)
  BY DEF Post
<1>3. CASE Warns(r)
  <2>1. r.model \in Models.openai /\ r.model \notin warned
    BY <1>3 DEF Warns, Drops, ForbidsTemperature
  <2>2. warned' = warned \cup {r.model} /\ logged' = [logged EXCEPT ![r.model] = @ + 1]
    BY <1>3 DEF Post
  <2>3. Logged(warned', logged')
    BY <1>1, <2>1, <2>2, OneMoreWarning
  <2> QED
    BY <1>2, <2>2, <2>3 DEF CallInv, Waiting
<1>4. CASE ~Warns(r)
  <2>1. warned' = warned /\ logged' = logged
    BY <1>4 DEF Post
  <2>2. Drops(r) => r.model \in warned
    BY <1>4 DEF Warns
  <2> QED
    BY <1>1, <1>2, <2>1, <2>2 DEF CallInv, Waiting
<1> QED
  BY <1>3, <1>4

LEMMA CallInvNext == CallInv /\ [CallNext]_<<streamVars, callVars>> => CallInv'
<1> SUFFICES ASSUME CallInv, [CallNext]_<<streamVars, callVars>>
             PROVE  CallInv'
  OBVIOUS
<1>1. ASSUME NEW r \in Requests, Post(r)
      PROVE  CallInv'
  BY <1>1, PostWarns
<1>2. ASSUME NEW r \in Requests, Reject(r)
      PROVE  CallInv'
  BY <1>2 DEF Reject, CallInv
<1>3. CASE Refuse \/ Complete \/ BeginStream
  <2>1. request' = NoRequest /\ warned' = warned /\ logged' = logged
    BY <1>3 DEF Refuse, Complete, BeginStream, Answered
  <2> QED
    BY <2>1 DEF CallInv, Waiting
<1>4. CASE UNCHANGED callVars
  BY <1>4 DEF callVars, CallInv
<1> QED
  BY <1>1, <1>2, <1>3, <1>4 DEF CallNext

LEMMA CallInvariant == CallSpec => []CallInv
<1>1. CallInit => CallInv
  BY CallInitInv
<1>2. CallInv /\ [CallNext]_<<streamVars, callVars>> => CallInv'
  BY CallInvNext
<1> QED
  BY <1>1, <1>2, PTL DEF CallSpec

LEMMA InvWarnsOnce == CallInv => WarnedOnce
<1> SUFFICES ASSUME CallInv
             PROVE  WarnedOnce
  OBVIOUS
<1>1. Logged(warned, logged) /\ Waiting(request, body, warned)
  BY DEF CallInv
<1>2. ASSUME request # NoRequest, request.temperature, ~body.temperature
      PROVE  ForbidsTemperature(request.model) /\ logged[request.model] = 1
  <2>1. body = Body(request) /\ (Drops(request) => request.model \in warned)
    BY <1>1, <1>2 DEF Waiting
  <2>2. Drops(request)
    BY <1>2, <2>1 DEF Body, AnthropicBody, OpenAIBody
  <2>3. request.model \in warned /\ request.model \in Models.openai
    BY <2>1, <2>2 DEF Drops, ForbidsTemperature
  <2> QED
    BY <1>1, <2>3 DEF Logged, ForbidsTemperature
<1> QED
  BY <1>1, <1>2 DEF Logged, WarnedOnce

(* For any calls: a parameter the model forbids is dropped with one warning *)
(* per model, and none that the model takes is dropped.                     *)
THEOREM WarnsOnce == CallSpec => []WarnedOnce
BY CallInvariant, InvWarnsOnce, PTL

LEMMA CallStepStreams == CallInv /\ [CallNext]_<<streamVars, callVars>> => [StreamNext]_streamVars
<1> SUFFICES ASSUME CallInv, [CallNext]_<<streamVars, callVars>>
             PROVE  StreamNext \/ UNCHANGED streamVars
  OBVIOUS
<1>1. CASE BeginStream
  <2>1. request \in Requests
    BY <1>1 DEF BeginStream, Answered, CallInv, Waiting
  <2>2. request.adapter \in Adapters
    BY <2>1, RequestAssumption
  <2> QED
    BY <1>1, <2>2 DEF BeginStream, StreamNext
<1>2. CASE Server \/ Line \/ TransportError \/ Abandon \/ Leave
  BY <1>2 DEF StreamNext
<1>3. CASE Refuse \/ Complete \/ UNCHANGED <<streamVars, callVars>>
  BY <1>3 DEF Refuse, Complete
<1>4. ASSUME NEW r \in Requests, Reject(r) \/ Post(r)
      PROVE  UNCHANGED streamVars
  BY <1>4 DEF Reject, Post
<1> QED
  BY <1>1, <1>2, <1>3, <1>4 DEF CallNext

LEMMA CallsAreStreams == CallSpec => StreamSpec
<1>1. CallInit => StreamInit
  BY DEF CallInit
<1>2. CallInv /\ [CallNext]_<<streamVars, callVars>> => [StreamNext]_streamVars
  BY CallStepStreams
<1> QED
  BY <1>1, <1>2, CallInvariant, PTL DEF CallSpec, StreamSpec

(* In any sequence of calls events stay those of their frames, a frame that *)
(* has no name is given none but that of a ping, the consumer is given the  *)
(* reply, Done tells a whole reply from a truncated one, and the usage adds *)
(* up.                                                                      *)
THEOREM CallsCorrect ==
  CallSpec => [](DecoderInSync /\ ContentIsReply /\ DoneTellsWhole /\ UsageAddsUp)
BY CallsAreStreams, StreamsCorrect, PTL

(* Each stream of a sequence of calls is what ReplyStream promises.         *)
THEOREM CallsImplementReply == CallSpec => ImplementsReply
BY CallsAreStreams, StreamsImplementReply, PTL

-----------------------------------------------------------------------------
(***************************************************************************)
(* stream() and complete(): what is filtered out of the pieces, and the    *)
(* usage that is reported when a whole reply has been read.                *)
(***************************************************************************)

(* The elements that are kept are at the positions g.                       *)
KeptAt(s, P, g) ==
  /\ Cardinality(P) \in Nat /\ g \in [1 .. Cardinality(P) -> P]
  /\ Kept(s, P) = [i \in 1 .. Cardinality(P) |-> s[g[i]]]
  /\ \A i, j \in 1 .. Cardinality(P) : i < j => g[i] < g[j]
  /\ \A p \in P : \E i \in 1 .. Cardinality(P) : g[i] = p

LEMMA KeptIs ==
  ASSUME NEW n \in Nat, NEW P \in SUBSET (1 .. n), NEW s
  PROVE  \E g : KeptAt(s, P, g)
<1> DEFINE g == [i \in 1 .. Cardinality(P) |-> CHOOSE p \in P : Rank(P, p) = i]
<1>1. /\ Cardinality(P) \in Nat /\ g \in [1 .. Cardinality(P) -> P]
      /\ \A i, j \in 1 .. Cardinality(P) : i < j => g[i] < g[j]
      /\ \A p \in P : \E i \in 1 .. Cardinality(P) : g[i] = p
  BY Enumerated, Zenon
<1>2. Kept(s, P) = [i \in 1 .. Cardinality(P) |-> s[g[i]]]
  <2>1. \A i \in 1 .. Cardinality(P) :
          g[i] = CHOOSE p \in P : Cardinality({q \in P : q <= p}) = i
    BY Zenon DEF Rank
  <2> HIDE DEF g
  <2> DEFINE at(i) == CHOOSE p \in P : Cardinality({q \in P : q <= p}) = i
  <2>2. \A i \in 1 .. Cardinality(P) : s[g[i]] = s[at(i)]
    BY <2>1
  <2>3. Kept(s, P) = [i \in 1 .. Cardinality(P) |-> s[at(i)]]
    BY DEF Kept
  <2> HIDE DEF at
  <2> QED
    BY <2>2, <2>3
<1> HIDE DEF g
<1> QED
  BY <1>1, <1>2 DEF KeptAt

LEMMA KeptNone == \A s : Kept(s, {}) = <<>>
<1>1. Cardinality({}) = 0
  BY FS_EmptySet
<1>2. 1 .. 0 = {}
  OBVIOUS
<1> QED
  BY <1>1, <1>2 DEF Kept

NoReasoning(s) == \A k \in DOMAIN s : s[k].kind # "reasoning"

LEMMA NothingReasoned == \A s : NoReasoning(s) => Only(s, "reasoning") = <<>>
<1> SUFFICES ASSUME NEW s, NoReasoning(s)
             PROVE  Only(s, "reasoning") = <<>>
  OBVIOUS
<1>1. {k \in DOMAIN s : s[k].kind = "reasoning"} = {}
  BY DEF NoReasoning
<1> QED
  BY <1>1, KeptNone DEF Only

LEMMA ConcatReasons ==
  ASSUME NEW S, NEW s \in Seq(S), NEW t \in Seq(S), NoReasoning(s), NoReasoning(t)
  PROVE  NoReasoning(s \o t)
BY DEF NoReasoning

LEMMA PiecesReason ==
  ASSUME NEW f \in FrameSet, ~f.reasoning
  PROVE  NoReasoning(Pieces(f))
<1> DEFINE tools == [k \in DOMAIN f.tools |-> Piece("tool", f.tools[k].index, f.tools[k].index)]
<1>1. f.tools \in Seq(Fragments) /\ f.text \in BOOLEAN
  BY FrameFields
<1>2. tools \in Seq(PieceSet)
  BY FragmentPieces
<1>3. NoReasoning(tools)
  BY DEF NoReasoning, Piece
<1>4. If(f.text, "text") \in Seq(PieceSet) /\ If(FALSE, "reasoning") \in Seq(PieceSet)
  BY <1>1, IfTyped
<1>5. NoReasoning(If(f.text, "text")) /\ NoReasoning(If(FALSE, "reasoning"))
  BY DEF NoReasoning, If, Piece
<1> HIDE DEF tools
<1>6. If(FALSE, "reasoning") \o If(f.text, "text") \in Seq(PieceSet)
  BY <1>4, ConcatProperties
<1>7. NoReasoning((If(FALSE, "reasoning") \o If(f.text, "text")) \o tools)
  BY <1>2, <1>3, <1>4, <1>5, <1>6, ConcatReasons
<1>8. f.reasoning = FALSE
  BY FrameFields
<1> QED
  BY <1>7, <1>8 DEF Pieces, tools

(* The usage of a bill.                                                     *)
Stated == IF adapter = "anthropic" THEN billed ELSE SplitUsage(billed)

(* Only Moonshot reasons in the open, and the last usage is the one of the  *)
(* bill, field by field.                                                    *)
Agreed ==
  /\ adapter # "moonshot" => NoReasoning(sent)
  /\ status = "streaming" /\ adapter = "anthropic" /\ phase # "opening" => billed.reasoning = 0
  /\ status = "returned" /\ ~cut => reported = Stated

LEMMA FieldsOfUsage ==
  ASSUME NEW u \in UsageSet, u.reasoning = 0
  PROVE  [in |-> u.in, out |-> u.out, reasoning |-> 0] = u
BY DEF UsageSet

(* When the last frame has been read, the usage is that of the bill.        *)
LEMMA BillStated ==
  ASSUME StreamInv, Agreed, status = "streaming", phase = "closed",
         frame = NoFrame \/ (adapter # "anthropic" /\ frame.payload = "[DONE]")
  PROVE  reported = Stated
<1>1. OpenAIBilling /\ AnthropicBilling /\ billed \in UsageSet
  BY DEF StreamInv, Billing, StreamTypeOK
<1>2. frame.usage = NoUsage /\ ~frame.finish
  BY NoFrameFields DEF StreamInv, FrameShape
<1>3. CASE adapter # "anthropic"
  BY <1>1, <1>2, <1>3 DEF OpenAIBilling, Stated
<1>4. CASE adapter = "anthropic"
  <2>1. frame.type = ""
    BY <1>4, NoFrameFields
  <2>2. reported = [in |-> billed.in, out |-> billed.out, reasoning |-> 0]
    BY <1>1, <1>2, <1>4, <2>1 DEF AnthropicBilling
  <2>3. billed.reasoning = 0
    BY <1>4 DEF Agreed
  <2> QED
    BY <1>1, <1>4, <2>2, <2>3, FieldsOfUsage DEF Stated
<1> QED
  BY <1>3, <1>4

LEMMA OpenAgrees ==
  ASSUME StreamInv, NEW a \in Adapters, Open(a)
  PROVE  Agreed'
<1>1. /\ sent' = <<>> /\ status' = "streaming" /\ adapter' = a
      /\ phase' = IF a = "anthropic" THEN "opening" ELSE "open"
  BY DEF Open, StreamInv, IdleFresh
<1> QED
  BY <1>1, EmptyDomain DEF Agreed, NoReasoning

(* What the server writes: its pieces are Moonshot's if they are reasoning. *)
LEMMA ServerAgrees ==
  ASSUME StreamInv, Agreed, Server
  PROVE  Agreed'
<1>1. Writes /\ FrameShape' /\ sent \in Seq(PieceSet)
  BY ServerTyped, ServerShape DEF StreamInv, StreamTypeOK
<1>2. adapter' = adapter /\ status' = "streaming" /\ status = "streaming"
  BY <1>1 DEF Writes
<1>3. adapter # "moonshot" => NoReasoning(sent')
  <2> SUFFICES ASSUME adapter # "moonshot"
               PROVE  NoReasoning(sent')
    OBVIOUS
  <2>1. ~frame'.reasoning /\ frame' \in FrameSet
    BY <1>1, <1>2 DEF Writes, FrameShape
  <2>2. NoReasoning(Pieces(frame')) /\ Pieces(frame') \in Seq(PieceSet)
    BY <2>1, PiecesReason, PiecesTyped
  <2>3. NoReasoning(sent)
    BY DEF Agreed
  <2> QED
    BY <1>1, <2>2, <2>3, ConcatReasons DEF Writes
<1>4. adapter = "anthropic" /\ phase' # "opening" => billed'.reasoning = 0
  <2> SUFFICES ASSUME adapter = "anthropic", phase' # "opening"
               PROVE  billed'.reasoning = 0
    OBVIOUS
  <2>0. billed \in UsageSet /\ (phase # "opening" => billed.reasoning = 0)
    BY <1>2 DEF Agreed, StreamInv, StreamTypeOK
  <2>1. ASSUME NEW u \in Usages, MessageStart(u)
        PROVE  billed'.reasoning = 0
    <3>1. billed' = [u EXCEPT !.out = 0, !.reasoning = 0] /\ u \in UsageSet
      BY <2>1, UsagesTyped DEF MessageStart
    <3> QED
      BY <3>1, Zenon DEF UsageSet
  <2>2. ASSUME NEW u \in Usages, NEW finish \in BOOLEAN, MessageDelta(u, finish)
        PROVE  billed'.reasoning = 0
    <3>1. billed' = [billed EXCEPT !.out = u.out] /\ phase = "open"
      BY <2>2 DEF MessageDelta
    <3>2. [billed EXCEPT !.out = u.out].reasoning = billed.reasoning
      BY <2>0, Zenon DEF UsageSet
    <3> QED
      BY <2>0, <3>1, <3>2
  <2>3. CASE \/ \E c \in Calls \cup {NoCall} : BlockStart(c)
             \/ BlockDelta \/ BlockStop \/ MessageStop \/ KeepAlive \/ ServerError
    <3>1. billed' = billed /\ phase # "opening"
      BY <2>3 DEF BlockStart, BlockDelta, BlockStop, MessageStop, KeepAlive, ServerError,
                  serverVars, Begin
    <3> QED
      BY <2>0, <3>1
  <2>4. ~Chunk /\ ~DoneMarker /\ \A u \in Usages : ~UsageChunk(u)
    BY DEF Chunk, DoneMarker, UsageChunk
  <2> QED
    BY <2>1, <2>2, <2>3, <2>4 DEF Server
<1> QED
  BY <1>2, <1>3, <1>4 DEF Agreed

(* The last frame of OpenAI and the end of the lines.                       *)
LEMMA LastAgrees ==
  ASSUME StreamInv, Agreed, BlankLine \/ EndOfLines
  PROVE  Agreed'
<1>1. /\ Inv1 /\ Delivery /\ ToolsKnown /\ BlockKnown
      /\ status = "streaming" /\ sent' = sent /\ adapter' = adapter
      /\ phase' = phase /\ billed' = billed
  BY DEF StreamInv, Inv1, BlankLine, EndOfLines, Writing, serverVars
<1>2. ASSUME status' = "returned", ~cut'
      PROVE  /\ phase = "closed" /\ reported' = reported
             /\ frame = NoFrame \/ (adapter # "anthropic" /\ frame.payload = "[DONE]")
  <2>1. CASE EndOfLines
    BY <1>1, <1>2, <2>1, EndsLines
  <2>2. CASE BlankLine /\ Dispatches
    <3>1. Parse(frame) /\ Breaks(frame)
      BY <1>1, <1>2, <2>2, BlankReads
    <3>2. phase = "closed"
      BY <1>1, <3>1 DEF Breaks, StreamInv, Ending
    <3>3. reported' = reported
      BY <3>1 DEF Breaks, Parse, parserVars
    <3> QED
      BY <3>1, <3>2, <3>3 DEF Breaks
  <2>3. CASE BlankLine /\ ~Dispatches
    BY <1>1, <1>2, <2>3 DEF BlankLine
  <2> QED
    BY <2>1, <2>2, <2>3
<1>3. status' = "returned" /\ ~cut' => reported' = Stated'
  <2> SUFFICES ASSUME status' = "returned", ~cut'
               PROVE  reported' = Stated'
    OBVIOUS
  <2>1. reported' = reported /\ reported = Stated
    BY <1>1, <1>2, BillStated
  <2> QED
    BY <1>1, <2>1 DEF Stated
<1> QED
  BY <1>1, <1>3 DEF Agreed

LEMMA AgreedNext == StreamInv /\ Agreed /\ [StreamNext]_streamVars => Agreed'
<1> SUFFICES ASSUME StreamInv, Agreed, [StreamNext]_streamVars
             PROVE  Agreed'
  OBVIOUS
<1>1. CASE Leave
  BY <1>1, EmptyDomain DEF Leave, Agreed, NoReasoning
<1>2. CASE TransportError \/ Abandon
  BY <1>2 DEF TransportError, Abandon, Closed, serverVars, Agreed
<1>3. CASE UNCHANGED streamVars
  BY <1>3 DEF streamVars, serverVars, parserVars, Agreed, Stated
<1>4. CASE EventLine \/ DataLine \/ OtherLine
  BY <1>4 DEF EventLine, DataLine, OtherLine, Writing, serverVars, Agreed
<1>5. CASE BlankLine \/ EndOfLines
  BY <1>5, LastAgrees
<1>6. CASE Server
  BY <1>6, ServerAgrees
<1>7. ASSUME NEW a \in Adapters, Open(a)
      PROVE  Agreed'
  BY <1>7, OpenAgrees
<1> QED
  BY <1>1, <1>2, <1>3, <1>4, <1>5, <1>6, <1>7 DEF StreamNext, Line

LEMMA AgreedInvariant == StreamSpec => []Agreed
<1>1. StreamInit => Agreed
  BY EmptyDomain DEF StreamInit, Agreed, NoReasoning
<1>2. StreamInv /\ Agreed /\ [StreamNext]_streamVars => Agreed'
  BY AgreedNext
<1> QED
  BY <1>1, <1>2, StreamInvariant, PTL DEF StreamSpec

LEMMA InvAgrees == StreamInv /\ Agreed => StreamAgreesWithComplete
<1> SUFFICES ASSUME StreamInv, Agreed, status = "returned", ~cut
             PROVE  Completion(adapter, sent, billed) =
                      [text |-> Only(content, "text"), reasoning |-> Only(content, "reasoning"),
                       usage |-> reported]
  BY DEF StreamAgreesWithComplete
<1>1. content = sent
  BY DEF StreamInv, Delivery
<1>2. reported = Stated /\ (adapter # "moonshot" => NoReasoning(sent))
  BY DEF Agreed
<1>3. adapter \in {"openai", "moonshot", "anthropic"}
  BY DEF StreamInv, StreamTypeOK, Adapters
<1>4. CASE adapter = "anthropic"
  BY <1>1, <1>2, <1>4, NothingReasoned DEF Completion, AnthropicCompletion, Stated
<1>5. CASE adapter = "openai"
  BY <1>1, <1>2, <1>5, NothingReasoned DEF Completion, OpenAICompletion, Stated
<1>6. CASE adapter = "moonshot"
  BY <1>1, <1>2, <1>6 DEF Completion, MoonshotCompletion, OpenAICompletion, Stated
<1> QED
  BY <1>3, <1>4, <1>5, <1>6

(* In any sequence of calls, a stream that is read to its end gives the     *)
(* text, the reasoning and the usage that complete() returns for the reply. *)
THEOREM AnswersAgree == CallSpec => []StreamAgreesWithComplete
BY CallsAreStreams, StreamInvariant, AgreedInvariant, InvAgrees, PTL

-----------------------------------------------------------------------------
(***************************************************************************)
(* The request: what Anthropic is sent are the system messages and then    *)
(* the turns, each at the place `pos` of the prepared messages.            *)
(***************************************************************************)

LEMMA KeptSeq ==
  ASSUME NEW M, NEW s \in Seq(M), NEW P \in SUBSET (1 .. Len(s))
  PROVE  \E g : KeptAt(s, P, g) /\ Kept(s, P) \in Seq(M) /\ Len(Kept(s, P)) = Cardinality(P)
<1>1. PICK g : KeptAt(s, P, g)
  <2>1. Len(s) \in Nat
    OBVIOUS
  <2> QED
    BY <2>1, KeptIs, Zenon
<1>2. \A i \in 1 .. Cardinality(P) : g[i] \in 1 .. Len(s) /\ s[g[i]] \in M
  <2> SUFFICES ASSUME NEW i \in 1 .. Cardinality(P)
               PROVE  g[i] \in 1 .. Len(s) /\ s[g[i]] \in M
    OBVIOUS
  <2>1. g[i] \in P
    BY <1>1, Zenon DEF KeptAt
  <2>2. g[i] \in 1 .. Len(s)
    BY <2>1
  <2> QED
    BY <2>2
<1>3. Cardinality(P) \in Nat /\ Kept(s, P) = [i \in 1 .. Cardinality(P) |-> s[g[i]]]
  BY <1>1 DEF KeptAt
<1>4. Kept(s, P) \in Seq(M) /\ Len(Kept(s, P)) = Cardinality(P)
  BY <1>2, <1>3
<1> QED
  BY <1>1, <1>4

Placed(ms, sys, turns, pos) ==
  LET all == sys \o turns IN
  /\ Len(sys) \in Nat /\ Len(turns) \in Nat
  /\ DOMAIN all = 1 .. Len(sys) + Len(turns)
  /\ DOMAIN sys = 1 .. Len(sys) /\ DOMAIN turns = 1 .. Len(turns)
  /\ pos \in [DOMAIN all -> 1 .. Len(ms)]
  /\ \A k \in DOMAIN all :
       all[k] = ms[pos[k]] /\ (IsSystem(ms[pos[k]]) <=> k <= Len(sys))
  /\ \A i \in DOMAIN sys : sys[i] = ms[pos[i]]
  /\ \A i \in DOMAIN turns : turns[i] = ms[pos[Len(sys) + i]]
  /\ \A i, j \in DOMAIN all :
       i < j /\ (j <= Len(sys) \/ Len(sys) < i) => pos[i] < pos[j]
  /\ \A p \in 1 .. Len(ms) : \E k \in DOMAIN all : pos[k] = p

LEMMA Places ==
  ASSUME NEW M, NEW ms \in Seq(M)
  PROVE  LET sys == Kept(ms, {k \in DOMAIN ms : IsSystem(ms[k])})
             turns == Kept(ms, {k \in DOMAIN ms : IsTurn(ms[k])})
         IN  \E pos : Placed(ms, sys, turns, pos)
<1> DEFINE S == {k \in DOMAIN ms : IsSystem(ms[k])}
           T == {k \in DOMAIN ms : IsTurn(ms[k])}
           sys == Kept(ms, S)
           turns == Kept(ms, T)
           all == sys \o turns
<1>1. /\ S \in SUBSET (1 .. Len(ms)) /\ T \in SUBSET (1 .. Len(ms)) /\ Len(ms) \in Nat
      /\ \A k \in 1 .. Len(ms) : k \in T <=> k \notin S
      /\ \A k \in 1 .. Len(ms) : k \in S <=> IsSystem(ms[k])
  BY DEF IsSystem, IsTurn
<1> HIDE DEF S, T
<1>2. PICK g : KeptAt(ms, S, g) /\ sys \in Seq(M) /\ Len(sys) = Cardinality(S)
  BY <1>1, KeptSeq
<1>3. PICK h : KeptAt(ms, T, h) /\ turns \in Seq(M) /\ Len(turns) = Cardinality(T)
  BY <1>1, KeptSeq
<1> DEFINE c == Len(sys)
           d == Len(turns)
           pos == [k \in 1 .. c + d |-> IF k <= c THEN g[k] ELSE h[k - c]]
<1>4. /\ c \in Nat /\ g \in [1 .. c -> S] /\ sys = [i \in 1 .. c |-> ms[g[i]]]
      /\ \A i, j \in 1 .. c : i < j => g[i] < g[j]
      /\ \A p \in S : \E i \in 1 .. c : g[i] = p
  BY <1>2 DEF KeptAt
<1>5. /\ d \in Nat /\ h \in [1 .. d -> T] /\ turns = [i \in 1 .. d |-> ms[h[i]]]
      /\ \A i, j \in 1 .. d : i < j => h[i] < h[j]
      /\ \A p \in T : \E i \in 1 .. d : h[i] = p
  BY <1>3 DEF KeptAt
<1>6. /\ all \in Seq(M) /\ Len(all) = c + d
      /\ \A i \in 1 .. c + d : all[i] = IF i <= c THEN sys[i] ELSE turns[i - c]
  BY <1>2, <1>3, ConcatProperties
<1>7. DOMAIN all = 1 .. c + d /\ DOMAIN sys = 1 .. c /\ DOMAIN turns = 1 .. d
  BY <1>2, <1>3, <1>6
<1> HIDE DEF sys, turns, all, c, d
<1>8. ASSUME NEW k \in 1 .. c + d
      PROVE  /\ k <= c => k \in 1 .. c /\ pos[k] = g[k] /\ pos[k] \in S /\ all[k] = ms[pos[k]]
             /\ ~(k <= c) => /\ k - c \in 1 .. d /\ pos[k] = h[k - c] /\ pos[k] \in T
                             /\ all[k] = ms[pos[k]]
  <2>1. CASE k <= c
    <3>1. k \in 1 .. c /\ pos[k] = g[k]
      BY <1>4, <1>5, <2>1
    <3> HIDE DEF pos
    <3> QED
      BY <1>4, <1>6, <2>1, <3>1
  <2>2. CASE ~(k <= c)
    <3>1. k - c \in 1 .. d /\ pos[k] = h[k - c]
      BY <1>4, <1>5, <2>2
    <3> HIDE DEF pos
    <3> QED
      BY <1>5, <1>6, <2>2, <3>1
  <2> QED
    BY <2>1, <2>2
<1>9. pos = [k \in 1 .. c + d |-> pos[k]]
  OBVIOUS
<1> HIDE DEF pos
<1>10. \A k \in 1 .. c + d :
         /\ pos[k] \in 1 .. Len(ms) /\ all[k] = ms[pos[k]]
         /\ IsSystem(ms[pos[k]]) <=> k <= c
  BY <1>1, <1>8
<1>11. pos \in [1 .. c + d -> 1 .. Len(ms)]
  BY <1>9, <1>10
<1>12. \A i \in 1 .. c : sys[i] = ms[pos[i]]
  <2> SUFFICES ASSUME NEW i \in 1 .. c
               PROVE  sys[i] = ms[pos[i]]
    OBVIOUS
  <2>1. i \in 1 .. c + d /\ i <= c
    BY <1>4, <1>5
  <2> QED
    BY <1>6, <1>8, <2>1
<1>13. \A i \in 1 .. d : turns[i] = ms[pos[c + i]]
  <2> SUFFICES ASSUME NEW i \in 1 .. d
               PROVE  turns[i] = ms[pos[c + i]]
    OBVIOUS
  <2>1. c + i \in 1 .. c + d /\ ~(c + i <= c) /\ (c + i) - c = i
    BY <1>4, <1>5
  <2>2. all[c + i] = turns[i]
    BY <1>6, <2>1
  <2> QED
    BY <1>8, <2>1, <2>2
<1>14. ASSUME NEW i \in 1 .. c + d, NEW j \in 1 .. c + d, i < j, j <= c \/ c < i
       PROVE  pos[i] < pos[j]
  <2>1. CASE j <= c
    <3>1. i <= c
      BY <1>4, <1>14, <2>1
    <3> QED
      BY <1>4, <1>8, <1>14, <2>1, <3>1
  <2>2. CASE c < i
    <3>1. ~(i <= c) /\ ~(j <= c) /\ i - c < j - c
      BY <1>4, <1>5, <1>14, <2>2
    <3> QED
      BY <1>5, <1>8, <3>1
  <2> QED
    BY <1>14, <2>1, <2>2
<1>15. ASSUME NEW p \in 1 .. Len(ms)
       PROVE  \E k \in 1 .. c + d : pos[k] = p
  <2>1. CASE p \in S
    <3>1. PICK i \in 1 .. c : g[i] = p
      BY <1>4, <2>1
    <3>2. i \in 1 .. c + d /\ i <= c
      BY <1>4, <1>5
    <3> QED
      BY <1>8, <3>1, <3>2
  <2>2. CASE p \notin S
    <3>1. PICK i \in 1 .. d : h[i] = p
      BY <1>1, <1>5, <2>2
    <3>2. c + i \in 1 .. c + d /\ ~(c + i <= c) /\ (c + i) - c = i
      BY <1>4, <1>5
    <3>3. pos[c + i] = h[(c + i) - c]
      BY <1>8, <3>2
    <3> QED
      BY <3>1, <3>2, <3>3
  <2> QED
    BY <2>1, <2>2
<1>16. Placed(ms, sys, turns, pos)
  BY <1>4, <1>5, <1>7, <1>10, <1>11, <1>12, <1>13, <1>14, <1>15 DEF Placed, all, c, d
<1> QED
  BY <1>16 DEF sys, turns, S, T

Messages == [role : Roles, nr : Nat, instructed : BOOLEAN]

(* The messages of a call: the caller's, in their order, and at most one of *)
(* them, the first system message, has the instruction.                     *)
Conversation(r, ms) ==
  /\ ms \in Seq(Messages)
  /\ {ms[k].nr : k \in DOMAIN ms} \ {0} = DOMAIN r.roles
  /\ \A k \in DOMAIN ms : ms[k].nr # 0 => ms[k].role = r.roles[ms[k].nr]
  /\ \A i, j \in DOMAIN ms : i < j => ms[i].nr < ms[j].nr
  /\ r.op # "json" => \A k \in DOMAIN ms : ~ms[k].instructed
  /\ r.op = "json" =>
       \E k \in DOMAIN ms :
         /\ \A j \in DOMAIN ms : ms[j].instructed <=> j = k
         /\ IsSystem(ms[k]) /\ \A j \in 1 .. k - 1 : ~IsSystem(ms[j])

LEMMA GivenIs ==
  ASSUME NEW r \in Requests
  PROVE  /\ Len(r.roles) \in Nat /\ DOMAIN r.roles = 1 .. Len(r.roles)
         /\ Given(r) \in Seq(Messages)
         /\ Len(Given(r)) = Len(r.roles) /\ DOMAIN Given(r) = 1 .. Len(r.roles)
         /\ \A k \in 1 .. Len(r.roles) :
              /\ Given(r)[k].role = r.roles[k] /\ Given(r)[k].nr = k
              /\ Given(r)[k].instructed = FALSE
<1>1. r.roles \in Seq(Roles)
  BY RequestAssumption
<1>2. DOMAIN r.roles = 1 .. Len(r.roles) /\ Len(r.roles) \in Nat
  BY <1>1
<1>3. \A k \in 1 .. Len(r.roles) :
        [role |-> r.roles[k], nr |-> k, instructed |-> FALSE] \in Messages
  BY <1>1 DEF Messages
<1>4. Given(r) = [k \in 1 .. Len(r.roles) |->
                    [role |-> r.roles[k], nr |-> k, instructed |-> FALSE]]
  BY <1>2 DEF Given
<1>5. Given(r) \in Seq(Messages)
  BY <1>2, <1>3, <1>4, IsASeq
<1>6. Len(Given(r)) = Len(r.roles) /\ DOMAIN Given(r) = 1 .. Len(r.roles)
  BY <1>2, <1>4
<1> QED
  BY <1>2, <1>4, <1>5, <1>6

(* A new message in front has the number 0.                                 *)
LEMMA InFront ==
  ASSUME NEW r \in Requests, r.op = "json", \A k \in DOMAIN Given(r) : ~IsSystem(Given(r)[k])
  PROVE  Conversation(r, <<[role |-> "system", nr |-> 0, instructed |-> TRUE]>> \o Given(r))
<1> DEFINE m == [role |-> "system", nr |-> 0, instructed |-> TRUE]
           gs == Given(r)
           n == Len(r.roles)
           ms == <<m>> \o gs
<1>1. m \in Messages /\ m.nr = 0 /\ m.instructed = TRUE /\ IsSystem(m)
  BY DEF Messages, Roles, IsSystem
<1>2. /\ gs \in Seq(Messages) /\ Len(gs) = n /\ n \in Nat /\ DOMAIN r.roles = 1 .. n
      /\ \A k \in 1 .. n : gs[k].role = r.roles[k] /\ gs[k].nr = k /\ gs[k].instructed = FALSE
  BY GivenIs
<1> HIDE DEF m, gs, n
<1>3. /\ ms \in Seq(Messages) /\ Len(ms) = n + 1
      /\ \A i \in 1 .. n + 1 : ms[i] = IF i = 1 THEN m ELSE gs[i - 1]
  <2>1. <<m>> \in Seq(Messages) /\ Len(<<m>>) = 1 /\ <<m>>[1] = m
    BY <1>1
  <2>2. /\ ms \in Seq(Messages) /\ Len(ms) = 1 + n
        /\ \A i \in 1 .. 1 + n : ms[i] = IF i <= 1 THEN <<m>>[i] ELSE gs[i - 1]
    BY <1>2, <2>1, ConcatProperties
  <2> HIDE DEF ms
  <2> QED
    BY <1>2, <2>1, <2>2
<1> HIDE DEF ms
<1>4. DOMAIN ms = 1 .. n + 1 /\ 1 \in DOMAIN ms
  BY <1>2, <1>3
<1>5. ASSUME NEW k \in 1 .. n + 1
      PROVE  /\ ms[k].nr = k - 1 /\ (ms[k].instructed <=> k = 1)
             /\ k # 1 => ms[k].nr \in 1 .. n /\ ms[k].role = r.roles[ms[k].nr]
  <2>1. CASE k = 1
    BY <1>1, <1>3, <2>1
  <2>2. CASE k # 1
    <3>1. k - 1 \in 1 .. n
      BY <1>2, <2>2
    <3>2. ms[k] = gs[k - 1]
      BY <1>3, <2>2
    <3> QED
      BY <1>2, <2>2, <3>1, <3>2
  <2> QED
    BY <2>1, <2>2
<1>6. {ms[k].nr : k \in DOMAIN ms} \ {0} = DOMAIN r.roles
  <2>1. ASSUME NEW i \in 1 .. n
        PROVE  \E k \in DOMAIN ms : ms[k].nr = i /\ i # 0
    <3>1. i + 1 \in DOMAIN ms /\ (i + 1) - 1 = i /\ i # 0
      BY <1>2, <1>4
    <3> QED
      BY <1>4, <1>5, <3>1
  <2>2. ASSUME NEW k \in DOMAIN ms, ms[k].nr # 0
        PROVE  ms[k].nr \in 1 .. n
    BY <1>4, <1>5, <2>2
  <2> QED
    BY <1>2, <2>1, <2>2
<1>7. \A k \in DOMAIN ms : ms[k].nr # 0 => ms[k].role = r.roles[ms[k].nr]
  BY <1>4, <1>5
<1>8. \A i, j \in DOMAIN ms : i < j => ms[i].nr < ms[j].nr
  <2>1. \A i, j \in 1 .. n + 1 : i < j => i - 1 < j - 1
    BY <1>2
  <2> QED
    BY <1>4, <1>5, <2>1
<1>9. /\ \A j \in DOMAIN ms : ms[j].instructed <=> j = 1
      /\ IsSystem(ms[1]) /\ \A j \in 1 .. 1 - 1 : ~IsSystem(ms[j])
  BY <1>1, <1>3, <1>4, <1>5
<1>10. Conversation(r, ms)
  BY <1>3, <1>4, <1>6, <1>7, <1>8, <1>9 DEF Conversation
<1> QED
  BY <1>10 DEF ms, m, gs

(* The messages with the instruction, or none, in the one at `at`.          *)
LEMMA Marked ==
  ASSUME NEW r \in Requests, NEW ms \in Seq(Messages), Len(ms) = Len(r.roles), NEW at,
         \A k \in 1 .. Len(r.roles) :
           /\ ms[k].role = r.roles[k] /\ ms[k].nr = k
           /\ ms[k].instructed <=> k = at,
         r.op # "json" => at = 0,
         r.op = "json" => /\ at \in 1 .. Len(r.roles) /\ IsSystem(ms[at])
                          /\ \A j \in 1 .. at - 1 : ~IsSystem(ms[j])
  PROVE  Conversation(r, ms)
<1> DEFINE n == Len(r.roles)
<1>1. DOMAIN ms = 1 .. n /\ DOMAIN r.roles = 1 .. n /\ n \in Nat
  BY GivenIs
<1> HIDE DEF n
<1>2. \A k \in 1 .. n : /\ ms[k].role = r.roles[k] /\ ms[k].nr = k /\ k # 0
                        /\ ms[k].instructed <=> k = at
  BY <1>1 DEF n
<1>3. {ms[k].nr : k \in DOMAIN ms} \ {0} = DOMAIN r.roles
  <2>0. \A k \in 1 .. n : ms[k].nr = k
    BY <1>2
  <2>1. {ms[k].nr : k \in DOMAIN ms} = 1 .. n
    BY <1>1, <2>0
  <2>2. 0 \notin 1 .. n
    OBVIOUS
  <2> QED
    BY <1>1, <2>1, <2>2, Zenon
<1>4. r.op # "json" => \A k \in DOMAIN ms : ~ms[k].instructed
  BY <1>1, <1>2
<1>5. r.op = "json" => at \in DOMAIN ms
  BY <1>1 DEF n
<1>6. \A k \in DOMAIN ms : ms[k].nr # 0 => ms[k].role = r.roles[ms[k].nr]
  BY <1>1, <1>2
<1>7. \A i, j \in DOMAIN ms : i < j => ms[i].nr < ms[j].nr
  BY <1>1, <1>2
<1> QED
  BY <1>1, <1>2, <1>3, <1>4, <1>5, <1>6, <1>7 DEF Conversation

LEMMA PreparedIs ==
  ASSUME NEW r \in Requests
  PROVE  Conversation(r, Prepared(r))
<1> DEFINE gs == Given(r)
           n == Len(r.roles)
           systems == {k \in DOMAIN gs : IsSystem(gs[k])}
           first == CHOOSE k \in systems : \A j \in systems : k <= j
<1>1. /\ gs \in Seq(Messages) /\ Len(gs) = n /\ n \in Nat /\ DOMAIN gs = 1 .. n
      /\ \A k \in 1 .. n : gs[k].role = r.roles[k] /\ gs[k].nr = k /\ gs[k].instructed = FALSE
  BY GivenIs
<1>2. CASE r.op # "json"
  <2>1. Prepared(r) = gs
    BY <1>2 DEF Prepared
  <2>2. \A k \in 1 .. n : gs[k].instructed <=> k = 0
    BY <1>1
  <2> QED
    BY <1>1, <1>2, <2>1, <2>2, Marked
<1>3. CASE r.op = "json" /\ systems = {}
  <2>1. Prepared(r) = <<[role |-> "system", nr |-> 0, instructed |-> TRUE]>> \o gs
    BY <1>3 DEF Prepared, Inject
  <2> QED
    BY <1>3, <2>1, InFront
<1>4. CASE r.op = "json" /\ systems # {}
  <2> DEFINE ms == [gs EXCEPT ![first].instructed = TRUE]
  <2>1. Prepared(r) = ms
    BY <1>4 DEF Prepared, Inject
  <2>2. /\ first \in 1 .. n /\ IsSystem(gs[first])
        /\ \A j \in 1 .. first - 1 : ~IsSystem(gs[j])
    <3>1. \E k \in systems : \A j \in systems : k <= j
      <4>1. systems \in SUBSET Nat
        BY <1>1
      <4> HIDE DEF systems
      <4> QED
        BY <1>4, <4>1, NatMin
    <3> HIDE DEF systems
    <3>2. first \in systems /\ \A j \in systems : first <= j
      BY <3>1
    <3> HIDE DEF first
    <3>3. first \in 1 .. n /\ IsSystem(gs[first])
      BY <1>1, <3>2 DEF systems
    <3>4. ASSUME NEW j \in 1 .. first - 1
          PROVE  ~IsSystem(gs[j])
      <4>1. j \in 1 .. n /\ ~(first <= j)
        BY <1>1, <3>3
      <4> QED
        BY <1>1, <3>2, <4>1 DEF systems
    <3> QED
      BY <3>3, <3>4
  <2> HIDE DEF first, systems, gs, n
  <2>3. /\ ms \in Seq(Messages) /\ Len(ms) = n
        /\ \A k \in 1 .. n :
             /\ ms[k].role = gs[k].role /\ ms[k].nr = gs[k].nr
             /\ ms[k].instructed = IF k = first THEN TRUE ELSE gs[k].instructed
    <3> DEFINE m == [gs[first] EXCEPT !.instructed = TRUE]
    <3>1. gs[first] \in Messages
      BY <1>1, <2>2
    <3>2. /\ m \in Messages /\ m.role = gs[first].role /\ m.nr = gs[first].nr
          /\ m.instructed = TRUE
      BY <3>1 DEF Messages
    <3>3. ms = [gs EXCEPT ![first] = m]
      OBVIOUS
    <3> HIDE DEF m, ms
    <3>4. ms \in Seq(Messages) /\ Len(ms) = n /\ \A k \in 1 .. n : ms[k] = IF k = first THEN m ELSE gs[k]
      BY <1>1, <2>2, <3>2, <3>3
    <3> QED
      BY <3>2, <3>4
  <2> HIDE DEF ms
  <2>4. \A k \in 1 .. n : IsSystem(ms[k]) <=> IsSystem(gs[k])
    BY <2>3 DEF IsSystem
  <2>5. /\ first \in 1 .. n /\ IsSystem(ms[first])
        /\ \A j \in 1 .. first - 1 : ~IsSystem(ms[j])
    <3>1. \A j \in 1 .. first - 1 : j \in 1 .. n
      BY <1>1, <2>2
    <3> QED
      BY <2>2, <2>4, <3>1
  <2>6. \A k \in 1 .. n : /\ ms[k].role = r.roles[k] /\ ms[k].nr = k
                          /\ ms[k].instructed <=> k = first
    BY <1>1, <2>3
  <2> QED
    BY <1>4, <2>1, <2>3, <2>5, <2>6, Marked DEF n
<1> QED
  BY <1>2, <1>3, <1>4

(* What RequestKeepsConversation says of a call and of its body.            *)
KeepsMessages(r, b) ==
  LET all == b.system \o b.messages
      Ordered(ms) == \A i, j \in DOMAIN ms : i < j => ms[i].nr < ms[j].nr
  IN  /\ {all[k].nr : k \in DOMAIN all} \ {0} = DOMAIN r.roles
      /\ \A k \in DOMAIN all : all[k].nr # 0 => all[k].role = r.roles[all[k].nr]
      /\ Ordered(b.system) /\ Ordered(b.messages)
      /\ r.adapter = "anthropic" =>
           \A k \in DOMAIN all : IsSystem(all[k]) <=> k \in DOMAIN b.system

KeepsInstruction(r, b) ==
  LET all == b.system \o b.messages
      instructed == {k \in DOMAIN all : all[k].instructed}
  IN  IF r.op # "json" THEN instructed = {}
      ELSE \E k \in DOMAIN all :
             /\ instructed = {k} /\ IsSystem(all[k])
             /\ \A j \in 1 .. k - 1 : ~IsSystem(all[j])
             /\ r.cache => \E i \in DOMAIN b.cached : b.cached[i] = all[k]

Keeps(r, b) == KeepsMessages(r, b) /\ KeepsInstruction(r, b)

(* OpenAI and Moonshot send the messages as they were prepared.             *)
LEMMA OpenAIKeeps ==
  ASSUME NEW r \in Requests, r.adapter # "anthropic"
  PROVE  Keeps(r, OpenAIBody(r))
<1> DEFINE ms == Prepared(r)
           b == OpenAIBody(r)
<1>1. Conversation(r, ms)
  BY PreparedIs
<1>2. b.system = <<>> /\ b.messages = ms /\ (r.cache => b.cached = ms)
  BY DEF OpenAIBody
<1> HIDE DEF ms, b
<1>3. b.system \o b.messages = ms
  <2>1. ms \in Seq(Messages)
    BY <1>1 DEF Conversation
  <2>2. <<>> \o ms = ms
    BY <2>1, ConcatEmptySeq
  <2> QED
    BY <1>2, <2>2
<1>4. KeepsMessages(r, b)
  <2>1. \A i, j \in DOMAIN b.system : i < j => b.system[i].nr < b.system[j].nr
    BY <1>2, EmptyDomain
  <2>2. /\ {ms[k].nr : k \in DOMAIN ms} \ {0} = DOMAIN r.roles
        /\ \A k \in DOMAIN ms : ms[k].nr # 0 => ms[k].role = r.roles[ms[k].nr]
        /\ \A i, j \in DOMAIN ms : i < j => ms[i].nr < ms[j].nr
    BY <1>1, Zenon DEF Conversation
  <2> QED
    BY <1>2, <1>3, <2>1, <2>2, Zenon DEF KeepsMessages
<1>5. CASE r.op # "json"
  <2>1. {k \in DOMAIN ms : ms[k].instructed} = {}
    BY <1>1, <1>5 DEF Conversation
  <2> QED
    BY <1>3, <1>4, <1>5, <2>1, Zenon DEF KeepsInstruction, Keeps, b
<1>6. CASE r.op = "json"
  <2>1. PICK k \in DOMAIN ms :
          /\ \A j \in DOMAIN ms : ms[j].instructed <=> j = k
          /\ IsSystem(ms[k]) /\ \A j \in 1 .. k - 1 : ~IsSystem(ms[j])
    BY <1>1, <1>6 DEF Conversation
  <2>2. {j \in DOMAIN ms : ms[j].instructed} = {k}
    BY <2>1
  <2>3. r.cache => \E i \in DOMAIN b.cached : b.cached[i] = ms[k]
    BY <1>2
  <2> QED
    BY <1>3, <1>4, <1>6, <2>1, <2>2, <2>3, Zenon DEF KeepsInstruction, Keeps, b
<1> QED
  BY <1>5, <1>6

(* Anthropic: the first of the system messages has the instruction.         *)
LEMMA AnthropicKeeps ==
  ASSUME NEW r \in Requests
  PROVE  Keeps(r, AnthropicBody(r))
<1> DEFINE ms == Prepared(r)
           b == AnthropicBody(r)
           sys == b.system
           turns == b.messages
           all == sys \o turns
           c == Len(sys)
           d == Len(turns)
<1>1. Conversation(r, ms) /\ ms \in Seq(Messages)
  BY PreparedIs DEF Conversation
<1>2. /\ sys = Kept(ms, {k \in DOMAIN ms : IsSystem(ms[k])})
      /\ turns = Kept(ms, {k \in DOMAIN ms : IsTurn(ms[k])})
      /\ r.cache => b.cached = sys
  BY DEF AnthropicBody
<1> HIDE DEF ms, b
<1>3. PICK pos : Placed(ms, sys, turns, pos)
  BY <1>1, <1>2, Places
<1>4. /\ c \in Nat /\ d \in Nat /\ DOMAIN all = 1 .. c + d
      /\ DOMAIN sys = 1 .. c /\ DOMAIN turns = 1 .. d
  BY <1>3 DEF Placed
<1>5. \A k \in 1 .. c + d :
        /\ pos[k] \in 1 .. Len(ms) /\ all[k] = ms[pos[k]]
        /\ IsSystem(all[k]) <=> k <= c
  BY <1>3, <1>4 DEF Placed
<1>6. /\ \A i \in 1 .. c : sys[i] = ms[pos[i]]
      /\ \A i \in 1 .. d : turns[i] = ms[pos[c + i]]
      /\ \A i, j \in 1 .. c + d : i < j /\ (j <= c \/ c < i) => pos[i] < pos[j]
      /\ \A p \in 1 .. Len(ms) : \E k \in 1 .. c + d : pos[k] = p
  BY <1>3, <1>4 DEF Placed
<1>7. DOMAIN ms = 1 .. Len(ms) /\ Len(ms) \in Nat
  BY <1>1
<1> HIDE DEF sys, turns, all, c, d
<1>8. {all[k].nr : k \in 1 .. c + d} = {ms[p].nr : p \in 1 .. Len(ms)}
  BY <1>5, <1>6
<1>9. {all[k].nr : k \in DOMAIN all} \ {0} = DOMAIN r.roles
  BY <1>1, <1>4, <1>7, <1>8 DEF Conversation
<1>10. \A k \in DOMAIN all : all[k].nr # 0 => all[k].role = r.roles[all[k].nr]
  BY <1>1, <1>4, <1>5, <1>7 DEF Conversation
<1>11. \A i, j \in 1 .. Len(ms) : i < j => ms[i].nr < ms[j].nr
  BY <1>1, <1>7 DEF Conversation
<1>12. \A i, j \in DOMAIN sys : i < j => sys[i].nr < sys[j].nr
  <2> SUFFICES ASSUME NEW i \in 1 .. c, NEW j \in 1 .. c, i < j
               PROVE  sys[i].nr < sys[j].nr
    BY <1>4
  <2>1. i \in 1 .. c + d /\ j \in 1 .. c + d /\ j <= c
    BY <1>4
  <2>2. pos[i] < pos[j] /\ pos[i] \in 1 .. Len(ms) /\ pos[j] \in 1 .. Len(ms)
    BY <1>5, <1>6, <2>1
  <2> QED
    BY <1>6, <1>11, <2>2
<1>13. \A i, j \in DOMAIN turns : i < j => turns[i].nr < turns[j].nr
  <2> SUFFICES ASSUME NEW i \in 1 .. d, NEW j \in 1 .. d, i < j
               PROVE  turns[i].nr < turns[j].nr
    BY <1>4
  <2>1. c + i \in 1 .. c + d /\ c + j \in 1 .. c + d /\ c < c + i /\ c + i < c + j
    BY <1>4
  <2>2. pos[c + i] < pos[c + j] /\ pos[c + i] \in 1 .. Len(ms) /\ pos[c + j] \in 1 .. Len(ms)
    BY <1>5, <1>6, <2>1
  <2> QED
    BY <1>6, <1>11, <2>2
<1>14. \A k \in DOMAIN all : IsSystem(all[k]) <=> k \in DOMAIN sys
  <2>1. \A k \in 1 .. c + d : k <= c <=> k \in 1 .. c
    BY <1>4
  <2> QED
    BY <1>4, <1>5, <2>1
<1>15. KeepsMessages(r, b)
  BY <1>9, <1>10, <1>12, <1>13, <1>14, Zenon DEF KeepsMessages, all, sys, turns
<1>16. CASE r.op # "json"
  <2>1. {k \in DOMAIN all : all[k].instructed} = {}
    BY <1>1, <1>4, <1>5, <1>7, <1>16 DEF Conversation
  <2> QED
    BY <1>16, <1>15, <2>1, Zenon DEF Keeps, KeepsInstruction, all, sys, turns, b
<1>17. CASE r.op = "json"
  <2>1. PICK p \in 1 .. Len(ms) :
          /\ \A j \in 1 .. Len(ms) : ms[j].instructed <=> j = p
          /\ IsSystem(ms[p]) /\ \A j \in 1 .. p - 1 : ~IsSystem(ms[j])
    BY <1>1, <1>7, <1>17 DEF Conversation
  <2>2. PICK k \in 1 .. c + d : pos[k] = p
    BY <1>6
  <2>3. k <= c
    BY <1>5, <2>1, <2>2
  <2>4. k = 1
    <3> SUFFICES ASSUME 1 < k
                 PROVE  FALSE
      BY <1>4
    <3>1. 1 \in 1 .. c + d /\ 1 <= c
      BY <1>4, <2>3
    <3>2. pos[1] < p /\ pos[1] \in 1 .. Len(ms)
      BY <1>5, <1>6, <2>2, <2>3, <3>1
    <3>3. IsSystem(ms[pos[1]])
      BY <1>5, <3>1
    <3>4. pos[1] \in 1 .. p - 1
      BY <3>2
    <3> QED
      BY <2>1, <3>3, <3>4
  <2>5. 1 \in 1 .. c /\ 1 \in 1 .. c + d /\ pos[1] = p /\ all[1] = ms[p] /\ sys[1] = ms[p]
    BY <1>4, <1>5, <1>6, <2>2, <2>3, <2>4
  <2>6. ASSUME NEW j \in 1 .. c + d, all[j].instructed
        PROVE  j = 1
    <3>1. pos[j] = p
      BY <1>5, <2>1, <2>6
    <3>2. j <= c
      BY <1>5, <2>1, <3>1
    <3>3. ~(1 < j)
      <4>1. 1 < j => pos[1] < pos[j]
        BY <1>6, <2>5, <3>2
      <4>2. ~(p < p)
        BY <1>7
      <4> QED
        BY <2>5, <3>1, <4>1, <4>2
    <3> QED
      BY <1>4, <3>3
  <2>7. {j \in DOMAIN all : all[j].instructed} = {1}
    BY <1>4, <2>1, <2>5, <2>6
  <2>8. \E i \in DOMAIN all :
          /\ {j \in DOMAIN all : all[j].instructed} = {i} /\ IsSystem(all[i])
          /\ \A j \in 1 .. i - 1 : ~IsSystem(all[j])
          /\ r.cache => \E l \in DOMAIN b.cached : b.cached[l] = all[i]
    <3>1. 1 \in DOMAIN all /\ IsSystem(all[1]) /\ \A j \in 1 .. 1 - 1 : ~IsSystem(all[j])
      BY <1>4, <2>1, <2>5
    <3>2. r.cache => \E l \in DOMAIN b.cached : b.cached[l] = all[1]
      BY <1>2, <1>4, <2>5 DEF sys
    <3> QED
      BY <2>7, <3>1, <3>2
  <2> QED
    BY <1>17, <1>15, <2>8, Zenon DEF Keeps, KeepsInstruction, all, sys, turns, b
<1> QED
  BY <1>16, <1>17

LEMMA InvKeeps == CallInv => RequestKeepsConversation
<1> SUFFICES ASSUME CallInv, request # NoRequest
             PROVE  Keeps(request, body)
  BY Zenon DEF RequestKeepsConversation, Keeps, KeepsMessages, KeepsInstruction
<1>1. request \in Requests /\ body = Body(request)
  BY DEF CallInv, Waiting
<1> QED
  BY <1>1, OpenAIKeeps, AnthropicKeeps DEF Body

(* For any calls: a request carries each of the caller's messages once, in  *)
(* order, with the instruction of stream_json_array once, where the request *)
(* says that it can be cached.                                              *)
THEOREM ConversationKept == CallSpec => []RequestKeepsConversation
BY CallInvariant, InvKeeps, PTL

=============================================================================
