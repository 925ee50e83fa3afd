----------------------------- MODULE JsonArray -----------------------------
(***************************************************************************)
(* JsonArrayBuffer of streamwright/providers/_json_array.py, fed with the  *)
(* text of a model: one character at a time, since feed() keeps its whole  *)
(* state between characters, wherever the chunks are cut.                  *)
(*                                                                         *)
(* The writer is the environment: a preamble, an array whose elements are  *)
(* nested values, and trailing prose. A character is known by its class    *)
(* and a piece of text by the positions of its characters.                 *)
(***************************************************************************)
EXTENDS Integers, Sequences

CONSTANTS
  TopLevelArrays, \* whether arrays may be direct elements of the array
  MaxText         \* bound: the length of the text

ASSUME TextAssumption == TopLevelArrays \in BOOLEAN /\ MaxText \in Nat

Chars == {"[", "]", "{", "}", "quote", "backslash", "other"}

VARIABLES
  \* The writer.
  pos,        \* the number of characters written
  phase,      \* "before", "inside" or "after" the array
  stack,      \* the open containers; objs counts the objects among them up to there
  lex,        \* "plain", "string", or "escaped" behind a backslash in a string
  first,      \* where the open direct object began
  objects,    \* the direct objects completed, as [from, to]
  \* The parser.
  started, closed, depth, inString, escape,
  buf,        \* the positions of the characters in _buf
  yielded,    \* the texts of the objects yielded, as their positions
  raised      \* json.loads has raised, which ended the stream

writerVars == <<pos, phase, stack, lex, first, objects>>
parserVars == <<started, closed, depth, inString, escape, buf, yielded, raised>>
vars == <<writerVars, parserVars>>

Init ==
  /\ pos = 0 /\ phase = "before" /\ stack = <<>> /\ lex = "plain"
  /\ first = 0 /\ objects = <<>>
  /\ started = FALSE /\ closed = FALSE /\ depth = 0
  /\ inString = FALSE /\ escape = FALSE
  /\ buf = <<>> /\ yielded = <<>> /\ raised = FALSE

-----------------------------------------------------------------------------
(* The writer puts character c at position pos + 1.                        *)

Here == pos + 1
Top == stack[Len(stack)]
Inner == SubSeq(stack, 1, Len(stack) - 1)

Outside(c) ==
  /\ \/ phase = "before" /\ c # "["
     \/ phase = "after"
  /\ UNCHANGED <<phase, stack, lex, first, objects>>

OpenList(c) ==
  /\ phase = "before" /\ c = "["
  /\ phase' = "inside"
  /\ stack' = <<[kind |-> "array", objs |-> 0]>>
  /\ UNCHANGED <<lex, first, objects>>

InString(c) ==
  /\ phase = "inside" /\ lex # "plain"
  /\ lex' = CASE lex = "escaped" -> "string"
              [] lex = "string" /\ c = "backslash" -> "escaped"
              [] lex = "string" /\ c = "quote" -> "plain"
              [] OTHER -> "string"
  /\ UNCHANGED <<phase, stack, first, objects>>

OpenString(c) ==
  /\ phase = "inside" /\ lex = "plain" /\ c = "quote"
  /\ lex' = "string"
  /\ UNCHANGED <<phase, stack, first, objects>>

OpenObject(c) ==
  /\ phase = "inside" /\ lex = "plain" /\ c = "{"
  /\ stack' = Append(stack, [kind |-> "object", objs |-> Top.objs + 1])
  /\ first' = IF Len(stack) = 1 THEN Here ELSE first
  /\ UNCHANGED <<phase, lex, objects>>

OpenArray(c) ==
  /\ phase = "inside" /\ lex = "plain" /\ c = "["
  /\ Len(stack) = 1 => TopLevelArrays
  /\ stack' = Append(stack, [kind |-> "array", objs |-> Top.objs])
  /\ UNCHANGED <<phase, lex, first, objects>>

CloseObject(c) ==
  /\ phase = "inside" /\ lex = "plain" /\ c = "}" /\ Top.kind = "object"
  /\ stack' = Inner
  /\ objects' = IF Len(stack) = 2 THEN Append(objects, [from |-> first, to |-> Here])
                                  ELSE objects
  /\ UNCHANGED <<phase, lex, first>>

CloseArray(c) ==
  /\ phase = "inside" /\ lex = "plain" /\ c = "]" /\ Top.kind = "array"
  /\ stack' = Inner
  /\ phase' = IF Len(stack) = 1 THEN "after" ELSE phase
  /\ UNCHANGED <<lex, first, objects>>

(* A digit, a letter, white space, a comma or a colon.                      *)
Plain(c) ==
  /\ phase = "inside" /\ lex = "plain" /\ c = "other"
  /\ UNCHANGED <<phase, stack, lex, first, objects>>

Write(c) ==
  /\ \/ Outside(c) \/ OpenList(c) \/ InString(c) \/ OpenString(c)
     \/ OpenObject(c) \/ OpenArray(c) \/ CloseObject(c) \/ CloseArray(c) \/ Plain(c)
  /\ pos' = Here

-----------------------------------------------------------------------------
(* _consume(c).                                                            *)

SkipOutside(c) ==
  /\ ~started \/ closed
  /\ started' = (started \/ c = "[")
  /\ UNCHANGED <<closed, depth, inString, escape, buf, yielded, raised>>

\* Mutant: an escaped quote ends a string.
ReadStringNoEscape(c) ==
  /\ escape' = FALSE
  /\ inString' = (c # "quote")

(* A character of a string literal.                                         *)
ReadString(c) ==
  /\ escape' = (~escape /\ c = "backslash")
  /\ inString' = (escape \/ c # "quote")

(* A string as a direct element is discarded.                               *)
DiscardString(c) ==
  /\ started /\ ~closed /\ depth = 0 /\ inString
  /\ ReadString(c)
  /\ UNCHANGED <<started, closed, depth, buf, yielded, raised>>

Between(c) ==
  /\ started /\ ~closed /\ depth = 0 /\ ~inString
  /\ closed' = (c = "]")
  /\ depth' = IF c = "{" THEN 1 ELSE 0
  /\ buf' = IF c = "{" THEN <<Here>> ELSE buf
  /\ inString' = (c = "quote")
  /\ UNCHANGED <<started, escape, yielded, raised>>

ObjectString(c) ==
  /\ started /\ ~closed /\ depth > 0 /\ inString
  /\ buf' = Append(buf, Here)
  /\ ReadString(c)
  /\ UNCHANGED <<started, closed, depth, yielded, raised>>

\* Mutant: every closing brace yields.
ClosesAny(c) == c = "}"

Closes(c) == c = "}" /\ depth = 1

(* A character of an object outside its strings; the brace that closes the  *)
(* object yields the text, or ends the stream when json.loads raises: the   *)
(* caller, stream_json_array, feeds nothing more.                           *)
ObjectText(c) ==
  /\ started /\ ~closed /\ depth > 0 /\ ~inString
  /\ inString' = (c = "quote")
  /\ depth' = IF c = "{" THEN depth + 1 ELSE IF c = "}" THEN depth - 1 ELSE depth
  /\ \/ /\ ~Closes(c)
        /\ buf' = Append(buf, Here)
        /\ UNCHANGED <<yielded, raised>>
     \/ /\ Closes(c)
        /\ buf' = <<>>
        /\ yielded' = Append(yielded, Append(buf, Here))
        /\ UNCHANGED raised
     \/ /\ Closes(c)
        /\ buf' = <<>>
        /\ raised' = TRUE
        /\ UNCHANGED yielded
  /\ UNCHANGED <<started, closed, escape>>

Consume(c) ==
  \/ SkipOutside(c) \/ DiscardString(c) \/ Between(c) \/ ObjectString(c) \/ ObjectText(c)

Feed(c) == Write(c) /\ Consume(c)

Next == pos < MaxText /\ ~raised /\ \E c \in Chars : Feed(c)

Spec == Init /\ [][Next]_vars

-----------------------------------------------------------------------------
Frames == [kind : {"array", "object"}, objs : Nat]

(* Every variable has its type.                                             *)
TypeOK ==
  /\ pos \in Nat
  /\ phase \in {"before", "inside", "after"}
  /\ stack \in Seq(Frames)
  /\ lex \in {"plain", "string", "escaped"}
  /\ first \in Nat
  /\ objects \in Seq([from : Nat, to : Nat])
  /\ started \in BOOLEAN /\ closed \in BOOLEAN /\ depth \in Nat
  /\ inString \in BOOLEAN /\ escape \in BOOLEAN
  /\ buf \in Seq(Nat) /\ yielded \in Seq(Seq(Nat)) /\ raised \in BOOLEAN

Span(from, to) == [k \in 1 .. to - from + 1 |-> from + k - 1]

(* The parser's five flags always say where in the text it is: braces and   *)
(* brackets in strings, escaped quotes, arrays inside objects, preamble and *)
(* trailing prose never mislead it.                                         *)
InSync ==
  /\ started = (phase # "before")
  /\ closed = (phase = "after")
  /\ inString = (lex # "plain")
  /\ escape = (lex = "escaped")
  /\ depth = IF phase = "inside" THEN Top.objs ELSE 0

(* The objects yielded are the direct elements of the array that are        *)
(* complete, in order, each with exactly its own text, yielded when its     *)
(* last brace was fed and not later; only one whose text json.loads refuses *)
(* is not yielded, and it is the last.                                      *)
YieldsObjects ==
  /\ Len(yielded) = IF raised THEN Len(objects) - 1 ELSE Len(objects)
  /\ \A k \in DOMAIN yielded : yielded[k] = Span(objects[k].from, objects[k].to)

(* Skipping a direct element that is no object costs no object: those       *)
(* behind it are still yielded (_json_array.py: "Strings, numbers, or       *)
(* arrays as direct array elements are silently skipped").                  *)
NoneLost == ~raised => Len(yielded) >= Len(objects)
=============================================================================
