-------------------------- MODULE JsonArrayProofs --------------------------
(***************************************************************************)
(* JsonArrayBuffer parses every text of an array of objects, of any length *)
(* and depth: its five flags and its buffer follow the writer's stack.     *)
(***************************************************************************)
EXTENDS JsonArray, SequenceTheorems, TLAPS

(* A writer that puts no array directly into the array: objects are counted *)
(* from the bottom of the stack, whose second entry is an object.           *)
StackOK ==
  /\ (phase = "inside") = (stack # <<>>)
  /\ lex # "plain" => phase = "inside"
  /\ stack # <<>> => stack[1] = [kind |-> "array", objs |-> 0]
  /\ Len(stack) >= 2 => stack[2] = [kind |-> "object", objs |-> 1]
  /\ \A i \in 2 .. Len(stack) :
       /\ stack[i].objs >= 1
       /\ i >= 3 => stack[i].objs = stack[i - 1].objs + (IF stack[i].kind = "object" THEN 1 ELSE 0)

(* The buffer holds the open direct object from its first brace on.         *)
BufferOK ==
  Len(stack) >= 2 => first \in 1 .. pos /\ buf = Span(first, pos)

IInv == TypeOK /\ StackOK /\ BufferOK /\ InSync /\ YieldsObjects

-----------------------------------------------------------------------------
LEMMA SpanType ==
  ASSUME NEW from \in Nat, NEW to \in Nat, from <= to + 1
  PROVE  Span(from, to) \in Seq(Int) /\ Len(Span(from, to)) = to - from + 1
  BY DEF Span

LEMMA SpanOne == ASSUME NEW at \in Nat PROVE <<at>> = Span(at, at)
  BY DEF Span

(* The text of an object grows by the character at its end.                 *)
LEMMA SpanAppend ==
  ASSUME NEW from \in Nat, NEW to \in Nat, from <= to
  PROVE  Append(Span(from, to), to + 1) = Span(from, to + 1)
  <1> DEFINE s == Span(from, to)
             e == Append(s, to + 1)
  <1>1. s \in Seq(Int) /\ Len(s) = to - from + 1
    BY SpanType
  <1>2. e \in Seq(Int) /\ Len(e) = to - from + 2 /\ e[to - from + 2] = to + 1
    BY <1>1
  <1>3. \A k \in 1 .. to - from + 1 : e[k] = s[k]
    BY <1>1
  <1>4. \A k \in 1 .. to - from + 1 : s[k] = from + k - 1
    BY DEF Span
  <1>5. Span(from, to + 1) \in Seq(Int) /\ Len(Span(from, to + 1)) = to - from + 2
    BY SpanType
  <1>6. \A k \in 1 .. to - from + 2 : Span(from, to + 1)[k] = from + k - 1
    BY DEF Span
  <1>7. \A k \in 1 .. to - from + 2 : e[k] = Span(from, to + 1)[k]
    BY <1>2, <1>3, <1>4, <1>6
  <1>8. QED
    BY <1>2, <1>5, <1>7

-----------------------------------------------------------------------------
(* The two halves of TypeOK, one for each side of a step.                   *)
WriterType ==
  /\ pos \in Nat
  /\ phase \in {"before", "inside", "after"}
  /\ stack \in Seq(Frames)
  /\ lex \in {"plain", "string", "escaped"}
  /\ first \in Nat
  /\ objects \in Seq([from : Nat, to : Nat])

ParserType ==
  /\ started \in BOOLEAN /\ closed \in BOOLEAN /\ depth \in Nat
  /\ inString \in BOOLEAN /\ escape \in BOOLEAN
  /\ buf \in Seq(Nat) /\ yielded \in Seq(Seq(Nat)) /\ raised \in BOOLEAN

LEMMA Pred == ASSUME NEW n \in Nat, n > 0 PROVE n - 1 \in Nat
  OBVIOUS

LEMMA Succ == ASSUME NEW n \in Nat PROVE n + 1 \in Nat
  OBVIOUS

LEMMA ButLast ==
  ASSUME NEW n \in Nat, n >= 1
  PROVE  (IF 1 <= n - 1 THEN (n - 1) - 1 + 1 ELSE 0) = n - 1
  OBVIOUS

LEMMA OneOrMore == ASSUME NEW n \in Nat, n >= 1 PROVE n = 1 \/ n >= 2
  OBVIOUS

LEMMA TwoOrMore == ASSUME NEW n \in Nat, n >= 2 PROVE n # 1 /\ (n = 2 \/ n >= 3)
  OBVIOUS

LEMMA ThreeOrMore ==
  ASSUME NEW n \in Nat, n >= 3 PROVE n # 2 /\ n - 1 \in 1 .. n
  OBVIOUS

LEMMA Push ==
  ASSUME NEW S, NEW s \in Seq(S), NEW e \in S
  PROVE  /\ Append(s, e) \in Seq(S)
         /\ Len(Append(s, e)) = Len(s) + 1
         /\ Append(s, e)[Len(s) + 1] = e
         /\ \A i \in 1 .. Len(s) : Append(s, e)[i] = s[i]
  OBVIOUS

LEMMA Pop ==
  ASSUME NEW S, NEW s \in Seq(S), s # <<>>
  PROVE  /\ Len(s) \in Nat /\ Len(s) >= 1
         /\ \A i \in 1 .. Len(s) : s[i] \in S
         /\ SubSeq(s, 1, Len(s) - 1) \in Seq(S)
         /\ Len(SubSeq(s, 1, Len(s) - 1)) = Len(s) - 1
         /\ \A i \in 1 .. Len(s) - 1 : SubSeq(s, 1, Len(s) - 1)[i] = s[i]
  <1>1. Len(s) \in Nat /\ Len(s) >= 1 /\ \A i \in 1 .. Len(s) : s[i] \in S
    BY EmptySeq
  <1>2. \A i \in 1 .. Len(s) - 1 : s[i] \in S
    BY <1>1
  <1>3. SubSeq(s, 1, Len(s) - 1) \in Seq(S)
    BY <1>1, SubSeqProperties
  <1>4. /\ Len(SubSeq(s, 1, Len(s) - 1)) = IF 1 <= Len(s) - 1 THEN (Len(s) - 1) - 1 + 1 ELSE 0
        /\ \A i \in 1 .. (Len(s) - 1) - 1 + 1 :
             SubSeq(s, 1, Len(s) - 1)[i] = s[1 + i - 1]
    <2>1. 1 \in Int /\ Len(s) - 1 \in Int
      BY <1>1
    <2>2. QED
      BY <1>2, <2>1, SubSeqProperties
  <1>5. Len(SubSeq(s, 1, Len(s) - 1)) = Len(s) - 1
    BY <1>1, <1>4, ButLast
  <1>6. ASSUME NEW i \in 1 .. Len(s) - 1
        PROVE  SubSeq(s, 1, Len(s) - 1)[i] = s[i]
    <2>1. i \in 1 .. (Len(s) - 1) - 1 + 1 /\ 1 + i - 1 = i
      BY <1>1
    <2>2. QED
      BY <1>4, <2>1
  <1>7. QED
    BY <1>1, <1>3, <1>5, <1>6

(* Inside the array the stack has a top.                                    *)
LEMMA TopType ==
  ASSUME TypeOK, StackOK, phase = "inside"
  PROVE  /\ stack # <<>> /\ Len(stack) \in Nat /\ Len(stack) >= 1
         /\ \A i \in 1 .. Len(stack) : stack[i] \in Frames /\ stack[i].objs \in Nat
         /\ Top = stack[Len(stack)] /\ Top \in Frames /\ Top.objs \in Nat
         /\ Top.kind \in {"array", "object"}
  <1>1. stack # <<>> /\ stack \in Seq(Frames)
    BY DEF TypeOK, StackOK
  <1>2. /\ Len(stack) \in Nat /\ Len(stack) >= 1
        /\ \A i \in 1 .. Len(stack) : stack[i] \in Frames
    BY <1>1, Pop
  <1>3. \A f \in Frames : f.objs \in Nat /\ f.kind \in {"array", "object"}
    BY DEF Frames
  <1>4. QED
    BY <1>1, <1>2, <1>3 DEF Top

LEMMA TypeSplit == TypeOK <=> WriterType /\ ParserType
  BY DEF TypeOK, WriterType, ParserType

LEMMA WriterTypeStep ==
  ASSUME TypeOK, StackOK, NEW c \in Chars, Write(c)
  PROVE  WriterType'
  <1>1. /\ pos' = pos + 1 /\ pos' \in Nat
        /\ Here = pos + 1 /\ Here \in Nat
    BY DEF Write, Here, TypeOK
  <1>2. phase = "inside" => stack # <<>> /\ Top \in Frames /\ Top.objs \in Nat
    BY TopType
  <1>3. CASE Outside(c) \/ InString(c) \/ OpenString(c) \/ Plain(c)
    BY <1>1, <1>3 DEF TypeOK, WriterType, Outside, InString, OpenString, Plain
  <1>4. CASE OpenList(c)
    <2>1. [kind |-> "array", objs |-> 0] \in Frames
      BY DEF Frames
    <2>2. <<[kind |-> "array", objs |-> 0]>> \in Seq(Frames)
      BY <2>1
    <2>3. QED
      BY <1>1, <1>4, <2>2 DEF TypeOK, WriterType, OpenList
  <1>5. CASE OpenObject(c)
    <2>1. [kind |-> "object", objs |-> Top.objs + 1] \in Frames
      <3>1. phase = "inside"
        BY <1>5 DEF OpenObject
      <3>2. Top.objs + 1 \in Nat
        BY <1>2, <3>1
      <3>3. QED
        BY <3>2 DEF Frames
    <2>2. QED
      BY <1>1, <1>5, <2>1, Push DEF OpenObject, TypeOK, WriterType
  <1>6. CASE OpenArray(c)
    <2>1. [kind |-> "array", objs |-> Top.objs] \in Frames
      BY <1>2, <1>6 DEF OpenArray, Frames
    <2>2. QED
      BY <1>1, <1>6, <2>1, Push DEF OpenArray, TypeOK, WriterType
  <1>7. CASE CloseObject(c) \/ CloseArray(c)
    <2>1. Inner \in Seq(Frames)
      BY <1>2, <1>7, Pop DEF Inner, TypeOK, CloseObject, CloseArray
    <2>2. Append(objects, [from |-> first, to |-> Here]) \in Seq([from : Nat, to : Nat])
      BY <1>1 DEF TypeOK
    <2>3. QED
      BY <1>1, <1>7, <2>1, <2>2 DEF TypeOK, WriterType, CloseObject, CloseArray
  <1>8. QED
    BY <1>3, <1>4, <1>5, <1>6, <1>7 DEF Write

LEMMA ParserTypeStep ==
  ASSUME TypeOK, NEW c \in Chars, Consume(c)
  PROVE  ParserType'
  <1>1. /\ Here \in Nat /\ <<Here>> \in Seq(Nat) /\ <<>> \in Seq(Nat)
        /\ Append(buf, Here) \in Seq(Nat)
        /\ Append(yielded, Append(buf, Here)) \in Seq(Seq(Nat))
    BY Push DEF TypeOK, Here
  <1>2. CASE SkipOutside(c)
    BY <1>2 DEF SkipOutside, TypeOK, ParserType
  <1>3. CASE DiscardString(c)
    BY <1>3 DEF DiscardString, ReadString, TypeOK, ParserType
  <1>4. CASE Between(c)
    BY <1>1, <1>4 DEF Between, TypeOK, ParserType
  <1>5. CASE ObjectString(c)
    BY <1>1, <1>5 DEF ObjectString, ReadString, TypeOK, ParserType
  <1>6. CASE ObjectText(c)
    <2>1. depth' \in Nat
      <3>1. depth \in Nat
        BY DEF TypeOK
      <3>2. /\ depth > 0
            /\ depth' = IF c = "{" THEN depth + 1 ELSE IF c = "}" THEN depth - 1 ELSE depth
        BY <1>6 DEF ObjectText
      <3>3. depth + 1 \in Nat
        BY <3>1, Succ
      <3>4. depth - 1 \in Nat
        BY <3>1, <3>2, Pred
      <3>5. QED
        BY <3>1, <3>2, <3>3, <3>4
    <2>2. buf' \in Seq(Nat) /\ yielded' \in Seq(Seq(Nat)) /\ raised' \in BOOLEAN
      BY <1>1, <1>6 DEF ObjectText, TypeOK
    <2>3. QED
      BY <1>6, <2>1, <2>2 DEF ObjectText, TypeOK, ParserType
  <1>7. QED
    BY <1>2, <1>3, <1>4, <1>5, <1>6 DEF Consume

-----------------------------------------------------------------------------
(* The stack after each move of the writer.                                 *)

LEMMA StackPush ==
  ASSUME TypeOK, StackOK, phase = "inside", NEW top,
         \/ top = [kind |-> "object", objs |-> Top.objs + 1]
         \/ top = [kind |-> "array", objs |-> Top.objs] /\ Len(stack) # 1,
         stack' = Append(stack, top), phase' = phase, lex' = lex
  PROVE  StackOK'
  <1>1. stack # <<>> /\ Len(stack) \in Nat /\ Len(stack) >= 1 /\ Top = stack[Len(stack)]
    BY TopType
  <1>2. /\ Len(stack') = Len(stack) + 1
        /\ stack'[Len(stack) + 1] = top
        /\ \A i \in 1 .. Len(stack) : stack'[i] = stack[i]
    <2>1. top \in Frames
      BY TopType DEF Frames
    <2>2. QED
      BY <2>1, Push DEF TypeOK
  <1>3. Len(stack) = 1 => Top.objs = 0
    BY <1>1 DEF StackOK
  <1>4. Top.objs \in Nat /\ (Len(stack) >= 2 => Top.objs >= 1)
    BY <1>1, TopType DEF StackOK
  <1>5. top.objs >= 1 /\ top.objs = Top.objs + (IF top.kind = "object" THEN 1 ELSE 0)
    <2>1. CASE top = [kind |-> "object", objs |-> Top.objs + 1]
      <3>1. top.objs = Top.objs + 1 /\ top.kind = "object"
        BY <2>1
      <3>2. QED
        BY <1>4, <3>1
    <2>2. CASE top = [kind |-> "array", objs |-> Top.objs] /\ Len(stack) # 1
      <3>1. top.objs = Top.objs /\ top.kind = "array" /\ Len(stack) >= 2
        BY <1>1, <2>2, OneOrMore
      <3>2. QED
        BY <1>4, <3>1
    <2>3. QED
      BY <2>1, <2>2
  <1>6. Len(stack') >= 2 => stack'[2] = [kind |-> "object", objs |-> 1]
    <2>1. CASE Len(stack) = 1
      BY <1>1, <1>2, <1>3, <2>1
    <2>2. CASE Len(stack) >= 2
      BY <1>1, <1>2, <2>2 DEF StackOK
    <2>3. QED
      BY <1>1, <2>1, <2>2, OneOrMore
  <1>7. stack' # <<>> /\ stack'[1] = [kind |-> "array", objs |-> 0]
    BY <1>1, <1>2 DEF StackOK
  <1>8. ASSUME NEW i \in 2 .. Len(stack')
        PROVE  /\ stack'[i].objs >= 1
               /\ i >= 3 => stack'[i].objs = stack'[i - 1].objs
                                              + (IF stack'[i].kind = "object" THEN 1 ELSE 0)
    <2>1. CASE i = Len(stack) + 1
      BY <1>1, <1>2, <1>5, <2>1
    <2>2. CASE i \in 2 .. Len(stack)
      BY <1>1, <1>2, <2>2 DEF StackOK
    <2>3. QED
      BY <1>1, <1>2, <2>1, <2>2
  <1>9. QED
    BY <1>6, <1>7, <1>8 DEF StackOK

LEMMA StackPop ==
  ASSUME TypeOK, StackOK, phase = "inside", lex = "plain",
         stack' = Inner, lex' = lex,
         phase' = IF Len(stack) = 1 THEN "after" ELSE "inside"
  PROVE  StackOK'
  <1>1. stack # <<>> /\ Len(stack) \in Nat /\ Len(stack) >= 1
    BY TopType
  <1>2. /\ Len(stack') = Len(stack) - 1
        /\ \A i \in 1 .. Len(stack) - 1 : stack'[i] = stack[i]
    BY <1>1, Pop DEF TypeOK, Inner
  <1>3. (phase' = "inside") = (stack' # <<>>)
    BY <1>1, <1>2
  <1>4. ASSUME NEW i \in 2 .. Len(stack')
        PROVE  /\ stack'[i].objs >= 1
               /\ i >= 3 => stack'[i].objs = stack'[i - 1].objs
                                              + (IF stack'[i].kind = "object" THEN 1 ELSE 0)
    BY <1>1, <1>2 DEF StackOK
  <1>5. Len(stack') >= 2 => stack'[2] = [kind |-> "object", objs |-> 1]
    BY <1>1, <1>2 DEF StackOK
  <1>6. stack' # <<>> => stack'[1] = [kind |-> "array", objs |-> 0]
    BY <1>1, <1>2 DEF StackOK
  <1>7. QED
    BY <1>3, <1>4, <1>5, <1>6 DEF StackOK

-----------------------------------------------------------------------------
(* One character, for each move of the writer.                              *)

(* In the array, depth 0 is between its elements.                           *)
LEMMA Inside ==
  ASSUME TypeOK, StackOK, InSync, phase = "inside"
  PROVE  /\ started /\ ~closed /\ depth \in Nat
         /\ Len(stack) = 1 => depth = 0
         /\ Len(stack) >= 2 => depth >= 1
         /\ depth = stack[Len(stack)].objs
         /\ (depth = 0) = (Len(stack) = 1)
  <1>1. stack # <<>> /\ Len(stack) \in Nat /\ Len(stack) >= 1 /\ Top = stack[Len(stack)]
    BY TopType
  <1>2. started /\ ~closed /\ depth \in Nat /\ depth = stack[Len(stack)].objs
    BY <1>1 DEF InSync, TypeOK
  <1>3. Len(stack) = 1 => depth = 0
    BY <1>1, <1>2 DEF StackOK
  <1>4. Len(stack) >= 2 => depth >= 1
    BY <1>1, <1>2 DEF StackOK
  <1>5. (depth = 0) = (Len(stack) = 1)
    <2>1. depth >= 1 => depth # 0
      BY <1>2
    <2>2. QED
      BY <1>1, <1>3, <1>4, <2>1, OneOrMore
  <1>6. QED
    BY <1>2, <1>3, <1>4, <1>5

(* Which part of _consume reads the character.                              *)
LEMMA Reader ==
  ASSUME TypeOK, StackOK, InSync, NEW c \in Chars, Consume(c)
  PROVE  /\ phase # "inside" => SkipOutside(c)
         /\ phase = "inside" /\ Len(stack) = 1 /\ lex # "plain" => DiscardString(c)
         /\ phase = "inside" /\ Len(stack) = 1 /\ lex = "plain" => Between(c)
         /\ phase = "inside" /\ Len(stack) >= 2 /\ lex # "plain" => ObjectString(c)
         /\ phase = "inside" /\ Len(stack) >= 2 /\ lex = "plain" => ObjectText(c)
  <1>1. phase # "inside" => ~started \/ closed
    BY DEF InSync, TypeOK
  <1>2. inString = (lex # "plain")
    BY DEF InSync
  <1>3. SkipOutside(c) => ~started \/ closed
    BY DEF SkipOutside
  <1>4. DiscardString(c) => started /\ ~closed /\ depth = 0 /\ inString
    BY DEF DiscardString
  <1>5. Between(c) => started /\ ~closed /\ depth = 0 /\ ~inString
    BY DEF Between
  <1>6. ObjectString(c) => started /\ ~closed /\ depth > 0 /\ inString
    BY DEF ObjectString
  <1>7. ObjectText(c) => started /\ ~closed /\ depth > 0 /\ ~inString
    BY DEF ObjectText
  <1>8. phase = "inside" /\ Len(stack) = 1 => depth = 0 /\ ~(depth > 0)
    BY Inside
  <1>9. phase = "inside" /\ Len(stack) >= 2 => depth # 0
    <2>1. \A n \in Nat : n >= 1 => n # 0
      OBVIOUS
    <2>2. QED
      BY Inside, <2>1
  <1>10. QED
    BY <1>1, <1>2, <1>3, <1>4, <1>5, <1>6, <1>7, <1>8, <1>9, Inside DEF Consume

(* A character of an object goes to its text.                               *)
LEMMA TextGrows ==
  ASSUME TypeOK, BufferOK, Len(stack) >= 2,
         buf' = Append(buf, Here), first' = first, pos' = Here
  PROVE  first' \in 1 .. pos' /\ buf' = Span(first', pos')
  <1>1. pos \in Nat /\ first \in Nat /\ first <= pos /\ first >= 1 /\ buf = Span(first, pos)
    BY DEF TypeOK, BufferOK
  <1>2. buf' = Span(first, pos + 1)
    BY <1>1, SpanAppend DEF Here
  <1>3. first \in 1 .. pos + 1
    BY <1>1
  <1>4. QED
    BY <1>2, <1>3 DEF Here

LEMMA NothingYielded ==
  ASSUME YieldsObjects, UNCHANGED <<yielded, objects, raised>>
  PROVE  YieldsObjects'
  BY DEF YieldsObjects, Span

(* Outside the array, and the bracket that opens it.                        *)
LEMMA StepOutside ==
  ASSUME IInv, NEW c \in Chars, Consume(c), Outside(c) \/ OpenList(c)
  PROVE  StackOK' /\ BufferOK' /\ InSync' /\ YieldsObjects'
  <1>1. phase # "inside" /\ phase' # phase => OpenList(c)
    BY DEF Outside, OpenList
  <1>2. phase # "inside" /\ stack = <<>> /\ lex = "plain"
    BY DEF Outside, OpenList, IInv, StackOK
  <1>3. SkipOutside(c)
    BY <1>2, Reader DEF IInv
  <1>4. YieldsObjects'
    BY <1>3, NothingYielded DEF SkipOutside, Outside, OpenList, IInv
  <1>5. CASE Outside(c)
    <2>1. StackOK' /\ BufferOK'
      <3>1. stack' = <<>> /\ phase' = phase /\ lex' = lex /\ Len(stack') = 0
        BY <1>2, <1>5 DEF Outside
      <3>2. QED
        BY <1>2, <3>1 DEF StackOK, BufferOK
    <2>2. InSync'
      BY <1>2, <1>3, <1>5 DEF Outside, SkipOutside, InSync, IInv, TypeOK
    <2>3. QED
      BY <1>4, <2>1, <2>2
  <1>6. CASE OpenList(c)
    <2>1. /\ stack' = <<[kind |-> "array", objs |-> 0]>> /\ Len(stack') = 1
          /\ stack'[1] = [kind |-> "array", objs |-> 0]
          /\ phase' = "inside" /\ lex' = "plain" /\ phase = "before"
      BY <1>2, <1>6 DEF OpenList
    <2>2. StackOK' /\ BufferOK'
      BY <2>1 DEF StackOK, BufferOK
    <2>3. Top'.objs = 0
      BY <2>1 DEF Top
    <2>4. InSync'
      BY <1>2, <1>3, <1>6, <2>1, <2>3 DEF OpenList, SkipOutside, InSync, IInv, TypeOK
    <2>5. QED
      BY <1>4, <2>2, <2>4
  <1>7. QED
    BY <1>5, <1>6

(* A character that opens and closes nothing.                               *)
LEMMA StepLevel ==
  ASSUME IInv, NEW c \in Chars, Consume(c), pos' = Here,
         InString(c) \/ OpenString(c) \/ Plain(c)
  PROVE  StackOK' /\ BufferOK' /\ InSync' /\ YieldsObjects'
  <1>1. /\ phase = "inside" /\ UNCHANGED <<phase, stack, first, objects>>
        /\ lex # "plain" \/ c \in {"quote", "other"}
    BY DEF InString, OpenString, Plain
  <1>2. StackOK'
    BY <1>1 DEF IInv, StackOK
  <1>3. /\ started /\ ~closed /\ depth \in Nat /\ depth = Top.objs /\ Top' = Top
        /\ Len(stack) \in Nat /\ Len(stack) >= 1
    BY <1>1, Inside, TopType DEF IInv, Top
  <1>4. escape = (lex = "escaped") /\ inString = (lex # "plain")
        /\ lex \in {"plain", "string", "escaped"}
    BY DEF IInv, InSync, TypeOK
  <1>5. ASSUME lex # "plain", ReadString(c)
        PROVE  escape' = (lex' = "escaped") /\ inString' = (lex' # "plain")
    <2>1. InString(c)
      BY <1>5 DEF InString, OpenString, Plain
    <2>2. QED
      BY <1>4, <1>5, <2>1 DEF InString, ReadString
  <1>6. ASSUME lex = "plain", inString' = (c = "quote"), escape' = escape
        PROVE  escape' = (lex' = "escaped") /\ inString' = (lex' # "plain")
    BY <1>4, <1>6 DEF InString, OpenString, Plain
  <1>7. CASE Len(stack) = 1
    <2>1. BufferOK'
      BY <1>1, <1>7 DEF BufferOK
    <2>2. UNCHANGED <<started, closed, depth, yielded, raised>>
          /\ escape' = (lex' = "escaped") /\ inString' = (lex' # "plain")
      <3>1. CASE lex # "plain"
        BY <1>1, <1>5, <1>7, <3>1, Reader DEF IInv, DiscardString
      <3>2. CASE lex = "plain"
        <4>1. Between(c) /\ c \in {"quote", "other"} /\ depth = 0
          BY <1>1, <1>7, <3>2, Reader, Inside DEF IInv
        <4>2. closed = FALSE /\ closed' = FALSE /\ depth' = 0
          BY <1>3, <4>1 DEF Between, IInv, TypeOK
        <4>3. QED
          BY <1>6, <3>2, <4>1, <4>2 DEF Between
      <3>3. QED
        BY <3>1, <3>2
    <2>3. InSync'
      BY <1>1, <1>3, <2>2 DEF IInv, InSync
    <2>4. QED
      BY <1>1, <1>2, <2>1, <2>2, <2>3, NothingYielded DEF IInv
  <1>8. CASE Len(stack) >= 2
    <2>1. UNCHANGED <<started, closed, depth, yielded, raised>>
          /\ buf' = Append(buf, Here)
          /\ escape' = (lex' = "escaped") /\ inString' = (lex' # "plain")
      <3>1. CASE lex # "plain"
        BY <1>1, <1>5, <1>8, <3>1, Reader DEF IInv, ObjectString
      <3>2. CASE lex = "plain"
        <4>1. ObjectText(c) /\ c \in {"quote", "other"}
          BY <1>1, <1>8, <3>2, Reader DEF IInv
        <4>2. QED
          BY <1>3, <1>6, <3>2, <4>1 DEF ObjectText, Closes
      <3>3. QED
        BY <3>1, <3>2
    <2>2. BufferOK'
      BY <1>1, <1>8, <2>1, TextGrows DEF IInv, BufferOK
    <2>3. InSync'
      BY <1>1, <1>3, <2>1 DEF IInv, InSync
    <2>4. QED
      BY <1>1, <1>2, <2>1, <2>2, <2>3, NothingYielded DEF IInv
  <1>9. QED
    BY <1>3, <1>7, <1>8, OneOrMore

LEMMA StepOpen ==
  ASSUME IInv, ~TopLevelArrays, NEW c \in Chars, Consume(c), pos' = Here,
         OpenObject(c) \/ OpenArray(c)
  PROVE  StackOK' /\ BufferOK' /\ InSync' /\ YieldsObjects'
  <1>1. /\ phase = "inside" /\ lex = "plain" /\ UNCHANGED <<phase, lex, objects>>
        /\ c \in {"{", "["}
    BY DEF OpenObject, OpenArray
  <1>2. /\ started /\ ~closed /\ closed = FALSE /\ depth \in Nat /\ depth = Top.objs
        /\ Len(stack) \in Nat /\ Len(stack) >= 1 /\ ~inString
        /\ Len(stack) = 1 => depth = 0
    BY <1>1, Inside, TopType DEF IInv, TypeOK, Top, InSync
  <1>3. PICK top \in Frames :
          /\ stack' = Append(stack, top)
          /\ \/ top = [kind |-> "object", objs |-> Top.objs + 1] /\ c = "{"
             \/ top = [kind |-> "array", objs |-> Top.objs] /\ c = "[" /\ Len(stack) # 1
    <2>1. Top.objs \in Nat /\ Top.objs + 1 \in Nat
      BY <1>1, TopType, Succ DEF IInv
    <2>2. CASE OpenObject(c)
      <3>1. [kind |-> "object", objs |-> Top.objs + 1] \in Frames
        BY <2>1 DEF Frames
      <3>2. QED
        BY <2>2, <3>1 DEF OpenObject
    <2>3. CASE OpenArray(c)
      <3>1. [kind |-> "array", objs |-> Top.objs] \in Frames
        BY <2>1 DEF Frames
      <3>2. QED
        BY <2>3, <3>1 DEF OpenArray
    <2>4. QED
      BY <2>2, <2>3
  <1>4. StackOK'
    BY <1>1, <1>3, StackPush DEF IInv
  <1>5. top.objs = IF c = "{" THEN Top.objs + 1 ELSE Top.objs
    <2>1. CASE c = "{"
      <3>1. top = [kind |-> "object", objs |-> Top.objs + 1]
        BY <1>3, <2>1
      <3>2. QED
        BY <2>1, <3>1
    <2>2. CASE c # "{"
      <3>1. top = [kind |-> "array", objs |-> Top.objs]
        BY <1>3, <2>2
      <3>2. QED
        BY <2>2, <3>1
    <2>3. QED
      BY <2>1, <2>2
  <1>6. Len(stack') = Len(stack) + 1 /\ Top' = top
    <2>1. Len(stack') = Len(stack) + 1 /\ stack'[Len(stack) + 1] = top
      BY <1>3, Push, ZenonT(40) DEF IInv, TypeOK
    <2>2. QED
      BY <2>1 DEF Top
  <1>7. UNCHANGED <<started, escape, yielded, raised>> /\ closed' = closed
        /\ inString' = inString /\ depth' = top.objs
    <2>1. CASE Len(stack) = 1
      <3>1. Between(c)
        BY <1>1, <2>1, Reader DEF IInv
      <3>2. c = "{" /\ top.objs = 1
        <4>1. c = "{"
          BY <1>3, <2>1
        <4>2. top.objs = Top.objs + 1 /\ Top.objs = 0
          BY <1>2, <1>5, <2>1, <4>1
        <4>3. \A n : n = 0 => n + 1 = 1
          OBVIOUS
        <4>4. top.objs = 1
          BY <4>2, <4>3
        <4>5. QED
          BY <4>1, <4>4
      <3>3. inString = FALSE
        BY <1>2 DEF IInv, TypeOK
      <3>4. QED
        BY <1>2, <3>1, <3>2, <3>3 DEF Between
    <2>2. CASE Len(stack) >= 2
      <3>1. ObjectText(c)
        BY <1>1, <2>2, Reader DEF IInv
      <3>2. inString = FALSE
        BY <1>2 DEF IInv, TypeOK
      <3>3. depth' = top.objs
        <4>1. depth' = IF c = "{" THEN depth + 1 ELSE depth
          BY <1>1, <3>1 DEF ObjectText
        <4>2. QED
          BY <1>2, <1>5, <4>1
      <3>4. QED
        BY <1>1, <3>1, <3>2, <3>3 DEF ObjectText, Closes
    <2>3. QED
      BY <1>2, <2>1, <2>2, OneOrMore
  <1>8. BufferOK'
    <2>1. CASE Len(stack) = 1
      <3>1. Between(c) /\ c = "{" /\ OpenObject(c)
        BY <1>1, <1>3, <2>1, Reader DEF IInv, OpenObject, OpenArray
      <3>2. buf' = <<Here>> /\ first' = Here
        BY <2>1, <3>1 DEF Between, OpenObject
      <3>3. Here \in Nat /\ Here \in 1 .. Here
        BY DEF Here, IInv, TypeOK
      <3>4. QED
        BY <3>2, <3>3, SpanOne DEF BufferOK
    <2>2. CASE Len(stack) >= 2
      <3>1. ObjectText(c)
        BY <1>1, <2>2, Reader DEF IInv
      <3>2. buf' = Append(buf, Here)
        BY <1>1, <3>1 DEF ObjectText, Closes
      <3>3. first' = first
        BY <1>2, <2>2, TwoOrMore DEF OpenObject, OpenArray
      <3>4. QED
        BY <2>2, <3>2, <3>3, TextGrows DEF IInv, BufferOK
    <2>3. QED
      BY <1>2, <2>1, <2>2, OneOrMore
  <1>9. InSync'
    BY <1>1, <1>6, <1>7 DEF IInv, InSync
  <1>10. QED
    BY <1>1, <1>4, <1>7, <1>8, <1>9, NothingYielded DEF IInv

(* The bracket that closes an array.                                        *)
LEMMA StepCloseArray ==
  ASSUME IInv, NEW c \in Chars, Consume(c), pos' = Here, CloseArray(c)
  PROVE  StackOK' /\ BufferOK' /\ InSync' /\ YieldsObjects'
  <1>1. /\ phase = "inside" /\ lex = "plain" /\ c = "]" /\ Top.kind = "array"
        /\ stack' = Inner /\ UNCHANGED <<lex, first, objects>>
        /\ phase' = IF Len(stack) = 1 THEN "after" ELSE "inside"
    BY DEF CloseArray
  <1>2. /\ started /\ ~closed /\ closed = FALSE /\ depth \in Nat /\ depth = Top.objs
        /\ Len(stack) \in Nat /\ Len(stack) >= 1 /\ inString = FALSE
        /\ Len(stack) = 1 => depth = 0
        /\ Top = stack[Len(stack)]
    BY <1>1, Inside, TopType DEF IInv, TypeOK, Top, InSync
  <1>3. StackOK'
    BY <1>1, StackPop DEF IInv
  <1>4. /\ Len(stack') = Len(stack) - 1
        /\ \A i \in 1 .. Len(stack) - 1 : stack'[i] = stack[i]
    BY <1>1, <1>2, TopType, Pop DEF IInv, TypeOK, Inner
  <1>5. CASE Len(stack) = 1
    <2>1. Between(c)
      BY <1>1, <1>5, Reader DEF IInv
    <2>2. UNCHANGED <<started, escape, yielded, raised, buf>> /\ closed' = TRUE
          /\ inString' = FALSE /\ depth' = 0
      BY <1>1, <2>1 DEF Between
    <2>3. BufferOK' /\ phase' = "after"
      BY <1>1, <1>4, <1>5 DEF BufferOK
    <2>4. InSync'
      BY <1>1, <1>2, <2>2, <2>3 DEF IInv, InSync
    <2>5. QED
      BY <1>1, <1>3, <2>2, <2>3, <2>4, NothingYielded DEF IInv
  <1>6. CASE Len(stack) >= 2
    <2>1. Len(stack) # 2
      BY <1>1, <1>2, <1>6 DEF IInv, StackOK
    <2>2. Len(stack) >= 3
      BY <1>2, <1>6, <2>1, TwoOrMore
    <2>3. ObjectText(c)
      BY <1>1, <1>6, Reader DEF IInv
    <2>4. UNCHANGED <<started, closed, escape, yielded, raised, depth>>
          /\ buf' = Append(buf, Here) /\ inString' = FALSE
      BY <1>1, <2>3 DEF ObjectText, Closes
    <2>5. BufferOK'
      BY <1>1, <1>6, <2>4, TextGrows DEF IInv, BufferOK
    <2>6. phase' = "inside" /\ Top' = stack[Len(stack) - 1]
      BY <1>1, <1>2, <1>4, <2>2 DEF Top
    <2>7. Top'.objs = depth
      <3>1. stack[Len(stack)].objs = stack[Len(stack) - 1].objs
                                       + (IF stack[Len(stack)].kind = "object" THEN 1 ELSE 0)
        BY <1>2, <2>2 DEF IInv, StackOK
      <3>2. stack[Len(stack)].kind = "array"
        BY <1>1, <1>2
      <3>3. stack[Len(stack) - 1].objs \in Nat
        BY <1>1, <1>2, <2>2, TopType DEF IInv
      <3>4. QED
        BY <1>2, <2>6, <3>1, <3>2, <3>3
    <2>8. InSync'
      BY <1>1, <1>2, <2>4, <2>6, <2>7 DEF IInv, InSync
    <2>9. QED
      BY <1>1, <1>3, <2>4, <2>5, <2>8, NothingYielded DEF IInv
  <1>7. QED
    BY <1>2, <1>5, <1>6, OneOrMore

(* The brace that closes an object: with one object open, and then only, it *)
(* ends a direct element of the array, and the parser yields its text.      *)
LEMMA StepCloseObject ==
  ASSUME IInv, raised = FALSE, NEW c \in Chars, Consume(c), pos' = Here, CloseObject(c)
  PROVE  StackOK' /\ BufferOK' /\ InSync' /\ YieldsObjects'
  <1>1. /\ phase = "inside" /\ phase' = "inside" /\ lex = "plain" /\ c = "}"
        /\ Top.kind = "object" /\ stack' = Inner /\ UNCHANGED <<lex, first>>
    BY DEF CloseObject
  <1>2. /\ started /\ ~closed /\ closed = FALSE /\ depth \in Nat /\ depth = Top.objs
        /\ Len(stack) \in Nat /\ Len(stack) >= 1 /\ inString = FALSE
        /\ Top = stack[Len(stack)]
    BY <1>1, Inside, TopType DEF IInv, TypeOK, Top, InSync
  <1>3. Len(stack) # 1
    <2>1. SUFFICES ASSUME Len(stack) = 1 PROVE FALSE
      OBVIOUS
    <2>2. stack # <<>> /\ stack[1].kind = "object"
      BY <1>1, <1>2, <2>1, TopType DEF IInv
    <2>3. stack[1] = [kind |-> "array", objs |-> 0]
      BY <2>2 DEF IInv, StackOK
    <2>4. QED
      BY <2>2, <2>3
  <1>4. Len(stack) >= 2
    BY <1>2, <1>3, OneOrMore
  <1>5. ObjectText(c)
    BY <1>1, <1>4, Reader DEF IInv
  <1>6. StackOK'
    BY <1>1, <1>3, StackPop DEF IInv
  <1>7. /\ Len(stack') = Len(stack) - 1
        /\ \A i \in 1 .. Len(stack) - 1 : stack'[i] = stack[i]
    BY <1>1, <1>2, TopType, Pop DEF IInv, TypeOK, Inner
  <1>8. Top' = stack[Len(stack) - 1]
    <2>1. Len(stack) - 1 \in 1 .. Len(stack) - 1
      BY <1>2, <1>4
    <2>2. QED
      BY <1>7, <2>1 DEF Top
  <1>9. depth' = depth - 1 /\ inString' = FALSE /\ UNCHANGED <<started, closed, escape>>
    BY <1>1, <1>5 DEF ObjectText
  <1>10. CASE Len(stack) = 2
    <2>1. depth = 1 /\ Top'.objs = 0
      <3>1. stack[2] = [kind |-> "object", objs |-> 1]
            /\ stack[1] = [kind |-> "array", objs |-> 0]
        BY <1>4, <1>10, TopType, <1>1 DEF IInv, StackOK
      <3>2. Top = stack[2] /\ Top' = stack[1]
        BY <1>2, <1>8, <1>10
      <3>3. QED
        BY <1>2, <3>1, <3>2
    <2>2. depth' = 0
      BY <1>9, <2>1
    <2>3. InSync'
      BY <1>1, <1>2, <1>9, <2>1, <2>2 DEF IInv, InSync
    <2>4. BufferOK'
      <3>1. Len(stack') = 1
        BY <1>7, <1>10
      <3>2. QED
        BY <3>1 DEF BufferOK
    <2>5. objects' = Append(objects, [from |-> first, to |-> Here])
      BY <1>10 DEF CloseObject
    <2>6. Append(buf, Here) = Span(first, Here)
      <3>1. first \in Nat /\ pos \in Nat /\ first <= pos /\ buf = Span(first, pos)
        BY <1>4 DEF IInv, BufferOK, TypeOK
      <3>2. QED
        BY <3>1, SpanAppend DEF Here
    <2>7. YieldsObjects'
      <3>1. [from |-> first, to |-> Here] \in [from : Nat, to : Nat]
        BY DEF IInv, TypeOK, Here
      <3>2. /\ Len(objects') = Len(objects) + 1
            /\ objects'[Len(objects) + 1] = [from |-> first, to |-> Here]
            /\ \A k \in 1 .. Len(objects) : objects'[k] = objects[k]
        BY <2>5, <3>1, Push DEF IInv, TypeOK
      <3>3. Len(yielded) = Len(objects) /\ Len(objects) \in Nat
        BY DEF IInv, YieldsObjects, TypeOK
      <3>4. \A k \in 1 .. Len(objects) : yielded[k] = Span(objects[k].from, objects[k].to)
        <4>1. DOMAIN yielded = 1 .. Len(objects)
          BY <3>3 DEF IInv, TypeOK
        <4>2. QED
          BY <4>1 DEF IInv, YieldsObjects
      <3>5. CASE raised' = TRUE /\ yielded' = yielded
        <4>1. \A n \in Nat : (n + 1) - 1 = n
          OBVIOUS
        <4>2. Len(yielded') = Len(objects') - 1
          BY <3>2, <3>3, <3>5, <4>1
        <4>3. DOMAIN yielded' = 1 .. Len(objects)
          BY <3>3, <3>5 DEF IInv, TypeOK
        <4>4. \A k \in DOMAIN yielded' :
                yielded'[k] = Span(objects'[k].from, objects'[k].to)
          BY <3>2, <3>4, <3>5, <4>3
        <4>5. QED
          BY <3>5, <4>2, <4>4 DEF YieldsObjects, Span
      <3>6. CASE raised' = raised /\ yielded' = Append(yielded, Append(buf, Here))
        <4>1. Append(buf, Here) \in Seq(Nat)
          BY Push DEF IInv, TypeOK, Here
        <4>2. /\ yielded' \in Seq(Seq(Nat)) /\ Len(yielded') = Len(objects) + 1
              /\ yielded'[Len(objects) + 1] = Span(first, Here)
              /\ \A k \in 1 .. Len(objects) : yielded'[k] = yielded[k]
          BY <2>6, <3>3, <3>6, <4>1, Push DEF IInv, TypeOK
        <4>3. ASSUME NEW k \in DOMAIN yielded'
              PROVE  yielded'[k] = Span(objects'[k].from, objects'[k].to)
          <5>1. k \in 1 .. Len(objects) \/ k = Len(objects) + 1
            BY <3>3, <4>2
          <5>2. CASE k \in 1 .. Len(objects)
            BY <3>2, <3>4, <4>2, <5>2
          <5>3. CASE k = Len(objects) + 1
            BY <3>2, <4>2, <5>3
          <5>4. QED
            BY <5>1, <5>2, <5>3
        <4>4. QED
          BY <3>2, <3>6, <4>2, <4>3 DEF YieldsObjects, Span
      <3>7. QED
        BY <1>1, <1>5, <2>1, <3>5, <3>6 DEF ObjectText, Closes
    <2>8. QED
      BY <1>6, <2>3, <2>4, <2>7
  <1>11. CASE Len(stack) >= 3
    <2>1. stack[Len(stack) - 1].objs \in Nat /\ stack[Len(stack) - 1].objs >= 1
          /\ depth = stack[Len(stack) - 1].objs + 1
      <3>1. stack[Len(stack)].objs = stack[Len(stack) - 1].objs
                                       + (IF stack[Len(stack)].kind = "object" THEN 1 ELSE 0)
        BY <1>2, <1>11 DEF IInv, StackOK
      <3>2. stack[Len(stack)].kind = "object"
        BY <1>1, <1>2
      <3>3. stack[Len(stack) - 1].objs \in Nat
        BY <1>1, <1>2, <1>11, TopType, ThreeOrMore DEF IInv
      <3>4. stack[Len(stack) - 1].objs >= 1
        BY <1>2, <1>11 DEF IInv, StackOK
      <3>5. QED
        BY <1>2, <3>1, <3>2, <3>3, <3>4
    <2>2. depth # 1 /\ depth' = Top'.objs
      BY <1>8, <1>9, <2>1
    <2>3. buf' = Append(buf, Here) /\ UNCHANGED <<yielded, raised>>
      BY <1>5, <2>2 DEF ObjectText, Closes
    <2>4. BufferOK'
      BY <1>1, <1>4, <2>3, TextGrows DEF IInv, BufferOK
    <2>5. InSync'
      BY <1>1, <1>2, <1>9, <2>2 DEF IInv, InSync
    <2>6. objects' = objects
      BY <1>2, <1>11, ThreeOrMore DEF CloseObject
    <2>7. QED
      BY <1>6, <2>3, <2>4, <2>5, <2>6, NothingYielded DEF IInv
  <1>12. QED
    BY <1>2, <1>4, <1>10, <1>11, TwoOrMore

-----------------------------------------------------------------------------
LEMMA InitIInv == Init => IInv
  <1>1. SUFFICES ASSUME Init PROVE IInv
    OBVIOUS
  <1>2. TypeOK
    <2>1. <<>> \in Seq(Frames) /\ <<>> \in Seq(Nat) /\ <<>> \in Seq(Seq(Nat))
          /\ <<>> \in Seq([from : Nat, to : Nat])
      BY EmptySeq
    <2>2. 0 \in Nat
      OBVIOUS
    <2>3. QED
      BY <1>1, <2>1, <2>2 DEF Init, TypeOK
  <1>3. StackOK /\ BufferOK
    BY <1>1 DEF Init, StackOK, BufferOK
  <1>4. InSync
    BY <1>1 DEF Init, InSync
  <1>5. YieldsObjects
    <2>1. Len(<<>>) = 0 /\ \A k \in DOMAIN <<>> : FALSE
      OBVIOUS
    <2>2. QED
      BY <1>1, <2>1 DEF Init, YieldsObjects
  <1>6. QED
    BY <1>2, <1>3, <1>4, <1>5 DEF IInv

LEMMA StepIInv == ~TopLevelArrays /\ IInv /\ [Next]_vars => IInv'
  <1>1. SUFFICES ASSUME ~TopLevelArrays, IInv, [Next]_vars PROVE IInv'
    OBVIOUS
  <1>2. CASE Next
    <2>1. PICK c \in Chars : Write(c) /\ Consume(c) /\ ~raised
      BY <1>2 DEF Next, Feed
    <2>2. TypeOK' /\ pos' = Here /\ raised = FALSE
      BY <1>1, <2>1, WriterTypeStep, ParserTypeStep DEF IInv, TypeOK, WriterType, ParserType, Write
    <2>3. CASE Outside(c) \/ OpenList(c)
      BY <1>1, <2>1, <2>2, <2>3, StepOutside DEF IInv
    <2>4. CASE InString(c) \/ OpenString(c) \/ Plain(c)
      BY <1>1, <2>1, <2>2, <2>4, StepLevel DEF IInv
    <2>5. CASE OpenObject(c) \/ OpenArray(c)
      BY <1>1, <2>1, <2>2, <2>5, StepOpen DEF IInv
    <2>6. CASE CloseObject(c)
      BY <1>1, <2>1, <2>2, <2>6, StepCloseObject DEF IInv
    <2>7. CASE CloseArray(c)
      BY <1>1, <2>1, <2>2, <2>7, StepCloseArray DEF IInv
    <2>8. QED
      BY <2>1, <2>3, <2>4, <2>5, <2>6, <2>7 DEF Write
  <1>3. CASE UNCHANGED vars
    BY <1>1, <1>3 DEF vars, writerVars, parserVars, IInv, TypeOK, StackOK, BufferOK, InSync,
                      YieldsObjects, Top, Span
  <1>4. QED
    BY <1>1, <1>2, <1>3

(* However long the text, however deeply its objects are nested, and        *)
(* wherever feed() is called with the next chunk: JsonArrayBuffer knows     *)
(* where it is, and yields the direct objects of the array, each whole,     *)
(* once and in order.                                                       *)
THEOREM ParserCorrect ==
  ASSUME ~TopLevelArrays PROVE Spec => [](InSync /\ YieldsObjects)
  <1>1. IInv /\ [Next]_vars => IInv'
    BY StepIInv
  <1>2. IInv => InSync /\ YieldsObjects
    BY DEF IInv
  <1>3. QED
    BY InitIInv, <1>1, <1>2, PTL DEF Spec
=============================================================================
