----------------------------- MODULE SseDecoder -----------------------------
(***************************************************************************)
(* iter_sse_events of streamwright/providers/_sse.py: the lines of a       *)
(* response become events. A line is what its prefix says it is, the value *)
(* of a data line stays whole.                                             *)
(***************************************************************************)
EXTENDS Integers, Sequences

VARIABLES
  eventType,  \* event_type, "" at first
  dataParts   \* data_parts

decoderVars == <<eventType, dataParts>>

DecoderInit == eventType = "" /\ dataParts = <<>>

(* "event: name"                                                            *)
ReadEvent(name) == eventType' = name /\ UNCHANGED dataParts

(* "data: value"                                                            *)
ReadData(value) == dataParts' = Append(dataParts, value) /\ UNCHANGED eventType

(* A comment, or a field such as id: and retry:.                            *)
ReadOther == UNCHANGED decoderVars

(* Whether an event is given out, by a blank line or the end of the lines.  *)
Dispatches == dataParts # <<>>

\* Mutant: the name of an event outlives it.
ForgetData == eventType' = eventType /\ dataParts' = <<>>

(* The event given out is forgotten.                                        *)
Forget == eventType' = "" /\ dataParts' = <<>>

(* A blank line behind no data gives nothing out and forgets nothing, not   *)
(* even the name of an event.                                               *)
SkipBlank == ~Dispatches /\ UNCHANGED decoderVars
=============================================================================
