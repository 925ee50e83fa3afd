---------------------------- MODULE ReplyStream ----------------------------
(***************************************************************************)
(* What the stream() of a provider promises to the code that iterates over *)
(* it, without a wire, frames or a parser: the reply of the model arrives  *)
(* in order and complete when Done arrives, and an iteration that ends by  *)
(* itself without Done was cut off by the server.                          *)
(***************************************************************************)
EXTENDS Integers, Sequences

VARIABLES
  reply,    \* the pieces of the reply the model has produced
  content,  \* the pieces the consumer has been given
  done,     \* how often it was given Done
  cut,      \* the server failed or the connection was lost
  status    \* "idle", "streaming", "returned", "raised" or "abandoned"

vars == <<reply, content, done, cut, status>>

Over == {"returned", "raised", "abandoned"}

(* t is s, possibly with more behind it.                                    *)
Extends(t, s) == Len(s) <= Len(t) /\ \A k \in DOMAIN s : t[k] = s[k]

Init ==
  /\ reply = <<>> /\ content = <<>> /\ done = 0
  /\ cut = FALSE /\ status = "idle"

Open == status = "idle" /\ status' = "streaming" /\ UNCHANGED <<reply, content, done, cut>>

(* What is over is forgotten before the next call.                          *)
Leave ==
  /\ status \in Over
  /\ reply' = <<>> /\ content' = <<>> /\ done' = 0
  /\ cut' = FALSE /\ status' = "idle"

(* The model goes on, until Done is given.                                  *)
Produces == Extends(reply', reply) /\ (reply' # reply => done = 0)

(* The consumer gets more of the reply; Done comes once, with the whole.    *)
Gives ==
  /\ Extends(content', content) /\ Extends(reply', content')
  /\ \/ done' = done
     \/ done = 0 /\ done' = 1 /\ content' = reply'

(* The iteration ends by itself only after Done or a failure of the server. *)
Ends ==
  /\ cut => cut'
  /\ status' \in Over \cup {"streaming"}
  /\ status' = "returned" => done' = 1 \/ cut'

Stream == status = "streaming" /\ Produces /\ Gives /\ Ends

Next == Open \/ Leave \/ Stream

Spec == Init /\ [][Next]_vars
=============================================================================
