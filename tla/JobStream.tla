----------------------------- MODULE JobStream -----------------------------
(***************************************************************************)
(* What the consumer of Scheduler.execute may rely on, without runners,    *)
(* queues or semaphores: each step starts, produces outputs, and ends; a   *)
(* step ends only when the steps it reads from have ended; nothing is      *)
(* produced from nothing; PipelineDone comes last, once every step has     *)
(* ended and announced it with StepDone.                                   *)
(***************************************************************************)
EXTENDS Naturals, FiniteSets

CONSTANTS
  Steps,      \* the steps of the pipeline
  Kind,       \* "single", "stream" or "merge"
  Sources     \* the steps a step reads from; {} for an entry

VARIABLES
  phase,      \* "waiting", "producing" or "ended", per step
  outputs,    \* the number of StepOutput events, per step
  failed,     \* the steps that emitted StepFailed
  announced,  \* the steps that emitted StepDone
  stream      \* "open", "complete" (after PipelineDone) or "closed"

vars == <<phase, outputs, failed, announced, stream>>

Init ==
  /\ phase = [s \in Steps |-> "waiting"]
  /\ outputs = [s \in Steps |-> 0]
  /\ failed = {}
  /\ announced = {}
  /\ stream = "open"

Start(s) ==
  /\ phase[s] = "waiting"
  /\ phase' = [phase EXCEPT ![s] = "producing"]
  /\ UNCHANGED <<outputs, failed, announced, stream>>

(* Every source has produced; a SINGLE answers each input at most once.     *)
HasInput(s) ==
  /\ \A u \in Sources[s] : outputs[u] > 0
  /\ Kind[s] = "single" =>
       /\ \A u \in Sources[s] : outputs[s] < outputs[u]
       /\ Sources[s] = {} => outputs[s] = 0

Produce(s) ==
  /\ phase[s] = "producing" /\ HasInput(s)
  /\ outputs' = [outputs EXCEPT ![s] = @ + 1]
  /\ UNCHANGED <<phase, failed, announced, stream>>

Fail(s) ==
  /\ phase[s] = "producing"
  /\ failed' = failed \cup {s}
  /\ UNCHANGED <<phase, outputs, announced, stream>>

(* The step produces nothing more, because its sources do not either or     *)
(* because the consumer left. A strict merge may fail as it ends, and a     *)
(* step nobody reads from announces its end at once.                        *)
End(s) ==
  /\ phase[s] = "producing"
  /\ stream = "open" => \A u \in Sources[s] : phase[u] = "ended"
  /\ phase' = [phase EXCEPT ![s] = "ended"]
  /\ failed' \in {failed, failed \cup {s}}
  /\ announced' \in {announced, announced \cup {s}}
  /\ UNCHANGED <<outputs, stream>>

Announce(s) ==
  /\ phase[s] = "ended"
  /\ announced' = announced \cup {s}
  /\ UNCHANGED <<phase, outputs, failed, stream>>

Complete ==
  /\ stream = "open" /\ announced = Steps
  /\ stream' = "complete"
  /\ UNCHANGED <<phase, outputs, failed, announced>>

(* The consumer leaves; some steps end there and then.                      *)
Close ==
  /\ stream = "open"
  /\ stream' = "closed"
  /\ \E cut \in SUBSET {s \in Steps : phase[s] = "producing"} :
       /\ phase' = [s \in Steps |-> IF s \in cut THEN "ended" ELSE phase[s]]
       /\ announced' \in {announced \cup c : c \in SUBSET cut}
  /\ UNCHANGED <<outputs, failed>>

Next ==
  \/ \E s \in Steps : Start(s) \/ Produce(s) \/ Fail(s) \/ End(s) \/ Announce(s)
  \/ Complete
  \/ Close

Spec == Init /\ [][Next]_vars
=============================================================================
