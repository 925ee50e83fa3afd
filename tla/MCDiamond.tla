----------------------------- MODULE MCDiamond -----------------------------
(* A stream fans out to a capped SINGLE and to a STREAM that a strict merge *)
(* joins again, under whatever keys its merge_key gives: every kind of      *)
(* step, two routes from one step, a semaphore, and queues that fill.       *)
EXTENDS SchedulerProperties

MCSteps == {"src", "one", "many", "join"}
MCKind == [s \in MCSteps |->
  CASE s = "one" -> "single" [] s = "join" -> "merge" [] OTHER -> "stream"]
MCUpstream == [s \in MCSteps |->
  CASE s = "src" -> {"input"} [] s = "join" -> {"one", "many"} [] OTHER -> {"src"}]
MCPos == [s \in MCSteps |->
  CASE s = "src" -> 0 [] s = "many" -> 1 [] s = "one" -> 2 [] s = "join" -> 3]
MCMaxConc == [s \in MCSteps |-> IF s = "one" THEN 1 ELSE 0]
MCYields == [s \in MCSteps |-> IF s = "many" THEN 1 ELSE 2]
=============================================================================
