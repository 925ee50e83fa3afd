------------------------------ MODULE MCClose ------------------------------
(* A stream of six items into a SINGLE with one permit, more than the step, *)
(* its runner and the queue can hold, merged with a second entry; the       *)
(* consumer may leave at any point and be cancelled once more as it waits.  *)
EXTENDS SchedulerProperties

MCSteps == {"src", "one", "aux", "join"}
MCKind == [s \in MCSteps |->
  CASE s = "src" -> "stream" [] s = "join" -> "merge" [] OTHER -> "single"]
MCUpstream == [s \in MCSteps |->
  CASE s = "one" -> {"src"} [] s = "join" -> {"one", "aux"} [] OTHER -> {"input"}]
MCPos == [s \in MCSteps |->
  CASE s = "src" -> 0 [] s = "aux" -> 1 [] s = "one" -> 2 [] s = "join" -> 3]
MCMaxConc == [s \in MCSteps |-> IF s = "one" THEN 1 ELSE 0]
MCYields == [s \in MCSteps |-> IF s \in {"src", "one"} THEN 6 ELSE 1]
=============================================================================
