------------------------------ MODULE MCMerge ------------------------------
(* Two streams joined under the keys of a merge_key function, which gives   *)
(* any key to any value and may raise, with a SINGLE behind the merge.      *)
EXTENDS SchedulerProperties

MCSteps == {"left", "right", "join", "sink"}
MCKind == [s \in MCSteps |->
  CASE s = "join" -> "merge" [] s = "sink" -> "single" [] OTHER -> "stream"]
MCUpstream == [s \in MCSteps |->
  CASE s = "join" -> {"left", "right"} [] s = "sink" -> {"join"} [] OTHER -> {"input"}]
MCPos == [s \in MCSteps |->
  CASE s = "left" -> 0 [] s = "right" -> 1 [] s = "join" -> 2 [] s = "sink" -> 3]
MCMaxConc == [s \in MCSteps |-> 0]
MCYields == [s \in MCSteps |-> IF s = "left" THEN 2 ELSE 1]
MCYieldsFull == [s \in MCSteps |-> IF s = "left" THEN 3 ELSE 1]
=============================================================================
