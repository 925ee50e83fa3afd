----------------------------- MODULE MCPipeline -----------------------------
(* Four steps, registered in any order: entries, a fan-out, diamonds, a     *)
(* step that depends on itself, cycles of two to four, an unknown name.     *)
EXTENDS Pipeline

MCNames == {"a", "b", "c", "d"}
MCRefs == MCNames \cup {"typo"}
MCRank == [n \in MCNames |->
  CASE n = "a" -> 1 [] n = "b" -> 2 [] n = "c" -> 3 [] n = "d" -> 4]
MCDeclared == [n \in MCNames |->
  CASE n = "a" -> {{}, {"d"}}
    [] n = "b" -> {{}, {"a"}, {"b"}}
    [] n = "c" -> {{"a"}, {"b", "d"}, {"typo"}}
    [] n = "d" -> {{}, {"b", "c"}, {"a", "b", "c"}}]
=============================================================================
