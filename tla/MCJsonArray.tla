---------------------------- MODULE MCJsonArray ----------------------------
(* Every text of up to eleven characters a writer may produce: two objects, *)
(* or objects nested three deep, or strings with escapes, fit into it.      *)
EXTENDS JsonArray
=============================================================================
