----------------------------- MODULE MCRegistry -----------------------------
(* Two providers, each created up to three times, and three aclose() calls  *)
(* that may overlap, fail or be cancelled.                                  *)
EXTENDS Registry
=============================================================================
