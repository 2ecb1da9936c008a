----------------------------- MODULE MC_IdAlloc -----------------------------
(* Model-checking instance of IdAlloc: a small id space, so that the      *)
(* round-robin search wraps around many times within the bound.           *)
EXTENDS IdAlloc

MC_MAX_RESOURCES == 5
=============================================================================
