---------------------------- MODULE MCRateLimit -----------------------------
(* RateLimit on small instances.                                           *)
EXTENDS RateLimit, TLC

Interchangeable == Permutations(Callers) \cup Permutations(Sources)
=============================================================================
