----------------------------- MODULE MCCallback -----------------------------
(* Callback on small instances.                                            *)
EXTENDS Callback, TLC

\* Callers, workers and addresses are interchangeable.
Interchangeable == Permutations(Callers) \cup Permutations(Workers) \cup Permutations(Urls)
=============================================================================
