------------------------------ MODULE MCSending ------------------------------
(* Small instances of Sending. *)
EXTENDS Sending, TLC

CONSTANTS own

Symmetry == Permutations(Deliveries) \cup Permutations(Attempts)
=============================================================================
