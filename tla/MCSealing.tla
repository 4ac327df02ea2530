----------------------------- MODULE MCSealing -----------------------------
(* Two binaries: a task in each, and a second sender in the second.        *)
EXTENDS Sealing, TLC

CONSTANTS gateway, dispatcher, register, send1, send2

InTheirBinary ==
  register :> gateway @@ send1 :> dispatcher @@ send2 :> dispatcher

OnePerBinary == register :> gateway @@ send1 :> dispatcher
=============================================================================
