------------------------------ MODULE MCIntake ------------------------------
(* Intake on small instances.                                              *)
EXTENDS Intake, TLC

CONSTANTS c1, c2

\* The first call is tried again; its attempts overlap each other and the second.
FirstRepeats == c1 :> 2 @@ c2 :> 1

\* No definition tells sources apart.
SameSources == Permutations(Sources)
=============================================================================
