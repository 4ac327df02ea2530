------------------------------ MODULE MCSignIn ------------------------------
(* SignIn on small instances.                                              *)
EXTENDS SignIn, TLC

\* Asks and tries are interchangeable among themselves.
SameRequests == Permutations(Asks) \cup Permutations(Tries)
=============================================================================
