---------------------------- MODULE MCCredential ----------------------------
EXTENDS Credential, TLC

\* No definition tells callers, sources, ids or names apart.
Alike == Permutations(Callers) \cup Permutations(Sources) \cup Permutations(Ids) \cup Permutations(Names)
=============================================================================
