------------------------------ MODULE MCReview ------------------------------
(* Review on small instances.                                              *)
EXTENDS Review, TLC

CONSTANTS p1, p2, s1, s2, s3, s4

\* The customer has three of the sources and may have one; the operator has one, too.
TwoOwners == [s \in Sources |-> IF s = s4 THEN p2 ELSE p1]
TwoGovern == [p \in People |-> IF p = p1 THEN "customer" ELSE "super_admin"]

\* Requests are interchangeable, and so are the sources of one owner.
SameForms == Permutations(Requests) \cup Permutations({s1, s2, s3})
=============================================================================
