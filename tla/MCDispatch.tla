----------------------------- MODULE MCDispatch -----------------------------
(***************************************************************************)
(* Instances of Dispatch for TLC.  Every message has all the deliveries    *)
(* the cfg gives it; a dispatcher runs a consumer, a sweeper or both.      *)
(***************************************************************************)
EXTENDS Dispatch, TLC

CONSTANTS m1, x1, x2, c1, c2, s1, s2, p1, p2

OneMessage == [x \in Deliveries |-> m1]

\* The first consumer and the first sweeper share a process.
TwoProcesses == [w \in Workers |-> IF w \in {c1, s1} THEN p1 ELSE p2]

\* No deadline at all (entity.go: ExpiresAt is optional), and one that falls where
\* recovery would give up.
NoDeadline == {MaxAge + 1}
DeadlineOrNone == {GiveUp, MaxAge + 1}

\* Deliveries of one message are told apart by nothing but their state.
SameRows == Permutations(Deliveries)
=============================================================================
