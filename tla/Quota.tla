------------------------------- MODULE Quota --------------------------------
(***************************************************************************)
(* What the rate limiter promises: every source has a quota of its own,    *)
(* which refills with time up to its size, pays for every call that is let *)
(* through and for no call that is not.  There are no buckets to keep, to  *)
(* create or to throw away.                                                *)
(***************************************************************************)
EXTENDS Integers

CONSTANTS Sources, Unit, Full

VARIABLES
  clock,   \* when a call was last answered
  level,   \* what each source had left then
  spent,   \* what it has spent
  refused  \* turns over with every call turned away

Init ==
  /\ clock = 0
  /\ level = [s \in Sources |-> Full]
  /\ spent = [s \in Sources |-> 0]
  /\ refused = [s \in Sources |-> FALSE]

\* What a source has when the next call is answered.
Refilled(s) ==
  LET n == level[s] + (clock' - clock) IN IF n < Full THEN n ELSE Full

\* Time has passed, and everybody's quota was refilled, whoever calls.
Pay(s, price) ==
  /\ clock' \in Nat /\ clock' >= clock
  /\ level' = [x \in Sources |-> IF x = s THEN Refilled(x) - price ELSE Refilled(x)]

Grant(s) ==
  /\ Refilled(s) >= Unit
  /\ Pay(s, Unit)
  /\ spent' = [spent EXCEPT ![s] = @ + Unit]
  /\ UNCHANGED refused

Refuse(s) ==
  /\ Refilled(s) < Unit
  /\ Pay(s, 0)
  /\ refused' = [refused EXCEPT ![s] = ~@]
  /\ UNCHANGED spent

Next == \E s \in Sources : Grant(s) \/ Refuse(s)

Spec == Init /\ [][Next]_<<clock, level, spent, refused>>
=============================================================================
