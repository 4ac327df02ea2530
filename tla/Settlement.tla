----------------------------- MODULE Settlement -----------------------------
(***************************************************************************)
(* What the dispatcher promises the rest of the system, with no workers,   *)
(* broker, claims or retries in it: a delivery is pending until it settles *)
(* once and for all, and a message is announced at most once, after all of *)
(* its deliveries have settled, with the outcomes they settled with.       *)
(***************************************************************************)
EXTENDS Integers, Sequences

CONSTANTS Messages, Deliveries, MessageOf

VARIABLES
  outcome,  \* PENDING, SENT, or the reason it failed
  told      \* callbacks made, per message

Reasons == {"EXPIRED", "MAX_ATTEMPTS", "PERMANENT", "NO_SENDER", "NOT_REACHABLE"}

Init ==
  /\ outcome = [x \in Deliveries |-> "PENDING"]
  /\ told = [m \in Messages |-> <<>>]

Settle(x, o) ==
  /\ outcome[x] = "PENDING"
  /\ outcome' = [outcome EXCEPT ![x] = o]
  /\ UNCHANGED told

Announce(m) ==
  LET mine == {x \in Deliveries : MessageOf[x] = m} IN
  /\ told[m] = <<>>
  /\ \A x \in mine : outcome[x] # "PENDING"
  /\ told' = [told EXCEPT ![m] = <<{<<x, outcome[x]>> : x \in mine}>>]
  /\ UNCHANGED outcome

Next ==
  \/ \E x \in Deliveries, o \in {"SENT"} \cup Reasons : Settle(x, o)
  \/ \E m \in Messages : Announce(m)

Spec == Init /\ [][Next]_<<outcome, told>>
=============================================================================
