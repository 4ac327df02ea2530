----------------------------- MODULE Acceptance -----------------------------
(***************************************************************************)
(* What intake promises its callers and the dispatcher, with no requests,  *)
(* checks, retries or races in it: a message and its deliveries are        *)
(* accepted at once, one for a source and a key while it is kept; an event *)
(* is of a message that was accepted; and a caller is told of one message, *)
(* for good, and of no caller's but its own.                               *)
(***************************************************************************)
CONSTANTS
  Calls,       \* whoever asks for something to be sent
  Messages,    \* what may be accepted: a call and a number
  Recipients,
  NoKey,
  NoMessage

VARIABLES
  source, key, \* of a call: whose it is, and its key
  accepted,    \* the messages that are kept
  gone,        \* the messages that were
  deliveries,  \* <<message, recipient>>
  published,   \* events given to the dispatcher
  told         \* of a call: the message it was told of

promised == <<source, key, accepted, gone, deliveries, published, told>>

Init ==
  /\ accepted = {} /\ gone = {} /\ deliveries = {} /\ published = {}
  /\ told = [c \in Calls |-> NoMessage]

\* One caller, as far as a key says so.
OneCaller(c, d) ==
  c = d \/ (source[c] = source[d] /\ key[c] = key[d] /\ key[c] # NoKey)

\* Once, whole, and not beside another of the same caller's.
Accept(m) ==
  /\ \A n \in accepted : ~OneCaller(m[1], n[1])
  /\ accepted' = accepted \cup {m}
  /\ deliveries' = deliveries \cup ({m} \X Recipients)
  /\ UNCHANGED <<source, key, gone, published, told>>

Publish(m, x) ==
  /\ published' = published \cup {<<m, x>>}
  /\ UNCHANGED <<source, key, accepted, gone, deliveries, told>>

Tell(c, m) ==
  /\ told[c] = NoMessage /\ OneCaller(c, m[1])
  /\ told' = [told EXCEPT ![c] = m]
  /\ UNCHANGED <<source, key, accepted, gone, deliveries, published>>

\* Retention.
Forget(m) ==
  /\ accepted' = accepted \ {m} /\ gone' = gone \cup {m}
  /\ deliveries' = deliveries \ ({m} \X Recipients)
  /\ UNCHANGED <<source, key, published, told>>

Known == accepted \cup gone

Next ==
  \/ \E m \in Messages \ Known : Accept(m)
  \/ \E m \in Known, x \in Recipients : Publish(m, x)
  \/ \E c \in Calls, m \in Known : Tell(c, m)
  \/ \E m \in accepted : Forget(m)

Spec == Init /\ [][Next]_promised
=============================================================================
