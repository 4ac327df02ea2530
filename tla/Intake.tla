------------------------------- MODULE Intake -------------------------------
(***************************************************************************)
(* The gateway's way in: the client's Submit (sdk/go) with its retries,    *)
(* the gRPC interceptors, and Submitter.Submit                             *)
(* (internal/core/usecase/submit.go) over the notifications table.         *)
(*                                                                         *)
(* A call is one Submit of a client; a request is one attempt of it, and   *)
(* runs on in the gateway when the client no longer waits for it.  What a  *)
(* request stores is named after the request: ids are never reused.  Each  *)
(* step is one statement, one transaction or one publish.                  *)
(***************************************************************************)
EXTENDS Integers, FiniteSets

CONSTANTS
  Calls,       \* Submit calls, of any client
  Sources,     \* who a call is authenticated as
  Keys,        \* idempotency keys
  NoKey,       \* "no idempotency key"
  Forms,       \* what a call asks for, as far as it can be turned down for it
  Recipients,  \* what the routes of a message resolve to
  Attempts,    \* WithRetry: how often each call's client tries
  NoMessage    \* "no message to name"

ASSUME CallAssumption ==
  /\ NoKey \notin Keys
  /\ Attempts \in [Calls -> Nat \ {0}]
  /\ NoMessage \notin Calls \X Nat

AllForms == {"plain", "unknown priority", "no channel", "two senders", "no routes",
             "empty body", "same recipient twice"}

ASSUME FormAssumption == Forms \subseteq AllForms

Requests == UNION {{c} \X (1..Attempts[c]) : c \in Calls}
VARIABLES
  active,      \* sources.is_active
  messages,    \* the notifications table
  purged,      \* messages retention has deleted
  deliveries,  \* the deliveries table: <<message, recipient>>
  events,      \* what the stream has been given
  pc,          \* of a request
  left,        \* recipients not published yet
  reply,       \* what the request is going to answer
  named,       \* the message its answer names
  source,      \* of a call: who it is authenticated as
  key,         \* of a call: its idempotency key, or NoKey
  form,        \* of a call: what it asks for
  attempt,     \* of a call: attempts made
  result,      \* of a call: what the client was told
  receipt      \* of a call: the message it was told of

tables   == <<messages, purged, deliveries>>
handlers == <<pc, left, reply, named>>
inputs   == <<source, key, form>>
clients  == <<inputs, attempt, result, receipt>>
vars     == <<active, tables, events, handlers, clients>>

Labels  == {"unborn", "auth", "read", "admit", "check", "resolve", "write", "raced",
            "publish", "answer", "over"}
Replies == {"none", "accepted", "duplicate", "again", "refused"}
Results == {"waiting", "accepted", "duplicate", "failed", "refused"}

Running == Labels \ {"unborn", "over"}

Src(r) == source[r[1]]
Key(r) == key[r[1]]
Form(r) == form[r[1]]

Init ==
  /\ active     \in [Sources -> BOOLEAN]
  /\ messages   = {}
  /\ purged     = {}
  /\ deliveries = {}
  /\ events     = {}
  /\ pc         = [r \in Requests |-> "unborn"]
  /\ left       = [r \in Requests |-> {}]
  /\ reply      = [r \in Requests |-> "none"]
  /\ named      = [r \in Requests |-> NoMessage]
  /\ source     \in [Calls -> Sources]
  /\ key        \in [Calls -> Keys \cup {NoKey}]
  /\ form       \in [Calls -> Forms]
  /\ attempt    = [c \in Calls |-> 0]
  /\ result     = [c \in Calls |-> "waiting"]
  /\ receipt    = [c \in Calls |-> NoMessage]

-----------------------------------------------------------------------------
(* The gateway.                                                            *)

Goto(r, l) == pc' = [pc EXCEPT ![r] = l]

Continue(r, l) == Goto(r, l) /\ UNCHANGED <<left, reply, named>>

Answer(r, a, m) ==
  /\ Goto(r, "answer")
  /\ reply' = [reply EXCEPT ![r] = a]
  /\ named' = [named EXCEPT ![r] = m]
  /\ UNCHANGED left

\* The Auth interceptor: a live key of an active source.
Authenticate(r) ==
  /\ pc[r] = "auth"
  /\ \/ active[Src(r)] /\ Continue(r, "read")
     \/ ~active[Src(r)] /\ Answer(r, "refused", NoMessage)
  /\ UNCHANGED <<active, tables, events, clients>>

\* UNSPECIFIED is a priority, the normal one, and no channel.
toPriority(f) == f # "unknown priority"

toChannel(f) == f # "no channel"

toSubmitCommand(f) == toPriority(f) /\ toChannel(f) /\ f # "two senders"

\* NotificationServer.Submit: what cannot be read costs nothing.
Submit(r) ==
  /\ pc[r] = "read"
  /\ \/ toSubmitCommand(Form(r)) /\ Continue(r, "admit")
     \/ ~toSubmitCommand(Form(r)) /\ Answer(r, "refused", NoMessage)
  /\ UNCHANGED <<active, tables, events, clients>>

\* source.Service.Admit: the quota, then the source again.
Admit(r) ==
  /\ pc[r] = "admit"
  /\ \/ Answer(r, "again", NoMessage)
     \/ ~active[Src(r)] /\ Answer(r, "refused", NoMessage)
     \/ active[Src(r)] /\ Continue(r, IF Key(r) # NoKey THEN "check" ELSE "resolve")
  /\ UNCHANGED <<active, tables, events, clients>>

\* The rows with the source and the key of r: at most one, says the index.
SameKey(r) == {m \in messages : Src(m) = Src(r) /\ Key(m) = Key(r)}

\* GetByIdempotencyKey before anything is built.
Check(r) ==
  /\ pc[r] = "check"
  /\ \/ SameKey(r) = {} /\ Continue(r, "resolve")
     \/ \E m \in SameKey(r) : Answer(r, "duplicate", m)
  /\ UNCHANGED <<active, tables, events, clients>>

\* Resolve and checkSenders let the request through.
Resolve(r) ==
  /\ pc[r] = "resolve"
  /\ Form(r) # "no routes"
  /\ Continue(r, "write")
  /\ UNCHANGED <<active, tables, events, clients>>

\* In the transaction: the message is built and written, then its deliveries are.
New(f) == f # "empty body"

NewSet(f) == f # "same recipient twice"

\* The request is turned down: an unknown key; no routes, an address its source does
\* not have or may not name, an unknown sender; or, inside the transaction, a
\* message that has expired, or is not one.
Refuse(r) ==
  /\ pc[r] \in {"auth", "resolve", "write"}
  /\ Answer(r, "refused", NoMessage)
  /\ UNCHANGED <<active, tables, events, clients>>

\* A statement failed, and nothing was stored.
Fail(r) ==
  /\ pc[r] \in {"auth", "admit", "check", "resolve", "write"}
  /\ Answer(r, "again", NoMessage)
  /\ UNCHANGED <<active, tables, events, clients>>

ConflictNever(r) == Cardinality(SameKey(r)) < 0   \* mutant: no unique index

ConflictAnyKey(r) == SameKey(r) # {}   \* mutant: the index holds rows without a key, too

\* ON CONFLICT (source_id, idempotency_key) WHERE idempotency_key IS NOT NULL
Conflict(r) == Key(r) # NoKey /\ SameKey(r) # {}

\* What the transaction of Submit commits: the message and every delivery of it.
Store(r) ==
  /\ messages' = messages \cup {r}
  /\ deliveries' = deliveries \cup ({r} \X Recipients)
  /\ UNCHANGED purged

CreateInTwo(r) ==   \* mutant: the message outside the transaction of its deliveries
  /\ pc[r] = "write" /\ New(Form(r))
  /\ \/ /\ ~Conflict(r) /\ NewSet(Form(r)) /\ Store(r)
        /\ Goto(r, "publish") /\ left' = [left EXCEPT ![r] = Recipients]
        /\ UNCHANGED <<reply, named>>
     \/ /\ ~Conflict(r) /\ messages' = messages \cup {r} /\ UNCHANGED <<deliveries, purged>>
        /\ Answer(r, "refused", NoMessage)
     \/ Conflict(r) /\ Continue(r, "raced") /\ UNCHANGED tables
  /\ UNCHANGED <<active, events, clients>>

\* Atomically: both tables, or, when the key has been taken since the check,
\* neither.
Create(r) ==
  /\ pc[r] = "write" /\ New(Form(r))
  /\ \/ /\ ~Conflict(r) /\ NewSet(Form(r)) /\ Store(r)
        /\ Goto(r, "publish") /\ left' = [left EXCEPT ![r] = Recipients]
        /\ UNCHANGED <<reply, named>>
     \/ Conflict(r) /\ Continue(r, "raced") /\ UNCHANGED tables
  /\ UNCHANGED <<active, events, clients>>

\* The commit was made and its answer lost: nothing is published.
CommitLost(r) ==
  /\ pc[r] = "write" /\ New(Form(r)) /\ NewSet(Form(r))
  /\ ~Conflict(r)
  /\ Store(r)
  /\ Answer(r, "again", NoMessage)
  /\ UNCHANGED <<active, events, clients>>

\* The message the write lost to is read back.  When it cannot be, or is gone, the
\* answer is that the key exists.
Raced(r) ==
  /\ pc[r] = "raced"
  /\ \/ \E m \in SameKey(r) : Answer(r, "duplicate", m)
     \/ Answer(r, "refused", NoMessage)
  /\ UNCHANGED <<active, tables, events, clients>>

\* One event, after the commit; a failure is logged and left to the sweep.
Publish(r, x) ==
  /\ pc[r] = "publish"
  /\ x \in left[r]
  /\ left' = [left EXCEPT ![r] = @ \ {x}]
  /\ events' \in {events, events \cup {<<r, x>>}}
  /\ UNCHANGED <<active, tables, pc, reply, named, clients>>

Published(r) ==
  /\ pc[r] = "publish"
  /\ left[r] = {}
  /\ Answer(r, "accepted", r)
  /\ UNCHANGED <<active, tables, events, clients>>

\* A request is over, and what it held is gone with it.
End(R) ==
  /\ left'  = [r \in Requests |-> IF r \in R THEN {} ELSE left[r]]
  /\ reply' = [r \in Requests |-> IF r \in R THEN "none" ELSE reply[r]]
  /\ named' = [r \in Requests |-> IF r \in R THEN NoMessage ELSE named[r]]

\* The gateway dies with every request in it.
Crash ==
  LET lost == {r \in Requests : pc[r] \in Running} IN
  /\ lost # {}
  /\ pc' = [r \in Requests |-> IF r \in lost THEN "over" ELSE pc[r]]
  /\ End(lost)
  /\ UNCHANGED <<active, tables, events, clients>>

-----------------------------------------------------------------------------
(* The client.                                                             *)

\* A request is sent: the first of a call, or the one after a failure.
Begin(c, n) ==
  /\ attempt' = [attempt EXCEPT ![c] = n]
  /\ UNCHANGED <<inputs, result, receipt>>

Call(c) ==
  /\ attempt[c] = 0
  /\ Begin(c, 1)
  /\ Goto(<<c, 1>>, "auth")
  /\ UNCHANGED <<active, tables, events, left, reply, named>>

Told(c, o, m) ==
  /\ result' = [result EXCEPT ![c] = o]
  /\ receipt' = [receipt EXCEPT ![c] = m]
  /\ UNCHANGED <<inputs, attempt>>

Waits(c) == attempt[c] > 0 /\ result[c] = "waiting"

RepeatOnceMore(c) == attempt[c] <= Attempts[c] /\ key[c] # NoKey   \* mutant

\* An answer worth repeating, and attempts left.  Every Submit of the client
\* carries a key; a caller without one does not come from it and is not repeated.
MayRepeat(c) == attempt[c] < Attempts[c] /\ key[c] # NoKey

\* The answer reaches the client, if it still waits for this attempt.
Reply(r) ==
  LET c == r[1] IN
  /\ pc[r] = "answer"
  /\ \/ /\ attempt[c] = r[2] /\ result[c] = "waiting"
        /\ reply[r] = "again" /\ MayRepeat(c)
        /\ Begin(c, r[2] + 1)
        /\ pc' = [pc EXCEPT ![r] = "over", ![<<c, r[2] + 1>>] = "auth"]
     \/ /\ attempt[c] = r[2] /\ result[c] = "waiting"
        /\ reply[r] = "again"
        /\ Told(c, "failed", NoMessage)
        /\ Goto(r, "over")
     \/ /\ attempt[c] = r[2] /\ result[c] = "waiting"
        /\ reply[r] # "again"
        /\ Told(c, reply[r], named[r])
        /\ Goto(r, "over")
     \/ /\ attempt[c] # r[2] \/ result[c] # "waiting"
        /\ Goto(r, "over")
        /\ UNCHANGED clients
  /\ End({r})
  /\ UNCHANGED <<active, tables, events>>

\* The connection breaks or the deadline passes.  The request itself may still be
\* running in the gateway when the next one arrives.
Lost(c) ==
  /\ Waits(c)
  /\ \/ /\ MayRepeat(c)
        /\ Begin(c, attempt[c] + 1)
        /\ Goto(<<c, attempt[c] + 1>>, "auth")
     \/ /\ Told(c, "failed", NoMessage)
        /\ UNCHANGED pc
  /\ UNCHANGED <<active, tables, events, left, reply, named>>

-----------------------------------------------------------------------------
(* What goes on beside it.                                                 *)

\* An operator's decision about the source.
Review(s) ==
  /\ active' = [active EXCEPT ![s] = ~@]
  /\ UNCHANGED <<tables, events, handlers, clients>>

\* Retention: the deliveries go with their message.
Purge(m) ==
  /\ m \in messages
  /\ messages' = messages \ {m}
  /\ purged' = purged \cup {m}
  /\ deliveries' = deliveries \ ({m} \X Recipients)
  /\ UNCHANGED <<active, events, handlers, clients>>

Handle(r) ==
  \/ Authenticate(r) \/ Submit(r) \/ Admit(r) \/ Check(r) \/ Resolve(r) \/ Refuse(r) \/ Fail(r)
  \/ Create(r) \/ CommitLost(r) \/ Raced(r)
  \/ \E x \in Recipients : Publish(r, x)
  \/ Published(r) \/ Reply(r)

Next ==
  \/ \E c \in Calls : Call(c) \/ Lost(c)
  \/ \E r \in Requests : Handle(r)
  \/ \E s \in Sources : Review(s)
  \/ \E m \in Requests : Purge(m)
  \/ Crash

Spec == Init /\ [][Next]_vars

-----------------------------------------------------------------------------
(* Properties.                                                             *)

TablesTypeOK ==
  /\ active \in [Sources -> BOOLEAN]
  /\ messages \subseteq Requests
  /\ purged \subseteq Requests \ messages
  /\ deliveries \subseteq Requests \X Recipients
  /\ events \subseteq Requests \X Recipients

HandlersTypeOK ==
  /\ pc \in [Requests -> Labels]
  /\ left \in [Requests -> SUBSET Recipients]
  /\ reply \in [Requests -> Replies]
  /\ named \in [Requests -> Requests \cup {NoMessage}]

ClientsTypeOK ==
  /\ source \in [Calls -> Sources]
  /\ key \in [Calls -> Keys \cup {NoKey}]
  /\ form \in [Calls -> Forms]
  /\ attempt \in [Calls -> Nat]
  /\ \A c \in Calls : attempt[c] <= Attempts[c]
  /\ result \in [Calls -> Results]
  /\ receipt \in [Calls -> Requests \cup {NoMessage}]

\* Every variable has its type, and a message is stored or purged, not both.
TypeOK == TablesTypeOK /\ HandlersTypeOK /\ ClientsTypeOK

HasReceipt(c) == result[c] \in {"accepted", "duplicate"}

\* "The same key must never produce a second message, however many times a client
\* retries" (Submit): two calls of one source with one key are told of the same
\* message, whichever attempt of either stored it and however the check, the write
\* and the second read interleave; unless retention deleted it in between.
ReceiptsAgree ==
  \A c, d \in Calls :
    /\ HasReceipt(c) /\ HasReceipt(d)
    /\ source[c] = source[d] /\ key[c] = key[d] /\ key[c] # NoKey
    => receipt[c] = receipt[d] \/ {receipt[c], receipt[d]} \cap purged # {}

\* "A message written without its deliveries is a message nobody will ever send"
\* (Submit), and what anybody is told of is committed: a stored message has all of
\* its deliveries and is one a sender can make sense of; a request that was turned
\* down left nothing behind, also when the refusal came from within the
\* transaction; an event is published only for a
\* row that was committed; and a receipt names a committed message of the caller's
\* own source and key, not one that was rolled back nor another customer's
\* (duplicateOf, raced).
StoredWhole ==
  /\ \A m \in messages : {m} \X Recipients \subseteq deliveries /\ Form(m) = "plain"
  /\ \A r \in Requests : reply[r] = "refused" => r \notin messages
  /\ \A e \in events : e[1] \in messages \cup purged
  /\ \A c \in Calls : HasReceipt(c) =>
       /\ receipt[c] \in messages \cup purged
       /\ Src(receipt[c]) = source[c]
       /\ Key(receipt[c]) = key[c]

\* Of all the requests, retries and races, what remains for the caller and for the
\* dispatcher is Acceptance: a message enters the tables at once with its deliveries,
\* one per source and key; what the stream is given was accepted before; and a caller
\* is told once, of its own message, so that two calls without a key never hear of
\* each other's ("WHERE idempotency_key IS NOT NULL").
Promise == INSTANCE Acceptance WITH
  Messages  <- Requests,
  accepted  <- messages,
  gone      <- purged,
  published <- events,
  told      <- receipt

ImplementsAcceptance == Promise!Spec
=============================================================================
