------------------------------ MODULE Dispatch ------------------------------
(***************************************************************************)
(* The dispatcher: internal/core/usecase/dispatch.go, over the deliveries  *)
(* table (internal/adapter/db/postgres) and the broker's consumer          *)
(* (internal/adapter/mq/nats).                                             *)
(*                                                                         *)
(* A worker is one thread of one dispatcher process.  A consumer is the    *)
(* callback the broker runs (Consumer.handle -> Dispatcher.Handle); a      *)
(* sweeper is the scheduled job (Dispatcher.Recover).  Both end in         *)
(* deliver, so from the label "load" on they run the same steps.  Each     *)
(* step is one database statement, one call of a provider or one call of   *)
(* the customer's callback: what happens between two of them is anybody's. *)
(*                                                                         *)
(* Time is kept as ages.  An age stops counting at the last value any      *)
(* guard can tell apart, so the clock itself never runs out.               *)
(***************************************************************************)
EXTENDS Integers, Sequences, FiniteSets

CONSTANTS
  Messages,      \* notifications a source may submit
  Deliveries,    \* one per recipient
  MessageOf,     \* the message each delivery belongs to
  NoDelivery,    \* "no delivery in hand"
  Consumers,     \* broker callbacks
  Sweepers,      \* recovery jobs, one per dispatcher (singleton mode)
  Processes,     \* dispatcher processes
  Home,          \* the process each worker runs in
  MaxAttempts,   \* DISPATCH_MAX_ATTEMPTS, the broker's MaxDeliver too
  After,         \* RECONCILE_AFTER
  GiveUp,        \* RECONCILE_GIVE_UP
  Lease,         \* RECONCILE_LEASE
  Batch,         \* RECONCILE_BATCH
  Deadlines,     \* the ages at which a message may expire, some perhaps never
  NoSender,      \* "NO_SENDER" if a source's senders may be unusable, or nothing
  Refusals,      \* the ways a provider may turn a message down for good
  RetentionAge,  \* RETENTION_AGE
  MaxAge,        \* bound: the age at which a message stops getting older
  MaxCrashes     \* bound: process crashes in one behaviour

Workers == Consumers \cup Sweepers

ASSUME DeliveryAssumption ==
  /\ MessageOf \in [Deliveries -> Messages]
  /\ NoDelivery \notin Deliveries

ASSUME WorkerAssumption ==
  /\ Consumers \cap Sweepers = {}
  /\ Home \in [Workers -> Processes]

\* What config/settings/dispatch.go refuses to start without.
ASSUME SettingsAssumption ==
  /\ MaxAttempts \in Nat \ {0}
  /\ Batch \in Nat \ {0}
  /\ After \in Nat
  /\ GiveUp \in Nat /\ GiveUp > After
  /\ Lease \in Nat

ASSUME BoundAssumption ==
  /\ Deadlines \subseteq Nat
  /\ NoSender \subseteq {"NO_SENDER"}
  /\ Refusals \subseteq {"NOT_REACHABLE", "PERMANENT"}
  /\ RetentionAge \in Nat
  /\ MaxAge \in Nat /\ MaxAge >= GiveUp
  /\ MaxCrashes \in Nat

VARIABLES
  \* the database
  phase,      \* of a message: not accepted yet, stored, deleted by retention
  msgAge,     \* time since notifications.created_at
  expireAt,   \* notifications.expires_at, as an age; above MaxAge there is none
  outcome,    \* deliveries.status, with failure_reason when it is FAILED
  attempts,   \* deliveries.attempts
  rowAge,     \* time since deliveries.updated_at, while PENDING
  claim,      \* time since deliveries.claimed_at, or Unclaimed
  notified,   \* deliveries.notified_at is set
  \* the broker
  queue,      \* where the event of a delivery is
  tries,      \* NumDelivered
  \* the workers
  pc, job,    \* next step, and the delivery in hand
  batch,      \* sweeper: rows claimed and not begun
  last,       \* deliveries in hand whose next failure is final
  attempt,    \* consumer: the broker's count for the event in hand
  verdict,    \* what the worker is about to record
  view,       \* the rows read for the announcement
  \* the world outside
  accepted,   \* deliveries a provider has accepted
  told,       \* callbacks made, per message
  crashes,
  disturbed   \* deliveries whose handling met an infrastructure failure

dbVars     == <<phase, msgAge, expireAt, outcome, attempts, rowAge, claim, notified>>
brokerVars == <<queue, tries>>
workerVars == <<pc, job, batch, last, attempt, verdict, view>>
worldVars  == <<accepted, told, crashes, disturbed>>
vars       == <<dbVars, brokerVars, workerVars, worldVars>>

-----------------------------------------------------------------------------
(* Statuses and reasons: internal/core/domain/delivery/status.go.          *)

Pending  == "PENDING"
Sent     == "SENT"
Reasons  == {"EXPIRED", "MAX_ATTEMPTS", "PERMANENT", "NO_SENDER", "NOT_REACHABLE"}
Outcomes == {Pending, Sent} \cup Reasons

\* "GONE" is the failure recorded for a delivery whose message was not found:
\* reason PERMANENT, and no message to announce.
Verdicts == {"NONE", "GONE", Sent} \cup Reasons

IsSettled(o) == o \in {Sent} \cup Reasons

Unclaimed == -1

Labels == {"idle", "judge", "load", "send", "release", "record",
           "list", "hook", "claim", "notify", "ack"}

Announcing == {"list", "hook", "claim", "notify"}

Of(m)        == {x \in Deliveries : MessageOf[x] = m}
Exists(x)    == phase[MessageOf[x]] = "stored"
AllSettled(m) == \A x \in Of(m) : IsSettled(outcome[x])

\* The rows ListAllForNotification returns, with their outcomes.
Rows(m) == {<<x, outcome[x]>> : x \in {y \in Of(m) : Exists(y)}}

Plus1(n, cap) == IF n < cap THEN n + 1 ELSE n

-----------------------------------------------------------------------------
Init ==
  /\ phase     = [m \in Messages |-> "new"]
  /\ msgAge    = [m \in Messages |-> 0]
  /\ expireAt  \in [Messages -> Deadlines]
  /\ outcome   = [x \in Deliveries |-> Pending]
  /\ attempts  = [x \in Deliveries |-> 0]
  /\ rowAge    = [x \in Deliveries |-> 0]
  /\ claim     = [x \in Deliveries |-> Unclaimed]
  /\ notified  = [x \in Deliveries |-> FALSE]
  /\ queue     = [x \in Deliveries |-> "unpublished"]
  /\ tries     = [x \in Deliveries |-> 0]
  /\ pc        = [w \in Workers |-> "idle"]
  /\ job       = [w \in Workers |-> NoDelivery]
  /\ batch     = [w \in Workers |-> {}]
  /\ last      = [w \in Workers |-> {}]
  /\ attempt   = [w \in Workers |-> 0]
  /\ verdict   = [w \in Workers |-> "NONE"]
  /\ view      = [w \in Workers |-> {}]
  /\ accepted  = {}
  /\ told      = [m \in Messages |-> <<>>]
  /\ crashes   = 0
  /\ disturbed = {}

-----------------------------------------------------------------------------
(* The gateway and the clock.                                              *)

\* The transaction of Submit: the message and all its deliveries, PENDING.
Accept(m) ==
  /\ phase[m] = "new"
  /\ phase' = [phase EXCEPT ![m] = "stored"]
  /\ UNCHANGED <<msgAge, expireAt, outcome, attempts, rowAge, claim, notified,
                 brokerVars, workerVars, worldVars>>

\* The event reaches the stream; it may do so late, or never.
Publish(x) ==
  /\ phase[MessageOf[x]] # "new"
  /\ queue[x] = "unpublished"
  /\ queue' = [queue EXCEPT ![x] = "queued"]
  /\ UNCHANGED <<dbVars, tries, workerVars, worldVars>>

\* Ages are counted only where something can still read them: a settled row's
\* updated_at and claimed_at are in no guard.
Tick ==
  /\ msgAge' = [m \in Messages |->
       IF phase[m] = "stored" THEN Plus1(msgAge[m], MaxAge) ELSE msgAge[m]]
  /\ rowAge' = [x \in Deliveries |->
       IF Exists(x) /\ outcome[x] = Pending THEN Plus1(rowAge[x], MaxAge) ELSE rowAge[x]]
  /\ claim' = [x \in Deliveries |->
       IF Exists(x) /\ outcome[x] = Pending /\ claim[x] # Unclaimed
       THEN Plus1(claim[x], Lease + 1) ELSE claim[x]]
  /\ <<msgAge, rowAge, claim>>' # <<msgAge, rowAge, claim>>
  /\ UNCHANGED <<phase, expireAt, outcome, attempts, notified, brokerVars, workerVars, worldVars>>

\* Retention deletes by age alone, and the deliveries go with their message.
Purge(m) ==
  /\ phase[m] = "stored"
  /\ msgAge[m] > RetentionAge
  /\ phase' = [phase EXCEPT ![m] = "purged"]
  /\ UNCHANGED <<msgAge, expireAt, outcome, attempts, rowAge, claim, notified,
                 brokerVars, workerVars, worldVars>>

-----------------------------------------------------------------------------
(* Control of a worker.                                                    *)

Goto(w, l) == pc' = [pc EXCEPT ![w] = l]

\* A sweeper takes the next row of its batch; a consumer, whose batch is always
\* empty, goes back to waiting for the broker.
NextRow(w) ==
  /\ attempt' = [attempt EXCEPT ![w] = 0]
  /\ verdict' = [verdict EXCEPT ![w] = "NONE"]
  /\ view' = [view EXCEPT ![w] = {}]
  /\ \/ /\ batch[w] = {}
        /\ Goto(w, "idle")
        /\ job' = [job EXCEPT ![w] = NoDelivery]
        /\ last' = [last EXCEPT ![w] = {}]
        /\ UNCHANGED batch
     \/ \E x \in batch[w] :
        /\ Goto(w, "load")
        /\ job' = [job EXCEPT ![w] = x]
        /\ batch' = [batch EXCEPT ![w] = @ \ {x}]
        /\ UNCHANGED last

\* deliver returned an error: a consumer naks, which leaves the event with the
\* broker; a sweeper logs it and carries on with the next row.
ReturnError(w) == NextRow(w)

\* deliver returned nil: a consumer still has to acknowledge.
ReturnNil(w) ==
  \/ /\ w \in Sweepers
     /\ NextRow(w)
  \/ /\ w \in Consumers
     /\ Goto(w, "ack")
     /\ verdict' = [verdict EXCEPT ![w] = "NONE"]
     /\ view' = [view EXCEPT ![w] = {}]
     /\ UNCHANGED <<job, batch, last, attempt>>

Disturb(w) == disturbed' = disturbed \cup {job[w]}

-----------------------------------------------------------------------------
(* The two ways in.                                                        *)

ReceiveOnceMore(w, x) ==   \* mutant: one delivery past the limit
  /\ w \in Consumers
  /\ pc[w] = "idle"
  /\ queue[x] = "queued"
  /\ tries[x] <= MaxAttempts
  /\ tries' = [tries EXCEPT ![x] = @ + 1]

\* The broker offers the event of x.  It may do so again at any time until it
\* is acknowledged: its backoff starts well below what a handler may take.
Receive(w, x) ==
  /\ w \in Consumers
  /\ pc[w] = "idle"
  /\ queue[x] = "queued"
  /\ tries[x] < MaxAttempts
  /\ tries' = [tries EXCEPT ![x] = @ + 1]

LastAttemptOffByOne(n) == n > MaxAttempts   \* mutant

\* attempt >= d.maxAttempts
LastAttempt(n) == n >= MaxAttempts

\* Dispatcher.Handle up to its call of deliver.
Handle(w, x) ==
  /\ Receive(w, x)
  /\ \/ /\ Exists(x) /\ ~IsSettled(outcome[x])
        /\ Goto(w, "load")
        /\ job' = [job EXCEPT ![w] = x]
        /\ attempt' = [attempt EXCEPT ![w] = tries[x] + 1]
        /\ last' = [last EXCEPT ![w] = IF LastAttempt(tries[x] + 1) THEN {x} ELSE {}]
     \/ /\ ~Exists(x) \/ IsSettled(outcome[x])
        /\ Goto(w, "ack")
        /\ job' = [job EXCEPT ![w] = x]
        /\ UNCHANGED <<attempt, last>>
  /\ UNCHANGED <<dbVars, queue, batch, verdict, view, worldVars>>

\* The row could not be read: nak.  Or the broker's count, or the event itself, is
\* unreadable, which no later attempt would change: the event is terminated.
HandleFails(w, x) ==
  /\ Receive(w, x)
  /\ \/ UNCHANGED queue
     \/ queue' = [queue EXCEPT ![x] = "acked"]
  /\ disturbed' = disturbed \cup {x}
  /\ UNCHANGED <<dbVars, workerVars, accepted, told, crashes>>

\* The acknowledgement reaches the broker, or is lost.
Ack(w) ==
  /\ pc[w] = "ack"
  /\ \/ queue' = [queue EXCEPT ![job[w]] = "acked"]
     \/ UNCHANGED queue
  /\ NextRow(w)
  /\ UNCHANGED <<dbVars, tries, worldVars>>

\* The rows ClaimStaleDeliveries may take.
Stale == {x \in Deliveries : /\ Exists(x)
                             /\ outcome[x] = Pending
                             /\ rowAge[x] > After
                             /\ claim[x] = Unclaimed \/ claim[x] > Lease}

\* One statement claims the oldest stale rows.
ClaimStale(S) ==
  /\ S # {}
  /\ Cardinality(S) <= Batch
  /\ S # Stale => Cardinality(S) = Batch
  /\ \A x \in S, y \in Stale \ S : rowAge[x] >= rowAge[y]
  /\ claim' = [x \in Deliveries |-> IF x \in S THEN 0 ELSE claim[x]]

\* Dispatcher.Recover up to the answer of its claim.
Recover(w) ==
  /\ w \in Sweepers
  /\ pc[w] = "idle"
  /\ \E S \in SUBSET Stale :
       /\ ClaimStale(S)
       /\ \E x \in S :
            /\ job' = [job EXCEPT ![w] = x]
            /\ batch' = [batch EXCEPT ![w] = S \ {x}]
  /\ Goto(w, "judge")
  /\ UNCHANGED <<phase, msgAge, expireAt, outcome, attempts, rowAge, notified,
                 brokerVars, last, attempt, verdict, view, worldVars>>

\* The claim took effect and its answer was lost: the job ends, and the rows wait
\* for their lease.  (A claim that took no effect changes nothing.)
RecoverFails(w) ==
  /\ w \in Sweepers
  /\ pc[w] = "idle"
  /\ \E S \in SUBSET Stale : ClaimStale(S)
  /\ UNCHANGED <<phase, msgAge, expireAt, outcome, attempts, rowAge, notified,
                 brokerVars, workerVars, worldVars>>

PastGiveUpByTries(x) == tries[x] >= MaxAttempts   \* mutant: only offered rows are given up

\* now.Sub(del.UpdatedAt()) >= d.giveUp, of the copy the claim returned.  The row
\* was PENDING then, and nothing writes updated_at before the outcome, so the copy
\* is as old as its message whatever was recorded since.
PastGiveUp(x) == msgAge[MessageOf[x]] >= GiveUp

\* The clock is read once, after the claim; the whole batch is judged by it.
Judge(w) ==
  /\ pc[w] = "judge"
  /\ last' = [last EXCEPT ![w] = {x \in {job[w]} \cup batch[w] : PastGiveUp(x)}]
  /\ Goto(w, "load")
  /\ UNCHANGED <<dbVars, brokerVars, job, batch, attempt, verdict, view, worldVars>>

-----------------------------------------------------------------------------
(* deliver.                                                                *)

Decide(w, v) ==
  /\ verdict' = [verdict EXCEPT ![w] = v]
  /\ Goto(w, "record")
  /\ UNCHANGED <<job, batch, last, attempt, view>>

\* The message is read, its deadline checked and the sender looked up.
Load(w) ==
  LET m == MessageOf[job[w]] IN
  /\ pc[w] = "load"
  /\ \/ phase[m] = "purged" /\ Decide(w, "GONE")
     \/ phase[m] = "stored" /\ msgAge[m] >= expireAt[m] /\ Decide(w, "EXPIRED")
     \/ /\ phase[m] = "stored" /\ msgAge[m] < expireAt[m]
        /\ \E r \in NoSender : Decide(w, r)
     \/ /\ phase[m] = "stored" /\ msgAge[m] < expireAt[m]
        /\ Goto(w, "send")
        /\ UNCHANGED <<job, batch, last, attempt, verdict, view>>
  /\ UNCHANGED <<dbVars, brokerVars, worldVars>>

\* Either lookup failed.  Nothing is released on this way out.
LoadFails(w) ==
  /\ pc[w] = "load"
  /\ ReturnError(w)
  /\ Disturb(w)
  /\ UNCHANGED <<dbVars, brokerVars, accepted, told, crashes>>

SendIgnoresRefusal(w) ==   \* mutant: a refusal is taken for an acceptance
  LET x == job[w] IN
  /\ pc[w] = "send"
  /\ \/ accepted' = accepted \cup {x} /\ Decide(w, Sent)
     \/ UNCHANGED accepted /\ \E r \in Refusals : Decide(w, Sent)
  /\ UNCHANGED <<dbVars, brokerVars, told, crashes, disturbed>>

\* The provider's answer.  A timeout is transient and leaves open whether the
\* provider took the message.
Send(w) ==
  LET x == job[w] IN
  /\ pc[w] = "send"
  /\ \/ accepted' = accepted \cup {x} /\ Decide(w, Sent)
     \/ UNCHANGED accepted /\ \E r \in Refusals : Decide(w, r)
     \/ /\ accepted' \in {accepted, accepted \cup {x}}
        /\ \/ x \in last[w] /\ Decide(w, "MAX_ATTEMPTS")
           \/ /\ x \notin last[w]
              /\ Goto(w, "release")
              /\ UNCHANGED <<job, batch, last, attempt, verdict, view>>
  /\ UNCHANGED <<dbVars, brokerVars, told, crashes, disturbed>>

\* sendFailed gives the claim back, whoever holds it; or cannot, and says so in
\* the log.  The error is returned either way.
Release(w) ==
  LET x == job[w] IN
  /\ pc[w] = "release"
  /\ \/ claim' = [claim EXCEPT ![x] = IF Exists(x) /\ outcome[x] = Pending THEN Unclaimed ELSE @]
     \/ UNCHANGED claim
  /\ ReturnError(w)
  /\ UNCHANGED <<phase, msgAge, expireAt, outcome, attempts, rowAge, notified, brokerVars, worldVars>>

ReasonOf(v) == IF v = "GONE" THEN "PERMANENT" ELSE v

\* UpdateDelivery: WHERE id = @id AND status = 'PENDING'.
Update(x, v) ==
  IF Exists(x) /\ outcome[x] = Pending
  THEN /\ outcome' = [outcome EXCEPT ![x] = ReasonOf(v)]
       /\ attempts' = [attempts EXCEPT ![x] = @ + 1]
       /\ rowAge' = [rowAge EXCEPT ![x] = 0]
  ELSE UNCHANGED <<outcome, attempts, rowAge>>

\* RecordSent and RecordFailure.  Whoever finds the row settled goes on as if it
\* had written it.
Record(w) ==
  /\ pc[w] = "record"
  /\ Update(job[w], verdict[w])
  /\ \/ verdict[w] = "GONE" /\ ReturnNil(w)
     \/ /\ verdict[w] # "GONE"
        /\ Goto(w, "list")
        /\ verdict' = [verdict EXCEPT ![w] = "NONE"]
        /\ UNCHANGED <<job, batch, last, attempt, view>>
  /\ UNCHANGED <<phase, msgAge, expireAt, claim, notified, brokerVars, worldVars>>

\* The statement failed, or it succeeded and its answer was lost.
RecordFails(w) ==
  /\ pc[w] = "record"
  /\ \/ Update(job[w], verdict[w])
     \/ UNCHANGED <<outcome, attempts, rowAge>>
  /\ ReturnError(w)
  /\ Disturb(w)
  /\ UNCHANGED <<phase, msgAge, expireAt, claim, notified, brokerVars, accepted, told, crashes>>

-----------------------------------------------------------------------------
(* announce.                                                               *)

UnannouncedAny(m) == {x \in Of(m) : Exists(x)}   \* mutant: no notified_at IS NULL

\* The rows ClaimNotificationAnnouncement stamps, and the stamping.
Unannounced(m) == {x \in Of(m) : Exists(x) /\ ~notified[x]}
Stamp(m) == notified' = [x \in Deliveries |-> notified[x] \/ x \in Unannounced(m)]

ListClaimsFirst(w) ==   \* mutant: claimed before the message is known to be finished
  LET m == MessageOf[job[w]] IN
  /\ pc[w] = "list"
  /\ Stamp(m)
  /\ \/ /\ Unannounced(m) = {} \/ \E r \in Rows(m) : ~IsSettled(r[2])
        /\ ReturnNil(w)
     \/ /\ Unannounced(m) # {} /\ \A r \in Rows(m) : IsSettled(r[2])
        /\ view' = [view EXCEPT ![w] = Rows(m)]
        /\ Goto(w, "notify")
        /\ UNCHANGED <<job, batch, last, attempt, verdict>>
  /\ UNCHANGED <<phase, msgAge, expireAt, outcome, attempts, rowAge, claim, brokerVars, worldVars>>

\* Every delivery is read; unless all are settled somebody else will announce.
List(w) ==
  LET m == MessageOf[job[w]] IN
  /\ pc[w] = "list"
  /\ \/ /\ \E r \in Rows(m) : ~IsSettled(r[2])
        /\ ReturnNil(w)
     \/ /\ \A r \in Rows(m) : IsSettled(r[2])
        /\ view' = [view EXCEPT ![w] = Rows(m)]
        /\ Goto(w, "hook")
        /\ UNCHANGED <<job, batch, last, attempt, verdict>>
  /\ UNCHANGED <<dbVars, brokerVars, worldVars>>

\* The source's callback is registered and active.
Hook(w) ==
  /\ pc[w] = "hook"
  /\ Goto(w, "claim")
  /\ UNCHANGED <<dbVars, brokerVars, job, batch, last, attempt, verdict, view, worldVars>>

\* The rows, or the callback, could not be read, or there is nobody to tell.
AnnounceFails(w) ==
  /\ pc[w] \in {"list", "hook"}
  /\ ReturnNil(w)
  /\ Disturb(w)
  /\ UNCHANGED <<dbVars, brokerVars, accepted, told, crashes>>

MineAlways(m) == Cardinality(Unannounced(m)) >= 0   \* mutant: rows >= 0

\* rows > 0
Mine(m) == Unannounced(m) # {}

ClaimAnnouncement(w) ==
  LET m == MessageOf[job[w]] IN
  /\ pc[w] = "claim"
  /\ Stamp(m)
  /\ \/ /\ Mine(m)
        /\ Goto(w, "notify")
        /\ UNCHANGED <<job, batch, last, attempt, verdict, view>>
     \/ /\ ~Mine(m)
        /\ ReturnNil(w)
  /\ UNCHANGED <<phase, msgAge, expireAt, outcome, attempts, rowAge, claim, brokerVars, worldVars>>

\* The claim failed, or succeeded and its answer was lost.
ClaimAnnouncementFails(w) ==
  /\ pc[w] = "claim"
  /\ Stamp(MessageOf[job[w]]) \/ UNCHANGED notified
  /\ ReturnNil(w)
  /\ Disturb(w)
  /\ UNCHANGED <<phase, msgAge, expireAt, outcome, attempts, rowAge, claim, brokerVars,
                 accepted, told, crashes>>

\* The callback is made, once, with the rows read before the claim.
Notify(w) ==
  LET m == MessageOf[job[w]] IN
  /\ pc[w] = "notify"
  /\ told' = [told EXCEPT ![m] = Append(@, view[w])]
  /\ ReturnNil(w)
  /\ UNCHANGED <<dbVars, brokerVars, accepted, crashes, disturbed>>

-----------------------------------------------------------------------------
\* A process dies with whatever its workers held, and is started again.
Crash(p) ==
  LET lost == {w \in Workers : Home[w] = p /\ pc[w] # "idle"} IN
  /\ crashes < MaxCrashes
  /\ lost # {}
  /\ crashes' = crashes + 1
  /\ disturbed' = disturbed \cup {job[w] : w \in lost} \cup UNION {batch[w] : w \in lost}
  /\ pc'      = [w \in Workers |-> IF w \in lost THEN "idle" ELSE pc[w]]
  /\ job'     = [w \in Workers |-> IF w \in lost THEN NoDelivery ELSE job[w]]
  /\ batch'   = [w \in Workers |-> IF w \in lost THEN {} ELSE batch[w]]
  /\ last'    = [w \in Workers |-> IF w \in lost THEN {} ELSE last[w]]
  /\ attempt' = [w \in Workers |-> IF w \in lost THEN 0 ELSE attempt[w]]
  /\ verdict' = [w \in Workers |-> IF w \in lost THEN "NONE" ELSE verdict[w]]
  /\ view'    = [w \in Workers |-> IF w \in lost THEN {} ELSE view[w]]
  /\ UNCHANGED <<dbVars, brokerVars, accepted, told>>

Fault(w) ==
  \/ LoadFails(w)
  \/ RecordFails(w)
  \/ AnnounceFails(w)
  \/ ClaimAnnouncementFails(w)
  \/ RecoverFails(w)
  \/ \E x \in Deliveries : HandleFails(w, x)

Step(w) ==
  \/ Judge(w) \/ Load(w) \/ Send(w) \/ Release(w) \/ Record(w)
  \/ List(w) \/ Hook(w) \/ ClaimAnnouncement(w) \/ Notify(w) \/ Ack(w)

Next ==
  \/ \E m \in Messages : Accept(m) \/ Purge(m)
  \/ \E x \in Deliveries : Publish(x)
  \/ Tick
  \/ \E w \in Workers : \/ \E x \in Deliveries : Handle(w, x)
                        \/ Recover(w)
                        \/ Step(w)
                        \/ Fault(w)
  \/ \E p \in Processes : Crash(p)

Spec == Init /\ [][Next]_vars

-----------------------------------------------------------------------------
(* Fairness, for liveness only.  The scheduler keeps starting recovery and *)
(* time passes; a worker that can take its next step does.  Infrastructure *)
(* failures may recur for ever, but a lookup or a write that is tried      *)
(* again and again succeeds in the end: strong fairness on the successful  *)
(* outcome.  Nothing is assumed of the broker, of the gateway's publish or *)
(* of the providers, which may answer "transient" for ever.                *)

Fairness ==
  /\ WF_vars(Tick)
  /\ \A w \in Workers : WF_vars(Step(w))
  /\ \A w \in Sweepers : /\ SF_vars(Recover(w))
                         /\ SF_vars(Load(w))
                         /\ SF_vars(Record(w))

FairSpec == Spec /\ Fairness

-----------------------------------------------------------------------------
(* Properties.                                                             *)

DbTypeOK ==
  /\ phase \in [Messages -> {"new", "stored", "purged"}]
  /\ msgAge \in [Messages -> 0..MaxAge]
  /\ expireAt \in [Messages -> Deadlines]
  /\ outcome \in [Deliveries -> Outcomes]
  /\ attempts \in [Deliveries -> Nat]
  /\ rowAge \in [Deliveries -> 0..MaxAge]
  /\ claim \in [Deliveries -> Unclaimed..(Lease + 1)]
  /\ notified \in [Deliveries -> BOOLEAN]

BrokerTypeOK ==
  /\ queue \in [Deliveries -> {"unpublished", "queued", "acked"}]
  /\ tries \in [Deliveries -> 0..MaxAttempts]

WorkerTypeOK ==
  /\ pc \in [Workers -> Labels]
  /\ job \in [Workers -> Deliveries \cup {NoDelivery}]
  /\ \A w \in Workers : pc[w] # "idle" => job[w] \in Deliveries
  /\ batch \in [Workers -> SUBSET Deliveries]
  /\ last \in [Workers -> SUBSET Deliveries]
  /\ attempt \in [Workers -> 0..MaxAttempts]
  /\ verdict \in [Workers -> Verdicts]
  /\ view \in [Workers -> SUBSET (Deliveries \X Outcomes)]
  /\ \A w \in Workers : pc[w] = "record" => verdict[w] # "NONE"

WorldTypeOK ==
  /\ accepted \in SUBSET Deliveries
  /\ told \in [Messages -> Seq(SUBSET (Deliveries \X Outcomes))]
  /\ crashes \in 0..MaxCrashes
  /\ disturbed \in SUBSET Deliveries

\* Every variable has its type, a worker that is not idle has a delivery in hand,
\* and one about to record has something to record (the locals of Handle, Recover
\* and deliver).
TypeOK == DbTypeOK /\ BrokerTypeOK /\ WorkerTypeOK /\ WorldTypeOK

\* announce claims before it calls ("the one thing that must be true is that it
\* goes out once"): however many workers settle the last deliveries of a message
\* together, are retried or crash, its source is called back at most once.  What it
\* is told is final and complete: the rows were read before the announcement was
\* claimed and are reported after it, and still every delivery of the message is in
\* the callback with the outcome its row has for good.
AnnouncedOnce ==
  \A m \in Messages : told[m] # <<>> =>
    /\ AllSettled(m)
    /\ told[m] = <<{<<x, outcome[x]>> : x \in Of(m)}>>

\* "Whoever settles the last delivery announces": two workers that settle the
\* last two together cannot each leave the announcement to the other.  A settled
\* message has been announced or somebody is on the way to it, unless handling it
\* met a crash, a failed statement, or a source with no callback.
AnnounceNotMissed ==
  \A m \in Messages :
    /\ phase[m] = "stored"
    /\ Of(m) # {}
    /\ AllSettled(m)
    /\ Of(m) \cap disturbed = {}
    => \/ told[m] # <<>>
       \/ \E w \in Workers : pc[w] \in Announcing /\ MessageOf[job[w]] = m

\* An outcome is earned, whichever of the workers that raced for the delivery got
\* to write it: SENT means a provider accepted it (MarkSent), and MAX_ATTEMPTS that
\* no other attempt was to come, because the broker had made its last one or the
\* row was past RECONCILE_GIVE_UP (lastChance, decided at the start of an attempt
\* and used at its end).
OutcomeIsEarned ==
  \A x \in Deliveries :
    /\ outcome[x] = Sent => x \in accepted
    /\ outcome[x] = "MAX_ATTEMPTS" =>
         tries[x] = MaxAttempts \/ msgAge[MessageOf[x]] >= GiveUp

\* The broker's limit and the dispatcher's agree (maxAttempts "must match the
\* broker's own delivery limit"): once the broker has offered an event for the
\* last time and no consumer is still on it, the delivery has an outcome, unless
\* an infrastructure failure or a crash got in the way.
ExhaustedMeansSettled ==
  \A x \in Deliveries :
    /\ Exists(x)
    /\ tries[x] = MaxAttempts
    /\ x \notin disturbed
    /\ \A w \in Consumers : job[w] = x => pc[w] \in Announcing \cup {"ack"}
    => IsSettled(outcome[x])

\* An outcome is written once: the rows and the callbacks, with every retry, race
\* and crash, behave as deliveries that settle once and messages told once.
Promise == INSTANCE Settlement
ImplementsSettlement == Promise!Spec

\* Every stored delivery gets an outcome in the end, also when its event never
\* reached the broker, the broker gave up on it, or its dispatcher died; and also
\* when its message has no deadline and its provider never gives a final answer,
\* where RECONCILE_GIVE_UP is all that ends it (Recover's lastChance).
EventuallySettled ==
  \A x \in Deliveries : Exists(x) ~> (IsSettled(outcome[x]) \/ ~Exists(x))

=============================================================================
