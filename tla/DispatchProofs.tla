--------------------------- MODULE DispatchProofs ---------------------------
(***************************************************************************)
(* Proofs about Dispatch, for any number of messages, deliveries, workers, *)
(* processes and crashes, and any settings the configuration accepts.      *)
(***************************************************************************)
EXTENDS Dispatch, TLAPS

-----------------------------------------------------------------------------
(* The type invariant.                                                     *)

LEMMA NextRowType ==
  ASSUME WorkerTypeOK, NEW w \in Workers, NextRow(w)
  PROVE  WorkerTypeOK'
<1>. USE SettingsAssumption, DeliveryAssumption
<1>1. CASE batch[w] = {} /\ pc' = [pc EXCEPT ![w] = "idle"]
           /\ job' = [job EXCEPT ![w] = NoDelivery] /\ last' = [last EXCEPT ![w] = {}]
           /\ UNCHANGED batch
  BY <1>1 DEF WorkerTypeOK, NextRow, Labels, Verdicts, Reasons, Outcomes, Sent, Pending
<1>2. ASSUME NEW x \in batch[w],
             pc' = [pc EXCEPT ![w] = "load"], job' = [job EXCEPT ![w] = x],
             batch' = [batch EXCEPT ![w] = @ \ {x}], UNCHANGED last
      PROVE  WorkerTypeOK'
  BY <1>2 DEF WorkerTypeOK, NextRow, Labels, Verdicts, Reasons, Outcomes, Sent, Pending
<1>. QED  BY <1>1, <1>2 DEF NextRow, Goto

LEMMA ReturnNilType ==
  ASSUME WorkerTypeOK, NEW w \in Workers, pc[w] # "idle", ReturnNil(w)
  PROVE  WorkerTypeOK'
<1>1. CASE NextRow(w)
  BY <1>1, NextRowType
<1>2. CASE Goto(w, "ack") /\ verdict' = [verdict EXCEPT ![w] = "NONE"]
           /\ view' = [view EXCEPT ![w] = {}] /\ UNCHANGED <<job, batch, last, attempt>>
  BY <1>2 DEF WorkerTypeOK, Goto, Labels, Verdicts, Reasons, Sent
<1>. QED  BY <1>1, <1>2 DEF ReturnNil

LEMMA DecideType ==
  ASSUME WorkerTypeOK, NEW w \in Workers, pc[w] # "idle",
         NEW v \in Verdicts \ {"NONE"}, Decide(w, v)
  PROVE  WorkerTypeOK'
BY DEF WorkerTypeOK, Decide, Goto, Labels

LEMMA UpdateType ==
  ASSUME DbTypeOK, NEW x \in Deliveries, NEW v \in Verdicts \ {"NONE"}, Update(x, v),
         UNCHANGED <<phase, msgAge, expireAt, claim, notified>>
  PROVE  DbTypeOK'
BY BoundAssumption, SettingsAssumption
   DEF DbTypeOK, Update, ReasonOf, Outcomes, Verdicts, Reasons, Sent, Pending

LEMMA InitType == Init => TypeOK
BY SettingsAssumption, BoundAssumption
   DEF Init, TypeOK, DbTypeOK, BrokerTypeOK, WorkerTypeOK, WorldTypeOK,
       Outcomes, Pending, Unclaimed, Labels, Verdicts

LEMMA TickType ==
  ASSUME DbTypeOK, Tick
  PROVE  DbTypeOK'
<1>. USE SettingsAssumption, BoundAssumption DEF Plus1
<1>1. msgAge' \in [Messages -> 0..MaxAge]
  BY DEF Tick, DbTypeOK
<1>2. rowAge' \in [Deliveries -> 0..MaxAge]
  BY DEF Tick, DbTypeOK
<1>3. claim' \in [Deliveries -> Unclaimed..(Lease + 1)]
  BY DEF Tick, DbTypeOK, Unclaimed
<1>. QED  BY <1>1, <1>2, <1>3 DEF Tick, DbTypeOK

LEMMA ClaimStaleType ==
  ASSUME DbTypeOK, NEW S, ClaimStale(S)
  PROVE  claim' \in [Deliveries -> Unclaimed..(Lease + 1)]
BY SettingsAssumption DEF DbTypeOK, ClaimStale, Unclaimed

LEMMA RecoverType ==
  ASSUME TypeOK, NEW w \in Workers, Recover(w)
  PROVE  TypeOK'
<1>. USE DEF TypeOK, DbTypeOK, WorkerTypeOK
<1>1. PICK S \in SUBSET Stale :
        /\ ClaimStale(S)
        /\ \E x \in S : /\ job' = [job EXCEPT ![w] = x]
                        /\ batch' = [batch EXCEPT ![w] = S \ {x}]
  BY DEF Recover
<1>2. S \subseteq Deliveries
  BY DEF Stale
<1>3. claim' \in [Deliveries -> Unclaimed..(Lease + 1)]
  BY <1>1, ClaimStaleType
<1>4. PICK x \in S : /\ job' = [job EXCEPT ![w] = x]
                     /\ batch' = [batch EXCEPT ![w] = S \ {x}]
  BY <1>1
<1>5. pc' = [pc EXCEPT ![w] = "judge"] /\ UNCHANGED <<last, attempt, verdict, view>>
  BY DEF Recover, Goto
<1>6. WorkerTypeOK'
  BY <1>2, <1>4, <1>5 DEF Labels
<1>. QED  BY <1>3, <1>6 DEF Recover, brokerVars, worldVars, BrokerTypeOK, WorldTypeOK

LEMMA JudgeType ==
  ASSUME TypeOK, NEW w \in Workers, Judge(w)
  PROVE  TypeOK'
<1>. USE DEF TypeOK
<1>1. last'[w] \subseteq {job[w]} \cup batch[w] /\ job[w] \in Deliveries
  BY DEF Judge, WorkerTypeOK
<1>2. WorkerTypeOK'
  BY <1>1 DEF Judge, Goto, WorkerTypeOK, Labels
<1>. QED  BY <1>2 DEF Judge, dbVars, brokerVars, worldVars, DbTypeOK, BrokerTypeOK, WorldTypeOK

LEMMA SendType ==
  ASSUME TypeOK, NEW w \in Workers, Send(w)
  PROVE  TypeOK'
<1>1. job[w] \in Deliveries /\ pc[w] # "idle"
  BY DEF TypeOK, WorkerTypeOK, Send
<1>2. accepted' \in SUBSET Deliveries
  BY <1>1 DEF Send, TypeOK, WorldTypeOK
<1>3. WorkerTypeOK'
  <2>1. CASE \E v \in Verdicts \ {"NONE"} : Decide(w, v)
    BY <2>1, <1>1, DecideType DEF TypeOK
  <2>2. CASE Goto(w, "release") /\ UNCHANGED <<job, batch, last, attempt, verdict, view>>
    BY <2>2, <1>1 DEF TypeOK, WorkerTypeOK, Goto, Labels
  <2>3. \/ \E v \in Verdicts \ {"NONE"} : Decide(w, v)
        \/ Goto(w, "release") /\ UNCHANGED <<job, batch, last, attempt, verdict, view>>
    <3>1. {Sent, "MAX_ATTEMPTS"} \cup Refusals \subseteq Verdicts \ {"NONE"}
      BY BoundAssumption DEF Verdicts, Reasons, Sent
    <3>. QED  BY <3>1 DEF Send
  <2>. QED  BY <2>1, <2>2, <2>3
<1>. QED  BY <1>2, <1>3 DEF Send, TypeOK, dbVars, brokerVars, DbTypeOK, BrokerTypeOK, WorldTypeOK

LEMMA LoadType ==
  ASSUME TypeOK, NEW w \in Workers, Load(w)
  PROVE  TypeOK'
<1>1. job[w] \in Deliveries /\ pc[w] # "idle"
  BY DEF TypeOK, WorkerTypeOK, Load
<1>2. WorkerTypeOK'
  <2>1. CASE \E v \in Verdicts \ {"NONE"} : Decide(w, v)
    BY <2>1, <1>1, DecideType DEF TypeOK
  <2>2. CASE Goto(w, "send") /\ UNCHANGED <<job, batch, last, attempt, verdict, view>>
    BY <2>2, <1>1 DEF TypeOK, WorkerTypeOK, Goto, Labels
  <2>3. \/ \E v \in Verdicts \ {"NONE"} : Decide(w, v)
        \/ Goto(w, "send") /\ UNCHANGED <<job, batch, last, attempt, verdict, view>>
    <3>1. {"GONE", "EXPIRED"} \cup NoSender \subseteq Verdicts \ {"NONE"}
      BY BoundAssumption DEF Verdicts, Reasons, Sent
    <3>. QED  BY <3>1 DEF Load
  <2>. QED  BY <2>1, <2>2, <2>3
<1>. QED  BY <1>2 DEF Load, TypeOK, dbVars, brokerVars, worldVars, DbTypeOK, BrokerTypeOK, WorldTypeOK

LEMMA StampType ==
  ASSUME DbTypeOK, NEW m, Stamp(m)
  PROVE  notified' \in [Deliveries -> BOOLEAN]
BY DEF DbTypeOK, Stamp

LEMMA StepType ==
  ASSUME TypeOK, NEW w \in Workers, Step(w)
  PROVE  TypeOK'
<1>. USE DEF TypeOK
<1>0. CASE Judge(w)
  BY <1>0, JudgeType
<1>1. CASE Load(w)
  BY <1>1, LoadType
<1>2. CASE Send(w)
  BY <1>2, SendType
<1>3. CASE Release(w)
  <2>1. WorkerTypeOK'
    BY <1>3, NextRowType DEF Release, ReturnError
  <2>2. claim' \in [Deliveries -> Unclaimed..(Lease + 1)]
    BY <1>3, SettingsAssumption DEF Release, DbTypeOK, Unclaimed
  <2>. QED  BY <1>3, <2>1, <2>2 DEF Release, DbTypeOK, brokerVars, worldVars, BrokerTypeOK, WorldTypeOK
<1>4. CASE Record(w)
  <2>1. job[w] \in Deliveries /\ verdict[w] \in Verdicts \ {"NONE"} /\ pc[w] # "idle"
    BY <1>4 DEF Record, WorkerTypeOK
  <2>2. DbTypeOK'
    BY <1>4, <2>1, UpdateType DEF Record
  <2>3. WorkerTypeOK'
    <3>1. CASE ReturnNil(w)
      BY <3>1, <2>1, ReturnNilType
    <3>2. CASE /\ Goto(w, "list") /\ verdict' = [verdict EXCEPT ![w] = "NONE"]
               /\ UNCHANGED <<job, batch, last, attempt, view>>
      BY <3>2, <2>1 DEF WorkerTypeOK, Goto, Labels, Verdicts
    <3>. QED  BY <1>4, <3>1, <3>2 DEF Record
  <2>. QED  BY <1>4, <2>2, <2>3 DEF Record, brokerVars, worldVars, BrokerTypeOK, WorldTypeOK
<1>5. CASE List(w)
  <2>1. WorkerTypeOK'
    <3>1. CASE ReturnNil(w)
      BY <1>5, <3>1, ReturnNilType DEF List
    <3>2. CASE /\ view' = [view EXCEPT ![w] = Rows(MessageOf[job[w]])]
               /\ Goto(w, "hook") /\ UNCHANGED <<job, batch, last, attempt, verdict>>
      <4>1. Rows(MessageOf[job[w]]) \subseteq Deliveries \X Outcomes
        BY DEF Rows, Of, DbTypeOK
      <4>. QED  BY <1>5, <3>2, <4>1 DEF List, WorkerTypeOK, Goto, Labels
    <3>. QED  BY <1>5, <3>1, <3>2 DEF List
  <2>. QED  BY <1>5, <2>1 DEF List, dbVars, brokerVars, worldVars, DbTypeOK, BrokerTypeOK, WorldTypeOK
<1>6. CASE Hook(w)
  BY <1>6 DEF Hook, Goto, Labels, dbVars, brokerVars, worldVars, DbTypeOK, BrokerTypeOK, WorkerTypeOK, WorldTypeOK
<1>7. CASE ClaimAnnouncement(w)
  <2>1. WorkerTypeOK'
    <3>1. CASE ReturnNil(w)
      BY <1>7, <3>1, ReturnNilType DEF ClaimAnnouncement
    <3>2. CASE Goto(w, "notify") /\ UNCHANGED <<job, batch, last, attempt, verdict, view>>
      BY <1>7, <3>2 DEF ClaimAnnouncement, WorkerTypeOK, Goto, Labels
    <3>. QED  BY <1>7, <3>1, <3>2 DEF ClaimAnnouncement
  <2>2. notified' \in [Deliveries -> BOOLEAN]
    BY <1>7, StampType DEF ClaimAnnouncement
  <2>. QED
    BY <1>7, <2>1, <2>2 DEF ClaimAnnouncement, DbTypeOK, brokerVars, worldVars, BrokerTypeOK, WorldTypeOK
<1>8. CASE Notify(w)
  <2>1. WorkerTypeOK'
    BY <1>8, ReturnNilType DEF Notify
  <2>2. told' \in [Messages -> Seq(SUBSET (Deliveries \X Outcomes))]
    <3>1. told[MessageOf[job[w]]] \in Seq(SUBSET (Deliveries \X Outcomes))
      BY <1>8, DeliveryAssumption DEF Notify, WorldTypeOK, WorkerTypeOK
    <3>2. Append(told[MessageOf[job[w]]], view[w]) \in Seq(SUBSET (Deliveries \X Outcomes))
      BY <3>1 DEF WorkerTypeOK
    <3>. QED  BY <1>8, <3>2 DEF Notify, WorldTypeOK
  <2>. QED  BY <1>8, <2>1, <2>2 DEF Notify, dbVars, brokerVars, DbTypeOK, BrokerTypeOK, WorldTypeOK
<1>9. CASE Ack(w)
  <2>1. WorkerTypeOK'
    BY <1>9, NextRowType DEF Ack
  <2>2. BrokerTypeOK'
    BY <1>9 DEF Ack, BrokerTypeOK
  <2>. QED  BY <1>9, <2>1, <2>2 DEF Ack, dbVars, worldVars, DbTypeOK, WorldTypeOK
<1>. QED  BY <1>0, <1>1, <1>2, <1>3, <1>4, <1>5, <1>6, <1>7, <1>8, <1>9 DEF Step

LEMMA ReceiveType ==
  ASSUME BrokerTypeOK, NEW w, NEW x \in Deliveries, Receive(w, x),
         queue' = queue \/ queue' = [queue EXCEPT ![x] = "acked"]
  PROVE  BrokerTypeOK'
BY SettingsAssumption DEF BrokerTypeOK, Receive

LEMMA FaultType ==
  ASSUME TypeOK, NEW w \in Workers, Fault(w)
  PROVE  TypeOK'
<1>. USE DEF TypeOK
<1>1. CASE LoadFails(w)
  <2>1. WorkerTypeOK'
    BY <1>1, NextRowType DEF LoadFails, ReturnError
  <2>. QED  BY <1>1, <2>1 DEF LoadFails, Disturb, WorkerTypeOK, dbVars, brokerVars, DbTypeOK, BrokerTypeOK, WorldTypeOK
<1>2. CASE RecordFails(w)
  <2>1. job[w] \in Deliveries /\ verdict[w] \in Verdicts \ {"NONE"}
    BY <1>2 DEF RecordFails, WorkerTypeOK
  <2>2. DbTypeOK'
    BY <1>2, <2>1, UpdateType DEF RecordFails, DbTypeOK
  <2>3. WorkerTypeOK'
    BY <1>2, NextRowType DEF RecordFails, ReturnError
  <2>. QED  BY <1>2, <2>1, <2>2, <2>3 DEF RecordFails, Disturb, brokerVars, BrokerTypeOK, WorldTypeOK
<1>3. CASE AnnounceFails(w)
  <2>1. WorkerTypeOK' /\ job[w] \in Deliveries
    BY <1>3, ReturnNilType DEF AnnounceFails, WorkerTypeOK
  <2>. QED  BY <1>3, <2>1 DEF AnnounceFails, Disturb, dbVars, brokerVars, DbTypeOK, BrokerTypeOK, WorldTypeOK
<1>4. CASE ClaimAnnouncementFails(w)
  <2>1. WorkerTypeOK' /\ job[w] \in Deliveries
    BY <1>4, ReturnNilType DEF ClaimAnnouncementFails, WorkerTypeOK
  <2>2. notified' \in [Deliveries -> BOOLEAN]
    BY <1>4, StampType DEF ClaimAnnouncementFails, DbTypeOK
  <2>. QED  BY <1>4, <2>1, <2>2 DEF ClaimAnnouncementFails, Disturb, DbTypeOK, brokerVars, BrokerTypeOK, WorldTypeOK
<1>5. ASSUME NEW x \in Deliveries, HandleFails(w, x)
      PROVE  TypeOK'
  <2>1. BrokerTypeOK'
    BY <1>5, ReceiveType DEF HandleFails
  <2>. QED  BY <1>5, <2>1 DEF HandleFails, dbVars, workerVars, DbTypeOK, WorkerTypeOK, WorldTypeOK
<1>6. CASE RecoverFails(w)
  <2>1. claim' \in [Deliveries -> Unclaimed..(Lease + 1)]
    BY <1>6, ClaimStaleType DEF RecoverFails
  <2>. QED  BY <1>6, <2>1 DEF RecoverFails, workerVars, brokerVars, worldVars,
               DbTypeOK, BrokerTypeOK, WorkerTypeOK, WorldTypeOK
<1>. QED  BY <1>1, <1>2, <1>3, <1>4, <1>5, <1>6 DEF Fault

LEMMA HandleType ==
  ASSUME TypeOK, NEW w \in Workers, NEW x \in Deliveries, Handle(w, x)
  PROVE  TypeOK'
<1>. USE DEF TypeOK
<1>1. BrokerTypeOK'
  BY ReceiveType DEF Handle
<1>2. WorkerTypeOK'
  <2>1. tries[x] + 1 \in 0..MaxAttempts
    BY SettingsAssumption DEF Handle, Receive, BrokerTypeOK
  <2>. QED  BY <2>1 DEF Handle, Goto, WorkerTypeOK, Labels
<1>. QED  BY <1>1, <1>2 DEF Handle, dbVars, worldVars, DbTypeOK, WorldTypeOK

LEMMA CrashType ==
  ASSUME TypeOK, NEW p \in Processes, Crash(p)
  PROVE  TypeOK'
<1>. USE DEF TypeOK
<1>. DEFINE lost == {w \in Workers : Home[w] = p /\ pc[w] # "idle"}
<1>1. \A w \in lost : job[w] \in Deliveries /\ batch[w] \subseteq Deliveries
  BY DEF WorkerTypeOK
<1>2. disturbed' \in SUBSET Deliveries /\ crashes' \in 0..MaxCrashes
  BY <1>1, BoundAssumption DEF Crash, WorldTypeOK
<1>3. WorkerTypeOK'
  BY SettingsAssumption DEF Crash, WorkerTypeOK, Labels, Verdicts
<1>. QED  BY <1>2, <1>3 DEF Crash, dbVars, brokerVars, DbTypeOK, BrokerTypeOK, WorldTypeOK

LEMMA NextType == TypeOK /\ [Next]_vars => TypeOK'
<1>. SUFFICES ASSUME TypeOK, [Next]_vars PROVE TypeOK'
  OBVIOUS
<1>. USE DEF TypeOK
<1>1. ASSUME NEW m \in Messages, Accept(m) \/ Purge(m) PROVE TypeOK'
  BY <1>1 DEF Accept, Purge, brokerVars, workerVars, worldVars,
              DbTypeOK, BrokerTypeOK, WorkerTypeOK, WorldTypeOK
<1>2. ASSUME NEW x \in Deliveries, Publish(x) PROVE TypeOK'
  BY <1>2 DEF Publish, dbVars, workerVars, worldVars,
              DbTypeOK, BrokerTypeOK, WorkerTypeOK, WorldTypeOK
<1>3. CASE Tick
  BY <1>3, TickType DEF Tick, brokerVars, workerVars, worldVars, BrokerTypeOK, WorkerTypeOK, WorldTypeOK
<1>4. ASSUME NEW w \in Workers, NEW x \in Deliveries, Handle(w, x) PROVE TypeOK'
  BY <1>4, HandleType
<1>5. ASSUME NEW w \in Workers, Recover(w) PROVE TypeOK'
  BY <1>5, RecoverType
<1>6. ASSUME NEW w \in Workers, Step(w) PROVE TypeOK'
  BY <1>6, StepType
<1>7. ASSUME NEW w \in Workers, Fault(w) PROVE TypeOK'
  BY <1>7, FaultType
<1>8. ASSUME NEW p \in Processes, Crash(p) PROVE TypeOK'
  BY <1>8, CrashType
<1>9. CASE UNCHANGED vars
  BY <1>9 DEF vars, dbVars, brokerVars, workerVars, worldVars,
              DbTypeOK, BrokerTypeOK, WorkerTypeOK, WorldTypeOK
<1>. QED  BY <1>1, <1>2, <1>3, <1>4, <1>5, <1>6, <1>7, <1>8, <1>9 DEF Next

\* In every reachable state of the dispatcher, its database and its broker, every
\* variable has its type and every worker at work has a delivery in hand.
THEOREM TypeCorrect == Spec => []TypeOK
BY InitType, NextType, PTL DEF Spec

-----------------------------------------------------------------------------
(* The inductive invariant behind the announcement.                        *)

MsgOf(w) == MessageOf[job[w]]

\* Nobody can claim the announcement of m any more.
Taken(m) == \/ phase[m] = "purged"
            \/ phase[m] = "stored" /\ \A x \in Of(m) : notified[x]

\* The rows a worker read are all the rows of its message, settled.
Complete(w) == /\ AllSettled(MsgOf(w))
               /\ view[w] = {<<x, outcome[x]>> : x \in Of(MsgOf(w))}

\* An event, a claimed row or a delivery in hand is of a message that was stored.
Known ==
  /\ \A x \in Deliveries : queue[x] # "unpublished" => phase[MessageOf[x]] # "new"
  /\ \A w \in Workers : pc[w] # "idle" => phase[MsgOf(w)] # "new"
  /\ \A w \in Workers : \A x \in batch[w] : phase[MessageOf[x]] # "new"

\* Whoever is about to call back holds the one claim, and no call was made yet.
OneHolder ==
  /\ \A w \in Workers : pc[w] = "notify" => Taken(MsgOf(w)) /\ told[MsgOf(w)] = <<>>
  /\ \A w, v \in Workers :
       pc[w] = "notify" /\ pc[v] = "notify" /\ MsgOf(w) = MsgOf(v) => w = v
  /\ \A m \in Messages : told[m] # <<>> => Taken(m) /\ Len(told[m]) = 1

\* What was read stays true: until retention deletes the message for those who
\* have not claimed yet, and for good for the one who has.
ViewsFinal ==
  \A w \in Workers :
    /\ pc[w] \in {"hook", "claim"} /\ phase[MsgOf(w)] = "stored" => Complete(w)
    /\ pc[w] = "notify" => Complete(w)

\* Every callback that was made says what the rows say for good.
AnnouncedFinal ==
  \A m \in Messages : \A i \in DOMAIN told[m] :
    /\ AllSettled(m)
    /\ told[m][i] = {<<x, outcome[x]>> : x \in Of(m)}

IInv == TypeOK /\ Known /\ OneHolder /\ ViewsFinal /\ AnnouncedFinal

-----------------------------------------------------------------------------
(* What every step does to the rows and to the workers: three facts that   *)
(* the invariants need, established action by action.                      *)

\* Messages are stored once and deleted once; an outcome, once written, and a
\* stamp stay.
RowsMonotone ==
  /\ \A m \in Messages : phase'[m] # phase[m] =>
       \/ phase[m] = "new" /\ phase'[m] = "stored"
       \/ phase[m] = "stored" /\ phase'[m] = "purged"
  /\ \A x \in Deliveries : outcome[x] # Pending => outcome'[x] = outcome[x]
  /\ \A x \in Deliveries : notified[x] => notified'[x]

LEMMA SettledIsNotPending ==
  \A x \in Deliveries : TypeOK => (IsSettled(outcome[x]) <=> outcome[x] # Pending)
BY DEF TypeOK, DbTypeOK, IsSettled, Outcomes, Sent, Pending, Reasons

LEMMA UpdateMonotone ==
  ASSUME TypeOK, NEW x \in Deliveries, NEW v, Update(x, v)
  PROVE  \A y \in Deliveries : outcome[y] # Pending => outcome'[y] = outcome[y]
BY DEF TypeOK, DbTypeOK, Update

LEMMA StampMonotone ==
  ASSUME NEW m, Stamp(m)
  PROVE  \A y \in Deliveries : notified[y] => notified'[y]
BY DEF Stamp

LEMMA Monotone ==
  ASSUME TypeOK, [Next]_vars
  PROVE  RowsMonotone
<1>1. CASE UNCHANGED dbVars
  BY <1>1 DEF RowsMonotone, dbVars
<1>2. ASSUME NEW m \in Messages, Accept(m) \/ Purge(m) PROVE RowsMonotone
  BY <1>2 DEF RowsMonotone, Accept, Purge, TypeOK, DbTypeOK
<1>3. CASE Tick
  BY <1>3 DEF RowsMonotone, Tick
<1>4. ASSUME NEW w \in Workers, Recover(w) \/ RecoverFails(w) \/ Release(w) PROVE RowsMonotone
  BY <1>4 DEF RowsMonotone, Recover, RecoverFails, Release
<1>5. ASSUME NEW w \in Workers, Record(w) \/ RecordFails(w) PROVE RowsMonotone
  <2>1. job[w] \in Deliveries
    BY <1>5 DEF Record, RecordFails, TypeOK, WorkerTypeOK
  <2>. QED  BY <1>5, <2>1, UpdateMonotone DEF RowsMonotone, Record, RecordFails
<1>6. ASSUME NEW w \in Workers, ClaimAnnouncement(w) \/ ClaimAnnouncementFails(w)
      PROVE  RowsMonotone
  BY <1>6, StampMonotone DEF RowsMonotone, ClaimAnnouncement, ClaimAnnouncementFails
<1>. QED
  BY <1>1, <1>2, <1>3, <1>4, <1>5, <1>6
     DEF Next, Step, Fault, vars, Publish, Handle, HandleFails, Judge, Load, LoadFails, Send,
         List, Hook, AnnounceFails, Notify, Ack, Crash

LEMMA TakenStable ==
  ASSUME RowsMonotone, TypeOK, NEW m \in Messages, Taken(m)
  PROVE  Taken(m)'
BY DEF RowsMonotone, Taken, Of

LEMMA SettledStable ==
  ASSUME RowsMonotone, TypeOK, TypeOK', NEW m \in Messages, AllSettled(m)
  PROVE  /\ AllSettled(m)'
         /\ \A x \in Of(m) : outcome'[x] = outcome[x]
BY DEF RowsMonotone, AllSettled, IsSettled, Of, Pending, Sent, Reasons

-----------------------------------------------------------------------------
(* What every step does to the workers that have read the rows.            *)

Late == {"hook", "claim", "notify"}

\* v is not between its reading of the rows and its callback, or stays where it is.
Quiet(v) == \/ pc'[v] \notin Late
            \/ pc'[v] = pc[v] /\ job'[v] = job[v] /\ view'[v] = view[v]

LEMMA NextRowQuiet ==
  ASSUME TypeOK, NEW w \in Workers, NextRow(w)
  PROVE  \A v \in Workers : Quiet(v)
BY DEF TypeOK, WorkerTypeOK, NextRow, Goto, Quiet, Late

LEMMA ReturnNilQuiet ==
  ASSUME TypeOK, NEW w \in Workers, ReturnNil(w)
  PROVE  \A v \in Workers : Quiet(v)
<1>1. CASE NextRow(w)
  BY <1>1, NextRowQuiet
<1>2. CASE Goto(w, "ack") /\ view' = [view EXCEPT ![w] = {}] /\ UNCHANGED job
  BY <1>2 DEF TypeOK, WorkerTypeOK, Goto, Quiet, Late
<1>. QED  BY <1>1, <1>2 DEF ReturnNil

LEMMA GotoQuiet ==
  ASSUME TypeOK, NEW w \in Workers, NEW l, l \notin Late, Goto(w, l), UNCHANGED <<job, view>>
  PROVE  \A v \in Workers : Quiet(v)
BY DEF TypeOK, WorkerTypeOK, Goto, Quiet

LEMMA QuietSteps ==
  ASSUME TypeOK, [Next]_vars,
         \A w \in Workers : ~List(w) /\ ~Hook(w) /\ ~ClaimAnnouncement(w)
  PROVE  \A v \in Workers : Quiet(v)
<1>1. CASE UNCHANGED <<pc, job, view>>
  BY <1>1 DEF Quiet
<1>2. ASSUME NEW w \in Workers, NextRow(w) \/ ReturnNil(w) PROVE \A v \in Workers : Quiet(v)
  BY <1>2, NextRowQuiet, ReturnNilQuiet
<1>3. ASSUME NEW w \in Workers, NEW l \in {"load", "send", "release", "record", "list"},
             Goto(w, l), UNCHANGED <<job, view>>
      PROVE  \A v \in Workers : Quiet(v)
  BY <1>3, GotoQuiet DEF Late
<1>4. ASSUME NEW w \in Workers, NEW x \in Deliveries, Handle(w, x)
      PROVE  \A v \in Workers : Quiet(v)
  BY <1>4 DEF Handle, TypeOK, WorkerTypeOK, Goto, Quiet, Late
<1>5. ASSUME NEW w \in Workers, Recover(w) PROVE \A v \in Workers : Quiet(v)
  BY <1>5 DEF Recover, TypeOK, WorkerTypeOK, Goto, Quiet, Late
<1>6. ASSUME NEW p \in Processes, Crash(p) PROVE \A v \in Workers : Quiet(v)
  BY <1>6 DEF Crash, TypeOK, WorkerTypeOK, Quiet, Late
<1>7. ASSUME NEW w \in Workers, Judge(w) \/ Load(w) \/ Send(w) PROVE \A v \in Workers : Quiet(v)
  <2>1. \E l \in {"load", "send", "release", "record"} : Goto(w, l) /\ UNCHANGED <<job, view>>
    BY <1>7 DEF Judge, Load, Send, Decide
  <2>. QED  BY <2>1, <1>3
<1>8. ASSUME NEW w \in Workers, Record(w) PROVE \A v \in Workers : Quiet(v)
  BY <1>2, <1>3, <1>8 DEF Record
<1>9. ASSUME NEW w \in Workers, Release(w) \/ Notify(w) \/ Ack(w) PROVE \A v \in Workers : Quiet(v)
  BY <1>2, <1>9 DEF Release, Notify, Ack, ReturnError
<1>10. ASSUME NEW w \in Workers, Fault(w) PROVE \A v \in Workers : Quiet(v)
  BY <1>1, <1>2, <1>10 DEF Fault, RecoverFails, LoadFails, RecordFails, AnnounceFails,
                           ClaimAnnouncementFails, HandleFails, ReturnError, workerVars
<1>. QED
  BY <1>1, <1>4, <1>5, <1>6, <1>7, <1>8, <1>9, <1>10
     DEF Next, Step, vars, workerVars, Accept, Purge, Publish, Tick

\* Callbacks are made by Notify.
LEMMA ToldOnlyByNotify ==
  ASSUME [Next]_vars, \A w \in Workers : ~Notify(w)
  PROVE  told' = told
<1>1. ASSUME NEW w \in Workers, Step(w) PROVE told' = told
  BY <1>1 DEF Step, Judge, Load, Send, Release, Record, List, Hook, ClaimAnnouncement, Ack, worldVars
<1>2. ASSUME NEW w \in Workers, Fault(w) PROVE told' = told
  BY <1>2 DEF Fault, RecoverFails, LoadFails, RecordFails, AnnounceFails, ClaimAnnouncementFails, HandleFails, worldVars
<1>. QED
  BY <1>1, <1>2 DEF Next, vars, worldVars, Accept, Purge, Publish, Tick, Handle, Recover, Crash

\* Outcomes are written by Record, whether it learns of it or not.
LEMMA OutcomeOnlyByRecord ==
  ASSUME [Next]_vars, \A w \in Workers : ~Record(w) /\ ~RecordFails(w)
  PROVE  outcome' = outcome
<1>1. ASSUME NEW w \in Workers, Step(w) PROVE outcome' = outcome
  BY <1>1 DEF Step, Judge, Load, Send, Release, List, Hook, ClaimAnnouncement, Notify, Ack, dbVars
<1>2. ASSUME NEW w \in Workers, Fault(w) PROVE outcome' = outcome
  BY <1>2 DEF Fault, RecoverFails, LoadFails, AnnounceFails, ClaimAnnouncementFails, HandleFails, dbVars
<1>. QED
  BY <1>1, <1>2 DEF Next, vars, dbVars, Accept, Purge, Publish, Tick, Handle, Recover, Crash

\* The stream changes by a publication, an acknowledgement and a termination.
LEMMA QueueOnlyByBroker ==
  ASSUME [Next]_vars, \A x \in Deliveries : ~Publish(x), \A w \in Workers : ~Ack(w),
         \A w \in Workers, x \in Deliveries : ~HandleFails(w, x)
  PROVE  queue' = queue
<1>1. ASSUME NEW w \in Workers, Step(w) PROVE queue' = queue
  BY <1>1 DEF Step, Judge, Load, Send, Release, Record, List, Hook, ClaimAnnouncement, Notify, brokerVars
<1>2. ASSUME NEW w \in Workers, Fault(w) PROVE queue' = queue
  BY <1>2 DEF Fault, RecoverFails, LoadFails, RecordFails, AnnounceFails, ClaimAnnouncementFails, brokerVars
<1>. QED
  BY <1>1, <1>2 DEF Next, vars, brokerVars, Accept, Purge, Tick, Handle, Recover, Crash

\* The broker counts an attempt when it makes one.
LEMMA TriesOnlyByHandle ==
  ASSUME [Next]_vars, \A w \in Workers, x \in Deliveries : ~Handle(w, x) /\ ~HandleFails(w, x)
  PROVE  tries' = tries
<1>1. ASSUME NEW w \in Workers, Step(w) PROVE tries' = tries
  BY <1>1 DEF Step, Judge, Load, Send, Release, Record, List, Hook, ClaimAnnouncement, Notify, Ack, brokerVars
<1>2. ASSUME NEW w \in Workers, Fault(w) PROVE tries' = tries
  BY <1>2 DEF Fault, RecoverFails, LoadFails, RecordFails, AnnounceFails, ClaimAnnouncementFails, brokerVars
<1>. QED
  BY <1>1, <1>2 DEF Next, vars, brokerVars, Accept, Purge, Publish, Tick, Recover, Crash

\* Messages age as time passes.
LEMMA MsgAgeOnlyByTick ==
  ASSUME [Next]_vars, ~Tick
  PROVE  msgAge' = msgAge
<1>1. ASSUME NEW w \in Workers, Step(w) PROVE msgAge' = msgAge
  BY <1>1 DEF Step, Judge, Load, Send, Release, Record, List, Hook, ClaimAnnouncement, Notify, Ack, dbVars
<1>2. ASSUME NEW w \in Workers, Fault(w) PROVE msgAge' = msgAge
  BY <1>2 DEF Fault, RecoverFails, LoadFails, RecordFails, AnnounceFails, ClaimAnnouncementFails, HandleFails, dbVars
<1>. QED
  BY <1>1, <1>2 DEF Next, vars, dbVars, Accept, Purge, Publish, Handle, Recover, Crash

\* An announcement is stamped by its claim, whether the claimer learns of it or not.
LEMMA NotifiedOnlyByClaim ==
  ASSUME [Next]_vars,
         \A w \in Workers : ~ClaimAnnouncement(w) /\ ~ClaimAnnouncementFails(w)
  PROVE  notified' = notified
<1>1. ASSUME NEW w \in Workers, Step(w) PROVE notified' = notified
  BY <1>1 DEF Step, Judge, Load, Send, Release, Record, List, Hook, Notify, Ack, dbVars
<1>2. ASSUME NEW w \in Workers, Fault(w) PROVE notified' = notified
  BY <1>2 DEF Fault, RecoverFails, LoadFails, RecordFails, AnnounceFails, HandleFails, dbVars
<1>. QED
  BY <1>1, <1>2 DEF Next, vars, dbVars, Accept, Purge, Publish, Tick, Handle, Recover, Crash

-----------------------------------------------------------------------------
(* The parts of the inductive invariant, one after the other.              *)

\* The deliveries a worker has in hand after a step are ones it had before, or
\* ones whose message is stored.
Inherits(v) ==
  /\ pc'[v] # "idle" => \/ pc[v] # "idle" /\ job'[v] = job[v]
                        \/ job'[v] \in batch[v]
                        \/ job'[v] \in Deliveries /\ phase[MessageOf[job'[v]]] # "new"
  /\ \A x \in batch'[v] : x \in batch[v] \/ phase[MessageOf[x]] # "new"

LEMMA NextRowInherits ==
  ASSUME TypeOK, NEW w \in Workers, NextRow(w)
  PROVE  \A v \in Workers : Inherits(v)
BY DEF TypeOK, WorkerTypeOK, NextRow, Goto, Inherits

LEMMA ReturnNilInherits ==
  ASSUME TypeOK, NEW w \in Workers, pc[w] # "idle", ReturnNil(w)
  PROVE  \A v \in Workers : Inherits(v)
<1>1. CASE NextRow(w)
  BY <1>1, NextRowInherits
<1>2. CASE Goto(w, "ack") /\ UNCHANGED <<job, batch>>
  BY <1>2 DEF TypeOK, WorkerTypeOK, Goto, Inherits
<1>. QED  BY <1>1, <1>2 DEF ReturnNil

LEMMA WorkersInherit ==
  ASSUME TypeOK, Known, [Next]_vars
  PROVE  \A v \in Workers : Inherits(v)
<1>1. CASE UNCHANGED <<pc, job, batch>>
  BY <1>1 DEF Inherits
<1>2. ASSUME NEW w \in Workers, NextRow(w) \/ (pc[w] # "idle" /\ ReturnNil(w))
      PROVE  \A v \in Workers : Inherits(v)
  BY <1>2, NextRowInherits, ReturnNilInherits
<1>3. ASSUME NEW w \in Workers, NEW l, pc[w] # "idle", Goto(w, l), UNCHANGED <<job, batch>>
      PROVE  \A v \in Workers : Inherits(v)
  BY <1>3 DEF Goto, TypeOK, WorkerTypeOK, Inherits
<1>4. ASSUME NEW w \in Workers, NEW x \in Deliveries, Handle(w, x)
      PROVE  \A v \in Workers : Inherits(v)
  <2>1. phase[MessageOf[x]] # "new"
    BY <1>4 DEF Handle, Receive, Known
  <2>. QED  BY <1>4, <2>1 DEF Handle, TypeOK, WorkerTypeOK, Goto, Inherits
<1>5. ASSUME NEW w \in Workers, Recover(w) PROVE \A v \in Workers : Inherits(v)
  <2>1. \A x \in Stale : x \in Deliveries /\ phase[MessageOf[x]] # "new"
    BY DEF Stale, Exists
  <2>2. PICK x \in Stale, T \in SUBSET Stale :
          job' = [job EXCEPT ![w] = x] /\ batch' = [batch EXCEPT ![w] = T]
    BY <1>5 DEF Recover
  <2>. QED  BY <1>5, <2>1, <2>2 DEF Recover, TypeOK, WorkerTypeOK, Goto, Inherits
<1>6. ASSUME NEW p \in Processes, Crash(p) PROVE \A v \in Workers : Inherits(v)
  BY <1>6 DEF Crash, TypeOK, WorkerTypeOK, Inherits
<1>7. ASSUME NEW w \in Workers, Judge(w) \/ Load(w) \/ Send(w) PROVE \A v \in Workers : Inherits(v)
  <2>1. \E l \in {"load", "send", "release", "record"} : Goto(w, l) /\ UNCHANGED <<job, batch>>
    BY <1>7 DEF Judge, Load, Send, Decide
  <2>. QED  BY <1>3, <1>7, <2>1 DEF Judge, Load, Send
<1>8. ASSUME NEW w \in Workers, Record(w) \/ List(w) \/ Hook(w) \/ ClaimAnnouncement(w)
      PROVE  \A v \in Workers : Inherits(v)
  <2>1. /\ pc[w] # "idle"
        /\ \/ ReturnNil(w)
           \/ \E l \in {"list", "hook", "claim", "notify"} : Goto(w, l) /\ UNCHANGED <<job, batch>>
    BY <1>8 DEF Record, List, Hook, ClaimAnnouncement
  <2>. QED  BY <1>2, <1>3, <2>1
<1>9. ASSUME NEW w \in Workers, Release(w) \/ Notify(w) \/ Ack(w)
      PROVE  \A v \in Workers : Inherits(v)
  BY <1>2, <1>9 DEF Release, Notify, Ack, ReturnError
<1>10. ASSUME NEW w \in Workers, Fault(w) PROVE \A v \in Workers : Inherits(v)
  BY <1>1, <1>2, <1>10 DEF Fault, RecoverFails, LoadFails, RecordFails, AnnounceFails,
                           ClaimAnnouncementFails, HandleFails, ReturnError, workerVars
<1>. QED
  BY <1>1, <1>4, <1>5, <1>6, <1>7, <1>8, <1>9, <1>10
     DEF Next, Step, vars, workerVars, Accept, Purge, Publish, Tick

LEMMA PublishedIsStored ==
  ASSUME TypeOK, Known, RowsMonotone, [Next]_vars
  PROVE  \A x \in Deliveries : queue'[x] # "unpublished" => phase[MessageOf[x]] # "new"
<1>1. CASE UNCHANGED queue
  BY <1>1 DEF Known
<1>2. ASSUME NEW x \in Deliveries, Publish(x)
      PROVE  \A y \in Deliveries : queue'[y] # "unpublished" => phase[MessageOf[y]] # "new"
  BY <1>2 DEF Publish, Known, TypeOK, BrokerTypeOK
<1>3. ASSUME NEW w \in Workers, Ack(w)
      PROVE  \A y \in Deliveries : queue'[y] # "unpublished" => phase[MessageOf[y]] # "new"
  BY <1>3 DEF Ack, Known, MsgOf, TypeOK, BrokerTypeOK, WorkerTypeOK
<1>4. ASSUME NEW w \in Workers, NEW x \in Deliveries, HandleFails(w, x)
      PROVE  \A y \in Deliveries : queue'[y] # "unpublished" => phase[MessageOf[y]] # "new"
  BY <1>4 DEF HandleFails, Receive, Known, TypeOK, BrokerTypeOK
<1>. QED
  BY <1>1, <1>2, <1>3, <1>4, QueueOnlyByBroker

LEMMA KnownInductive ==
  ASSUME TypeOK, TypeOK', Known, RowsMonotone, [Next]_vars
  PROVE  Known'
<1>1. \A m \in Messages : phase[m] # "new" => phase'[m] # "new"
  BY DEF RowsMonotone
<1>2. \A x \in Deliveries : MessageOf[x] \in Messages
  BY DeliveryAssumption
<1>3. \A x \in Deliveries : queue'[x] # "unpublished" => phase'[MessageOf[x]] # "new"
  BY <1>1, <1>2, PublishedIsStored
<1>4. ASSUME NEW v \in Workers
      PROVE  /\ pc'[v] # "idle" => phase'[MessageOf[job'[v]]] # "new"
             /\ \A x \in batch'[v] : phase'[MessageOf[x]] # "new"
  <2>1. Inherits(v)
    BY WorkersInherit
  <2>2. /\ batch[v] \subseteq Deliveries
        /\ batch'[v] \subseteq Deliveries
        /\ pc'[v] # "idle" => job'[v] \in Deliveries
    BY DEF TypeOK, WorkerTypeOK
  <2>. QED  BY <1>1, <1>2, <2>1, <2>2 DEF Inherits, Known, MsgOf
<1>. QED  BY <1>3, <1>4 DEF Known, MsgOf

LEMMA InHand ==
  ASSUME TypeOK, NEW w \in Workers, pc[w] # "idle"
  PROVE  job[w] \in Deliveries /\ MsgOf(w) \in Messages
BY DeliveryAssumption DEF TypeOK, WorkerTypeOK, MsgOf

\* No callback is made and nobody comes to hold the announcement.
LEMMA OneHolderFrame ==
  ASSUME TypeOK, TypeOK', OneHolder, RowsMonotone, told' = told,
         \A v \in Workers : pc'[v] = "notify" => pc[v] = "notify" /\ job'[v] = job[v]
  PROVE  OneHolder'
<1>1. \A m \in Messages : Taken(m) => Taken(m)'
  BY TakenStable
<1>2. \A v \in Workers : pc[v] = "notify" => MsgOf(v) \in Messages
  BY InHand
<1>. QED  BY <1>1, <1>2 DEF OneHolder, MsgOf

LEMMA OneHolderInductive ==
  ASSUME IInv, TypeOK', RowsMonotone, [Next]_vars
  PROVE  OneHolder'
<1>. USE DEF IInv
<1>1. ASSUME NEW w \in Workers, ClaimAnnouncement(w) PROVE OneHolder'
  <2>1. pc[w] # "idle" /\ pc[w] # "notify" /\ job[w] \in Deliveries /\ MsgOf(w) \in Messages
    BY <1>1, InHand DEF ClaimAnnouncement
  <2>2. told' = told
    BY <1>1 DEF ClaimAnnouncement, worldVars
  <2>3. CASE ReturnNil(w)
    <3>1. \A v \in Workers : Quiet(v)
      BY <2>3, ReturnNilQuiet
    <3>. QED  BY <3>1, <2>2, OneHolderFrame DEF Quiet, Late
  <2>4. CASE Mine(MsgOf(w)) /\ Goto(w, "notify") /\ UNCHANGED <<job, view>>
    <3>1. phase[MsgOf(w)] = "stored" /\ ~Taken(MsgOf(w))
      BY <2>4 DEF Mine, Unannounced, Of, Exists, Taken
    <3>2. told[MsgOf(w)] = <<>> /\ \A v \in Workers : pc[v] = "notify" => MsgOf(v) # MsgOf(w)
      BY <2>1, <3>1 DEF OneHolder
    <3>3. Taken(MsgOf(w))'
      <4>1. Stamp(MsgOf(w)) /\ phase' = phase /\ job' = job
        BY <1>1, <2>4 DEF ClaimAnnouncement, MsgOf
      <4>2. \A x \in Of(MsgOf(w)) : notified'[x]
        BY <3>1, <4>1 DEF Stamp, Unannounced, Of, Exists
      <4>. QED  BY <3>1, <4>1, <4>2 DEF Taken, Of, MsgOf
    <3>4. \A m \in Messages : Taken(m) => Taken(m)'
      BY TakenStable
    <3>5. \A v \in Workers : v # w => (pc'[v] = "notify" => pc[v] = "notify")
      BY <2>4 DEF Goto, TypeOK, WorkerTypeOK
    <3>6. \A v \in Workers : pc[v] = "notify" => MsgOf(v) \in Messages
      BY InHand
    <3>7. job' = job
      BY <2>4
    <3>. QED  BY <2>1, <2>2, <3>2, <3>3, <3>4, <3>5, <3>6, <3>7 DEF OneHolder, MsgOf
  <2>. QED  BY <1>1, <2>3, <2>4 DEF ClaimAnnouncement, MsgOf
<1>2. ASSUME NEW w \in Workers, Notify(w) PROVE OneHolder'
  <2>1. pc[w] = "notify" /\ MsgOf(w) \in Messages
    BY <1>2, InHand DEF Notify
  <2>2. told[MsgOf(w)] = <<>> /\ Taken(MsgOf(w))
    BY <2>1 DEF OneHolder
  <2>3. told' = [told EXCEPT ![MsgOf(w)] = <<view[w]>>]
    BY <1>2, <2>2 DEF Notify, MsgOf
  <2>4. \A v \in Workers : Quiet(v)
    BY <1>2, ReturnNilQuiet DEF Notify
  <2>5. pc'[w] # "notify"
    BY <1>2 DEF Notify, ReturnNil, NextRow, Goto, TypeOK, WorkerTypeOK
  <2>6. \A v \in Workers : pc'[v] = "notify" =>
          pc[v] = "notify" /\ job'[v] = job[v] /\ MsgOf(v) # MsgOf(w)
    BY <2>1, <2>4, <2>5 DEF Quiet, Late, OneHolder
  <2>7. \A m \in Messages : Taken(m) => Taken(m)'
    BY TakenStable
  <2>8. \A m \in Messages : told'[m] = IF m = MsgOf(w) THEN <<view[w]>> ELSE told[m]
    BY <2>3, <2>1 DEF TypeOK, WorldTypeOK
  <2>9. \A v \in Workers : pc[v] = "notify" => MsgOf(v) \in Messages
    BY InHand
  <2>10. Len(<<view[w]>>) = 1
    OBVIOUS
  <2>11. \A v \in Workers : pc'[v] = "notify" => MsgOf(v)' = MsgOf(v)
    BY <2>6 DEF MsgOf
  <2>12. \A v \in Workers : pc'[v] = "notify" => Taken(MsgOf(v))' /\ (told[MsgOf(v)] = <<>>)'
    BY <2>6, <2>7, <2>8, <2>9, <2>11 DEF OneHolder
  <2>13. \A v, u \in Workers : pc'[v] = "notify" /\ pc'[u] = "notify" /\ MsgOf(v)' = MsgOf(u)' => v = u
    BY <2>6, <2>11 DEF OneHolder
  <2>14. \A m \in Messages : told'[m] # <<>> => Taken(m)' /\ Len(told'[m]) = 1
    BY <2>2, <2>7, <2>8, <2>10 DEF OneHolder
  <2>. QED  BY <2>12, <2>13, <2>14 DEF OneHolder
<1>3. ASSUME NEW w \in Workers, List(w) \/ Hook(w) PROVE OneHolder'
  <2>1. told' = told
    BY <1>3 DEF List, Hook, worldVars
  <2>2. \A v \in Workers : pc'[v] = "notify" => pc[v] = "notify" /\ job'[v] = job[v]
    <3>1. CASE ReturnNil(w)
      BY <3>1, ReturnNilQuiet DEF Quiet, Late
    <3>2. CASE (Goto(w, "hook") \/ Goto(w, "claim")) /\ UNCHANGED job
      BY <3>2 DEF Goto, TypeOK, WorkerTypeOK
    <3>. QED  BY <1>3, <3>1, <3>2 DEF List, Hook
  <2>. QED  BY <2>1, <2>2, OneHolderFrame
<1>4. CASE \A w \in Workers : ~List(w) /\ ~Hook(w) /\ ~ClaimAnnouncement(w) /\ ~Notify(w)
  <2>1. told' = told
    BY <1>4, ToldOnlyByNotify
  <2>2. \A v \in Workers : Quiet(v)
    BY <1>4, QuietSteps
  <2>. QED  BY <2>1, <2>2, OneHolderFrame DEF Quiet, Late
<1>. QED  BY <1>1, <1>2, <1>3, <1>4

LEMMA CompleteStable ==
  ASSUME TypeOK, TypeOK', RowsMonotone, NEW v \in Workers, MsgOf(v) \in Messages,
         Complete(v), job'[v] = job[v], view'[v] = view[v]
  PROVE  Complete(v)'
<1>1. AllSettled(MsgOf(v))' /\ \A x \in Of(MsgOf(v)) : outcome'[x] = outcome[x]
  <2>1. MsgOf(v)' = MsgOf(v)
    BY DEF MsgOf
  <2>. QED  BY <2>1, SettledStable DEF Complete, AllSettled
<1>. QED  BY <1>1 DEF Complete, MsgOf, Of

LEMMA ViewsFinalInductive ==
  ASSUME IInv, TypeOK', RowsMonotone, [Next]_vars
  PROVE  ViewsFinal'
<1>. USE DEF IInv
<1>. SUFFICES ASSUME NEW v \in Workers, pc'[v] \in Late,
                     pc'[v] = "notify" \/ phase'[MsgOf(v)'] = "stored"
              PROVE  Complete(v)'
  BY DEF ViewsFinal, Late
<1>1. CASE Quiet(v)
  <2>1. pc'[v] = pc[v] /\ job'[v] = job[v] /\ view'[v] = view[v] /\ MsgOf(v)' = MsgOf(v)
    BY <1>1 DEF Quiet, MsgOf
  <2>2. MsgOf(v) \in Messages /\ phase[MsgOf(v)] # "new"
    BY <2>1, InHand DEF Known, Late
  <2>3. pc[v] = "notify" \/ phase[MsgOf(v)] = "stored"
    BY <2>1, <2>2 DEF RowsMonotone, TypeOK, DbTypeOK
  <2>4. Complete(v)
    BY <2>1, <2>3 DEF ViewsFinal, Late
  <2>. QED  BY <2>1, <2>2, <2>4, CompleteStable
<1>2. ASSUME NEW w \in Workers, Hook(w), ~Quiet(v) PROVE Complete(v)'
  <2>1. v = w /\ pc[v] = "hook" /\ job' = job /\ view' = view /\ phase' = phase /\ pc'[v] = "claim"
    BY <1>2 DEF Hook, Quiet, Goto, TypeOK, WorkerTypeOK, dbVars
  <2>2. MsgOf(v) \in Messages /\ MsgOf(v)' = MsgOf(v)
    BY <2>1, InHand DEF MsgOf
  <2>3. Complete(v)
    BY <2>1, <2>2 DEF ViewsFinal
  <2>. QED  BY <2>1, <2>2, <2>3, CompleteStable
<1>3. ASSUME NEW w \in Workers, ClaimAnnouncement(w), ~Quiet(v) PROVE Complete(v)'
  <2>1. ~ReturnNil(w)
    BY <1>3, ReturnNilQuiet
  <2>2. /\ v = w /\ pc[v] = "claim" /\ job' = job /\ view' = view /\ phase' = phase
        /\ Mine(MsgOf(v))
    BY <1>3, <2>1 DEF ClaimAnnouncement, Quiet, Goto, TypeOK, WorkerTypeOK, MsgOf
  <2>3. phase[MsgOf(v)] = "stored"
    BY <2>2 DEF Mine, Unannounced, Of, Exists
  <2>4. MsgOf(v) \in Messages
    BY <2>2, InHand
  <2>5. Complete(v)
    BY <2>2, <2>3 DEF ViewsFinal
  <2>. QED  BY <2>2, <2>4, <2>5, CompleteStable
<1>4. ASSUME NEW w \in Workers, List(w), ~Quiet(v) PROVE Complete(v)'
  <2>1. ~ReturnNil(w)
    BY <1>4, ReturnNilQuiet
  <2>2. /\ v = w /\ pc[v] = "list" /\ pc'[v] = "hook" /\ job' = job
        /\ view'[v] = Rows(MsgOf(v)) /\ \A r \in Rows(MsgOf(v)) : IsSettled(r[2])
        /\ phase' = phase /\ outcome' = outcome
    BY <1>4, <2>1 DEF List, Quiet, Goto, TypeOK, WorkerTypeOK, MsgOf, dbVars
  <2>3. phase[MsgOf(v)] = "stored"
    BY <2>2 DEF MsgOf
  <2>4. Rows(MsgOf(v)) = {<<x, outcome[x]>> : x \in Of(MsgOf(v))}
    BY <2>3 DEF Rows, Of, Exists
  <2>5. AllSettled(MsgOf(v))
    <3>. SUFFICES ASSUME NEW x \in Of(MsgOf(v)) PROVE IsSettled(outcome[x])
      BY DEF AllSettled
    <3>1. <<x, outcome[x]>> \in Rows(MsgOf(v))
      BY <2>4
    <3>. QED  BY <2>2, <3>1
  <2>. QED  BY <2>2, <2>4, <2>5 DEF Complete, AllSettled, MsgOf, Of, IsSettled
<1>. QED  BY <1>1, <1>2, <1>3, <1>4, QuietSteps

LEMMA AnnouncedFinalInductive ==
  ASSUME IInv, TypeOK', RowsMonotone, [Next]_vars
  PROVE  AnnouncedFinal'
<1>. USE DEF IInv
<1>1. ASSUME NEW m \in Messages, AllSettled(m), NEW t,
             t = {<<x, outcome[x]>> : x \in Of(m)}
      PROVE  AllSettled(m)' /\ t = {<<x, outcome[x]>> : x \in Of(m)}'
  BY <1>1, SettledStable DEF Of
<1>2. ASSUME NEW m \in Messages, told'[m] = told[m]
      PROVE  \A i \in DOMAIN told'[m] : AllSettled(m)' /\ told'[m][i] = {<<x, outcome[x]>> : x \in Of(m)}'
  BY <1>1, <1>2 DEF AnnouncedFinal
<1>3. CASE \A w \in Workers : ~Notify(w)
  BY <1>2, <1>3, ToldOnlyByNotify DEF AnnouncedFinal
<1>4. ASSUME NEW w \in Workers, Notify(w) PROVE AnnouncedFinal'
  <2>1. pc[w] = "notify" /\ MsgOf(w) \in Messages /\ Complete(w) /\ told[MsgOf(w)] = <<>>
    BY <1>4, InHand DEF Notify, ViewsFinal, OneHolder
  <2>2. told' = [told EXCEPT ![MsgOf(w)] = <<view[w]>>]
    BY <1>4, <2>1 DEF Notify, MsgOf
  <2>3. \A m \in Messages : m # MsgOf(w) => told'[m] = told[m]
    BY <2>2 DEF TypeOK, WorldTypeOK
  <2>4. told'[MsgOf(w)] = <<view[w]>>
    BY <2>1, <2>2 DEF TypeOK, WorldTypeOK
  <2>5. view[w] = {<<x, outcome[x]>> : x \in Of(MsgOf(w))} /\ outcome' = outcome
    BY <1>4, <2>1 DEF Complete, Notify, dbVars
  <2>6. ASSUME NEW m \in Messages, NEW i \in DOMAIN told'[m]
        PROVE  AllSettled(m)' /\ told'[m][i] = {<<x, outcome[x]>> : x \in Of(m)}'
    <3>1. CASE m # MsgOf(w)
      BY <1>2, <2>3, <2>6, <3>1
    <3>2. CASE m = MsgOf(w)
      <4>1. told'[m][i] = view[w]
        BY <2>4, <2>6, <3>2
      <4>2. AllSettled(m)
        BY <2>1, <3>2 DEF Complete
      <4>. QED  BY <1>1, <2>5, <3>2, <4>1, <4>2
    <3>. QED  BY <3>1, <3>2
  <2>. QED  BY <2>6 DEF AnnouncedFinal
<1>. QED  BY <1>3, <1>4

LEMMA InitInv == Init => IInv
BY InitType, DeliveryAssumption
   DEF Init, IInv, Known, OneHolder, ViewsFinal, AnnouncedFinal

LEMMA NextInv == IInv /\ [Next]_vars => IInv'
<1>. SUFFICES ASSUME IInv, [Next]_vars PROVE IInv'
  OBVIOUS
<1>1. TypeOK'
  BY NextType DEF IInv
<1>2. RowsMonotone
  BY Monotone DEF IInv
<1>. QED
  BY <1>1, <1>2, KnownInductive, OneHolderInductive, ViewsFinalInductive,
     AnnouncedFinalInductive DEF IInv

LEMMA Inductive == Spec => []IInv
BY InitInv, NextInv, PTL DEF Spec

\* Whatever the number of workers that settle the last deliveries together, are
\* retried or crash, the source of a message is called back at most once (announce
\* claims before it calls), and with every delivery of the message and the outcome
\* its row has for good, although the rows were read before the announcement was
\* claimed and retention may delete them in between.
THEOREM AnnouncedAtMostOnce == Spec => []AnnouncedOnce
<1>1. ASSUME IInv, NEW m \in Messages, told[m] # <<>>
      PROVE  AllSettled(m) /\ told[m] = <<{<<x, outcome[x]>> : x \in Of(m)}>>
  <2>1. Len(told[m]) = 1
    BY <1>1, Zenon DEF IInv, OneHolder
  <2>2. told[m] \in Seq(SUBSET (Deliveries \X Outcomes))
    BY <1>1 DEF IInv, TypeOK, WorldTypeOK
  <2>3. 1 \in DOMAIN told[m] /\ told[m] = <<told[m][1]>>
    BY <2>1, <2>2
  <2>4. AllSettled(m) /\ told[m][1] = {<<x, outcome[x]>> : x \in Of(m)}
    BY <1>1, <2>3 DEF IInv, AnnouncedFinal
  <2>. QED  BY <2>3, <2>4
<1>2. IInv => AnnouncedOnce
  BY <1>1 DEF AnnouncedOnce
<1>. QED  BY <1>2, Inductive, PTL

-----------------------------------------------------------------------------
(* Outcomes and the announcement, worker by worker: a step of one worker   *)
(* leaves every other where it was, and a crash takes what it interrupts   *)
(* into disturbed.                                                         *)

Same(v) == /\ pc'[v] = pc[v] /\ job'[v] = job[v]
           /\ last'[v] = last[v] /\ verdict'[v] = verdict[v]

Acts(w) == (\E x \in Deliveries : Handle(w, x)) \/ Recover(w) \/ Step(w) \/ Fault(w)

Elsewhere == \/ \E m \in Messages : Accept(m) \/ Purge(m)
             \/ \E x \in Deliveries : Publish(x)
             \/ Tick
             \/ UNCHANGED vars

LEMMA ThreeKinds ==
  ASSUME [Next]_vars
  PROVE  Elsewhere \/ (\E w \in Workers : Acts(w)) \/ (\E p \in Processes : Crash(p))
BY DEF Next, Elsewhere, Acts

LEMMA NextRowOthers ==
  ASSUME TypeOK, NEW w \in Workers, NextRow(w) \/ ReturnNil(w), NEW v \in Workers, v # w
  PROVE  Same(v)
BY DEF TypeOK, WorkerTypeOK, NextRow, ReturnNil, Goto, Same

LEMMA DecideOthers ==
  ASSUME TypeOK, NEW w \in Workers, NEW r, Decide(w, r), NEW v \in Workers, v # w
  PROVE  Same(v)
BY DEF TypeOK, WorkerTypeOK, Decide, Goto, Same

LEMMA GotoOthers ==
  ASSUME TypeOK, NEW w \in Workers, NEW l, Goto(w, l), UNCHANGED <<job, last, verdict>>,
         NEW v \in Workers, v # w
  PROVE  Same(v)
BY DEF TypeOK, WorkerTypeOK, Goto, Same

LEMMA OthersKeep ==
  ASSUME TypeOK, NEW w \in Workers, Acts(w), NEW v \in Workers, v # w
  PROVE  Same(v)
<1>1. ASSUME NEW x \in Deliveries, Handle(w, x) PROVE Same(v)
  BY <1>1 DEF Handle, TypeOK, WorkerTypeOK, Goto, Same
<1>2. CASE Recover(w) \/ Judge(w)
  BY <1>2 DEF Recover, Judge, TypeOK, WorkerTypeOK, Goto, Same
<1>3. CASE Load(w) \/ Send(w)
  <2>1. (\E r : Decide(w, r)) \/ \E l : Goto(w, l) /\ UNCHANGED <<job, last, verdict>>
    BY <1>3 DEF Load, Send
  <2>. QED  BY <2>1, DecideOthers, GotoOthers
<1>4. CASE Record(w)
  <2>1. CASE ReturnNil(w)
    BY <2>1, NextRowOthers
  <2>2. CASE Goto(w, "list") /\ verdict' = [verdict EXCEPT ![w] = "NONE"] /\ UNCHANGED <<job, last>>
    BY <2>2 DEF TypeOK, WorkerTypeOK, Goto, Same
  <2>. QED  BY <1>4, <2>1, <2>2 DEF Record
<1>5. CASE List(w) \/ Hook(w) \/ ClaimAnnouncement(w)
  <2>1. ReturnNil(w) \/ \E l : Goto(w, l) /\ UNCHANGED <<job, last, verdict>>
    BY <1>5 DEF List, Hook, ClaimAnnouncement
  <2>. QED  BY <2>1, NextRowOthers, GotoOthers
<1>6. CASE Release(w) \/ Notify(w) \/ Ack(w)
  BY <1>6, NextRowOthers DEF Release, Notify, Ack, ReturnError
<1>7. CASE Fault(w)
  <2>1. NextRow(w) \/ ReturnNil(w) \/ UNCHANGED workerVars
    BY <1>7 DEF Fault, RecoverFails, LoadFails, RecordFails, AnnounceFails, ClaimAnnouncementFails,
                HandleFails, ReturnError
  <2>. QED  BY <2>1, NextRowOthers DEF workerVars, Same
<1>. QED  BY <1>1, <1>2, <1>3, <1>4, <1>5, <1>6, <1>7 DEF Acts, Step

LEMMA ElsewhereKeeps ==
  ASSUME Elsewhere
  PROVE  /\ \A v \in Workers : Same(v)
         /\ UNCHANGED <<outcome, notified, tries, accepted, told, disturbed>>
BY DEF Elsewhere, Accept, Purge, Publish, Tick, vars, dbVars, brokerVars, workerVars, worldVars, Same

LEMMA CrashInterrupts ==
  ASSUME TypeOK, NEW p \in Processes, Crash(p)
  PROVE  /\ \A v \in Workers :
              \/ Same(v)
              \/ pc'[v] = "idle" /\ last'[v] = {} /\ pc[v] # "idle" /\ job[v] \in disturbed'
         /\ UNCHANGED <<phase, msgAge, rowAge, outcome, notified, tries, accepted, told>>
         /\ disturbed \subseteq disturbed'
<1>. DEFINE lost == {w \in Workers : Home[w] = p /\ pc[w] # "idle"}
<1>1. \A v \in lost : pc'[v] = "idle" /\ last'[v] = {} /\ pc[v] # "idle" /\ job[v] \in disturbed'
  BY DEF Crash
<1>2. \A v \in Workers \ lost : Same(v)
  BY DEF Crash, Same
<1>3. /\ UNCHANGED <<phase, msgAge, rowAge, outcome, notified, tries, accepted, told>>
      /\ disturbed \subseteq disturbed'
  BY DEF Crash, dbVars, brokerVars
<1>. QED  BY <1>1, <1>2, <1>3

-----------------------------------------------------------------------------
(* Outcomes are earned.                                                    *)

\* No further attempt at x is to come from the broker, or from recovery.
Final(x) == tries[x] = MaxAttempts \/ msgAge[MessageOf[x]] >= GiveUp

\* Last chances, decided at the start of an attempt, are true when they are used;
\* and so is what a worker is about to write.
LastIsFinal == \A w \in Workers : \A x \in last[w] : Final(x)

VerdictsEarned ==
  \A w \in Workers : pc[w] = "record" =>
    /\ verdict[w] = Sent => job[w] \in accepted
    /\ verdict[w] = "MAX_ATTEMPTS" => Final(job[w])

EarnedInv == TypeOK /\ LastIsFinal /\ VerdictsEarned /\ OutcomeIsEarned

\* What was accepted, offered or aged stays so.
LEMMA OnlyForward ==
  ASSUME TypeOK, TypeOK', [Next]_vars
  PROVE  /\ accepted \subseteq accepted'
         /\ \A x \in Deliveries : tries[x] <= tries'[x]
         /\ \A m \in Messages : msgAge[m] <= msgAge'[m]
<1>1. accepted \subseteq accepted'
  <2>1. ASSUME NEW w \in Workers, Step(w) PROVE accepted \subseteq accepted'
    BY <2>1 DEF Step, Judge, Load, Send, Release, Record, List, Hook, ClaimAnnouncement, Notify, Ack, worldVars
  <2>2. ASSUME NEW w \in Workers, Fault(w) PROVE accepted \subseteq accepted'
    BY <2>2 DEF Fault, RecoverFails, LoadFails, RecordFails, AnnounceFails, ClaimAnnouncementFails, HandleFails, worldVars
  <2>. QED
    BY <2>1, <2>2 DEF Next, vars, worldVars, Accept, Purge, Publish, Tick, Handle, Recover, Crash
<1>2. \A x \in Deliveries : tries[x] <= tries'[x]
  <2>1. CASE UNCHANGED tries
    BY <2>1 DEF TypeOK, BrokerTypeOK
  <2>2. ASSUME NEW w \in Workers, NEW y \in Deliveries, Receive(w, y)
        PROVE  \A x \in Deliveries : tries[x] <= tries'[x]
    BY <2>2 DEF Receive, TypeOK, BrokerTypeOK
  <2>. QED  BY <2>1, <2>2, TriesOnlyByHandle DEF Handle, HandleFails
<1>3. \A m \in Messages : msgAge[m] <= msgAge'[m]
  <2>1. CASE UNCHANGED msgAge
    BY <2>1 DEF TypeOK, DbTypeOK
  <2>2. CASE Tick
    BY <2>2, BoundAssumption DEF Tick, Plus1, TypeOK, DbTypeOK
  <2>. QED  BY <2>1, <2>2, MsgAgeOnlyByTick
<1>. QED  BY <1>1, <1>2, <1>3

LEMMA FinalStable ==
  ASSUME TypeOK, TypeOK', [Next]_vars, NEW x \in Deliveries, Final(x)
  PROVE  Final(x)'
<1>1. /\ tries[x] <= tries'[x] /\ msgAge[MessageOf[x]] <= msgAge'[MessageOf[x]]
      /\ MessageOf[x] \in Messages
  BY OnlyForward, DeliveryAssumption
<1>. QED  BY <1>1, SettingsAssumption, BoundAssumption
          DEF Final, TypeOK, BrokerTypeOK, DbTypeOK

\* Last chances are handed out by Handle and Judge alone.
LEMMA LastKept ==
  ASSUME TypeOK, NEW w \in Workers, Step(w) \/ Fault(w) \/ Recover(w), ~Judge(w)
  PROVE  last'[w] \subseteq last[w]
<1>1. CASE NextRow(w) \/ ReturnNil(w)
  BY <1>1 DEF NextRow, ReturnNil, TypeOK, WorkerTypeOK
<1>2. CASE UNCHANGED last
  BY <1>2
<1>. QED
  BY <1>1, <1>2 DEF Step, Fault, Recover, RecoverFails, Load, Send, Decide, Release, Record, List, Hook,
     ClaimAnnouncement, Notify, Ack, LoadFails, RecordFails, AnnounceFails,
     ClaimAnnouncementFails, HandleFails, ReturnError, workerVars

LEMMA LastIsFinalInductive ==
  ASSUME EarnedInv, TypeOK', [Next]_vars
  PROVE  LastIsFinal'
<1>. USE DEF EarnedInv
<1>1. \A v \in Workers : last[v] \subseteq Deliveries /\ last'[v] \subseteq Deliveries
  BY DEF TypeOK, WorkerTypeOK
<1>2. ASSUME NEW v \in Workers, last'[v] \subseteq last[v] PROVE \A x \in last'[v] : Final(x)'
  BY <1>1, <1>2, FinalStable DEF LastIsFinal
<1>3. ASSUME NEW w \in Workers, NEW x \in Deliveries, Handle(w, x)
      PROVE  \A y \in last'[w] : Final(y)'
  <2>1. last'[w] \subseteq last[w] \/ (last'[w] \subseteq {x} /\ (last'[w] # {} => LastAttempt(tries[x] + 1)))
    BY <1>3 DEF Handle, TypeOK, WorkerTypeOK
  <2>2. tries'[x] = tries[x] + 1
    BY <1>3 DEF Handle, Receive, TypeOK, BrokerTypeOK
  <2>3. LastAttempt(tries[x] + 1) => Final(x)'
    BY <2>2, SettingsAssumption DEF LastAttempt, Final, TypeOK, BrokerTypeOK
  <2>. QED  BY <1>2, <2>1, <2>3
<1>4. ASSUME NEW w \in Workers, Judge(w) PROVE \A y \in last'[w] : Final(y)'
  <2>1. \A y \in last'[w] : y \in Deliveries /\ PastGiveUp(y)
    BY <1>4 DEF Judge, TypeOK, WorkerTypeOK
  <2>. QED  BY <2>1, FinalStable DEF PastGiveUp, Final
<1>5. ASSUME NEW v \in Workers PROVE \A x \in last'[v] : Final(x)'
  <2>1. CASE Elsewhere
    BY <1>2, <2>1, ElsewhereKeeps DEF Same
  <2>2. ASSUME NEW w \in Workers, Acts(w) PROVE \A x \in last'[v] : Final(x)'
    BY <1>2, <1>3, <1>4, <2>2, OthersKeep, LastKept DEF Acts, Same
  <2>3. ASSUME NEW p \in Processes, Crash(p) PROVE \A x \in last'[v] : Final(x)'
    BY <1>2, <2>3, CrashInterrupts DEF Same
  <2>. QED  BY <2>1, <2>2, <2>3, ThreeKinds
<1>. QED  BY <1>5 DEF LastIsFinal

LEMMA VerdictsEarnedInductive ==
  ASSUME EarnedInv, TypeOK', [Next]_vars
  PROVE  VerdictsEarned'
<1>. USE DEF EarnedInv
<1>. DEFINE Good(v) == pc[v] = "record" =>
                         /\ verdict[v] = Sent => job[v] \in accepted
                         /\ verdict[v] = "MAX_ATTEMPTS" => Final(job[v])
<1>1. ASSUME NEW v \in Workers, Same(v) PROVE Good(v)'
  <2>1. Good(v) /\ (pc[v] = "record" => job[v] \in Deliveries)
    BY InHand DEF VerdictsEarned
  <2>2. \A x \in Deliveries : (x \in accepted => x \in accepted') /\ (Final(x) => Final(x)')
    BY OnlyForward, FinalStable
  <2>. QED  BY <1>1, <2>1, <2>2 DEF Same, Final
<1>2. ASSUME NEW v \in Workers, pc'[v] # "record" PROVE Good(v)'
  BY <1>2
<1>3. ASSUME NEW w \in Workers, Load(w) PROVE Good(w)'
  <2>1. verdict'[w] \in {"GONE", "EXPIRED", "NO_SENDER"} \/ pc'[w] # "record"
    BY <1>3, BoundAssumption DEF Load, Decide, Goto, TypeOK, WorkerTypeOK
  <2>. QED  BY <2>1 DEF Sent
<1>4. ASSUME NEW w \in Workers, Send(w) PROVE Good(w)'
  <2>1. job[w] \in Deliveries /\ job'[w] = job[w] /\ last[w] \subseteq Deliveries
    BY <1>4, InHand DEF Send, Decide, TypeOK, WorkerTypeOK
  <2>2. \/ pc'[w] # "record"
        \/ verdict'[w] = Sent /\ job[w] \in accepted'
        \/ verdict'[w] \in {"NOT_REACHABLE", "PERMANENT"}
        \/ verdict'[w] = "MAX_ATTEMPTS" /\ job[w] \in last[w]
    BY <1>4, BoundAssumption DEF Send, Decide, Goto, TypeOK, WorkerTypeOK
  <2>3. job[w] \in last[w] => Final(job[w])'
    BY <2>1, FinalStable DEF LastIsFinal
  <2>. QED  BY <2>1, <2>2, <2>3 DEF Sent, Final
<1>5. ASSUME NEW w \in Workers, Acts(w), ~Load(w), ~Send(w) PROVE Good(w)'
  <2>1. pc'[w] # "record" \/ Same(w)
    <3>1. CASE NextRow(w) \/ ReturnNil(w)
      BY <3>1 DEF NextRow, ReturnNil, Goto, TypeOK, WorkerTypeOK
    <3>2. CASE UNCHANGED workerVars
      BY <3>2 DEF workerVars, Same
    <3>3. ASSUME NEW l \in {"judge", "load", "list", "hook", "claim", "notify", "ack"}, Goto(w, l)
          PROVE  pc'[w] # "record"
      BY <3>3 DEF Goto, TypeOK, WorkerTypeOK
    <3>. QED
      BY <1>5, <3>1, <3>2, <3>3 DEF Acts, Step, Fault, Handle, Recover, RecoverFails, Judge, Release, Record, List,
         Hook, ClaimAnnouncement, Notify, Ack, LoadFails, RecordFails, AnnounceFails,
         ClaimAnnouncementFails, HandleFails, ReturnError
  <2>. QED  BY <1>1, <1>2, <2>1
<1>6. ASSUME NEW v \in Workers PROVE Good(v)'
  <2>1. CASE Elsewhere
    BY <1>1, <2>1, ElsewhereKeeps
  <2>2. ASSUME NEW w \in Workers, Acts(w) PROVE Good(v)'
    <3>1. CASE v = w
      BY <1>3, <1>4, <1>5, <2>2, <3>1
    <3>2. CASE v # w
      BY <1>1, <2>2, <3>2, OthersKeep
    <3>. QED  BY <3>1, <3>2
  <2>3. ASSUME NEW p \in Processes, Crash(p) PROVE Good(v)'
    BY <1>1, <1>2, <2>3, CrashInterrupts
  <2>. QED  BY <2>1, <2>2, <2>3, ThreeKinds
<1>. QED  BY <1>6 DEF VerdictsEarned

LEMMA OutcomeIsEarnedInductive ==
  ASSUME EarnedInv, TypeOK', [Next]_vars
  PROVE  OutcomeIsEarned'
<1>. USE DEF EarnedInv
<1>. DEFINE Good(x) == /\ outcome[x] = Sent => x \in accepted
                       /\ outcome[x] = "MAX_ATTEMPTS" => Final(x)
<1>1. ASSUME NEW x \in Deliveries, outcome'[x] = outcome[x] PROVE Good(x)'
  BY <1>1, OnlyForward, FinalStable DEF OutcomeIsEarned, Final
<1>2. ASSUME NEW w \in Workers, Record(w) \/ RecordFails(w) PROVE \A x \in Deliveries : Good(x)'
  <2>1. job[w] \in Deliveries /\ pc[w] = "record"
    BY <1>2, InHand DEF Record, RecordFails
  <2>2. outcome' = outcome \/ outcome' = [outcome EXCEPT ![job[w]] = ReasonOf(verdict[w])]
    BY <1>2 DEF Record, RecordFails, Update
  <2>3. CASE outcome' = [outcome EXCEPT ![job[w]] = ReasonOf(verdict[w])]
    <3>1. \A x \in Deliveries : x # job[w] => Good(x)'
      BY <1>1, <2>3 DEF TypeOK, DbTypeOK
    <3>2. outcome'[job[w]] = ReasonOf(verdict[w])
      BY <2>1, <2>3 DEF TypeOK, DbTypeOK
    <3>3. outcome'[job[w]] \in {Sent, "MAX_ATTEMPTS"} => verdict[w] = outcome'[job[w]]
      BY <3>2 DEF ReasonOf, Sent
    <3>4. /\ outcome'[job[w]] = Sent => job[w] \in accepted
          /\ outcome'[job[w]] = "MAX_ATTEMPTS" => Final(job[w])
      BY <2>1, <3>3 DEF VerdictsEarned
    <3>5. \A x \in Deliveries : x = job[w] => Good(x)'
      BY <2>1, <3>4, OnlyForward, FinalStable
    <3>. QED  BY <3>1, <3>5
  <2>. QED  BY <1>1, <2>2, <2>3
<1>3. \A x \in Deliveries : Good(x)'
  BY <1>1, <1>2, OutcomeOnlyByRecord
<1>. QED  BY <1>3 DEF OutcomeIsEarned, Final

LEMMA EarnedInductive == Spec => []EarnedInv
<1>1. Init => EarnedInv
  BY InitType, DeliveryAssumption, SettingsAssumption
     DEF Init, EarnedInv, LastIsFinal, VerdictsEarned, OutcomeIsEarned, Pending, Sent
<1>2. EarnedInv /\ [Next]_vars => EarnedInv'
  <2>. SUFFICES ASSUME EarnedInv, [Next]_vars PROVE EarnedInv'
    OBVIOUS
  <2>1. TypeOK'
    BY NextType DEF EarnedInv
  <2>. QED
    BY <2>1, LastIsFinalInductive, VerdictsEarnedInductive,
       OutcomeIsEarnedInductive DEF EarnedInv
<1>. QED  BY <1>1, <1>2, PTL DEF Spec

\* Whichever of the workers that raced for a delivery writes its outcome, SENT means
\* a provider accepted it, and MAX_ATTEMPTS that the broker had made its last offer
\* or the message had reached RECONCILE_GIVE_UP (lastChance is decided when an
\* attempt starts and used when it ends).
THEOREM OutcomesAreEarned == Spec => []OutcomeIsEarned
BY EarnedInductive, PTL DEF EarnedInv

-----------------------------------------------------------------------------
(* No announcement is missed, and no delivery is left when the broker has  *)
(* made its last offer: unless something failed, somebody is still on it.  *)

\* A message that is not stored yet has no outcome, no stamp and no event.
UntouchedBefore ==
  \A x \in Deliveries : phase[MessageOf[x]] = "new" =>
    outcome[x] = Pending /\ ~notified[x] /\ tries[x] = 0

\* "The message was not found" is said only of one that retention has deleted.
GoneIsPurged ==
  \A w \in Workers : pc[w] = "record" /\ verdict[w] = "GONE" => phase[MsgOf(w)] = "purged"

Undisturbed(m) == phase[m] = "stored" /\ Of(m) \cap disturbed = {}

\* Whoever stamps the rows calls back, or has.
StampedIsCalled ==
  \A m \in Messages :
    Undisturbed(m) /\ (\E x \in Of(m) : notified[x]) =>
      \/ told[m] # <<>>
      \/ \E w \in Workers : pc[w] = "notify" /\ MsgOf(w) = m

\* After the broker's last offer a consumer knows that it is the last and has not
\* recorded yet, or the row is settled.
Deciding == {"load", "send", "record"}

LastOfferInHand ==
  \A x \in Deliveries :
    Exists(x) /\ tries[x] = MaxAttempts /\ x \notin disturbed =>
      \/ IsSettled(outcome[x])
      \/ \E w \in Consumers : pc[w] \in Deciding /\ job[w] = x /\ x \in last[w]

CareInv ==
  /\ TypeOK /\ Known /\ UntouchedBefore /\ GoneIsPurged
  /\ StampedIsCalled /\ AnnounceNotMissed /\ LastOfferInHand

LEMMA DisturbedGrows ==
  ASSUME [Next]_vars
  PROVE  disturbed \subseteq disturbed'
<1>1. ASSUME NEW w \in Workers, Step(w) PROVE disturbed \subseteq disturbed'
  BY <1>1 DEF Step, Judge, Load, Send, Release, Record, List, Hook, ClaimAnnouncement, Notify, Ack, worldVars
<1>2. ASSUME NEW w \in Workers, Fault(w) PROVE disturbed \subseteq disturbed'
  BY <1>2 DEF Fault, RecoverFails, LoadFails, RecordFails, AnnounceFails, ClaimAnnouncementFails, HandleFails, worldVars, Disturb
<1>. QED
  BY <1>1, <1>2 DEF Next, vars, worldVars, Accept, Purge, Publish, Tick, Handle, Recover, Crash

\* What a step changes of the rows of a message that is not stored.
LEMMA UntouchedBeforeInductive ==
  ASSUME CareInv, TypeOK', RowsMonotone, [Next]_vars
  PROVE  UntouchedBefore'
<1>. USE DEF CareInv
<1>. SUFFICES ASSUME NEW x \in Deliveries, phase'[MessageOf[x]] = "new"
              PROVE  outcome'[x] = Pending /\ ~notified'[x] /\ tries'[x] = 0
  BY DEF UntouchedBefore
<1>1. phase[MessageOf[x]] = "new" /\ ~Exists(x)
  BY DeliveryAssumption DEF RowsMonotone, Exists
<1>2. outcome[x] = Pending /\ ~notified[x] /\ tries[x] = 0
  BY <1>1 DEF UntouchedBefore
<1>3. outcome'[x] = Pending
  <2>1. ASSUME NEW w \in Workers, Record(w) \/ RecordFails(w) PROVE outcome'[x] = outcome[x]
    <3>1. outcome' = outcome \/ (Exists(job[w]) /\ outcome' = [outcome EXCEPT ![job[w]] = ReasonOf(verdict[w])])
      BY <2>1 DEF Record, RecordFails, Update
    <3>. QED  BY <1>1, <3>1 DEF TypeOK, DbTypeOK
  <2>. QED  BY <1>2, <2>1, OutcomeOnlyByRecord
<1>4. ~notified'[x]
  <2>1. ASSUME NEW m, Stamp(m) PROVE ~notified'[x]
    BY <1>1, <1>2, <2>1 DEF Stamp, Unannounced
  <2>2. CASE UNCHANGED notified
    BY <1>2, <2>2
  <2>. QED
    BY <2>1, <2>2, NotifiedOnlyByClaim DEF ClaimAnnouncement, ClaimAnnouncementFails
<1>5. tries'[x] = 0
  <2>1. CASE UNCHANGED tries
    BY <1>2, <2>1
  <2>2. ASSUME NEW w \in Workers, NEW y \in Deliveries, Receive(w, y) PROVE tries'[x] = tries[x]
    <3>1. x # y
      BY <1>1, <2>2 DEF Receive, Known
    <3>. QED  BY <2>2, <3>1 DEF Receive, TypeOK, BrokerTypeOK
  <2>. QED  BY <1>2, <2>1, <2>2, TriesOnlyByHandle DEF Handle, HandleFails
<1>. QED  BY <1>3, <1>4, <1>5

LEMMA GoneIsPurgedInductive ==
  ASSUME CareInv, TypeOK', RowsMonotone, [Next]_vars
  PROVE  GoneIsPurged'
<1>. USE DEF CareInv
<1>. SUFFICES ASSUME NEW v \in Workers, pc'[v] = "record", verdict'[v] = "GONE"
              PROVE  phase'[MessageOf[job'[v]]] = "purged"
  BY DEF GoneIsPurged, MsgOf
<1>1. CASE Same(v)
  <2>1. MsgOf(v) \in Messages /\ phase[MsgOf(v)] = "purged" /\ job'[v] = job[v]
    BY <1>1, InHand DEF Same, GoneIsPurged
  <2>. QED  BY <2>1 DEF RowsMonotone, MsgOf
<1>2. ASSUME NEW w \in Workers, Acts(w), v = w, ~Same(v) PROVE phase'[MessageOf[job'[v]]] = "purged"
  <2>1. CASE Load(w)
    BY <1>2, <2>1, BoundAssumption DEF Load, Decide, Goto, TypeOK, WorkerTypeOK, dbVars
  <2>2. CASE Send(w)
    BY <1>2, <2>2, BoundAssumption DEF Send, Decide, Goto, TypeOK, WorkerTypeOK, Sent
  <2>3. CASE ~Load(w) /\ ~Send(w)
    <3>1. CASE NextRow(w) \/ ReturnNil(w)
      BY <1>2, <3>1 DEF NextRow, ReturnNil, Goto, TypeOK, WorkerTypeOK
    <3>2. CASE UNCHANGED workerVars
      BY <1>2, <3>2 DEF workerVars, Same
    <3>3. ASSUME NEW l \in {"judge", "load", "list", "hook", "claim", "notify", "ack"}, Goto(w, l)
          PROVE  FALSE
      BY <1>2, <3>3 DEF Goto, TypeOK, WorkerTypeOK
    <3>. QED
      BY <1>2, <2>3, <3>1, <3>2, <3>3 DEF Acts, Step, Fault, Handle, Recover, RecoverFails, Judge, Release, Record,
         List, Hook, ClaimAnnouncement, Notify, Ack, LoadFails, RecordFails, AnnounceFails,
         ClaimAnnouncementFails, HandleFails, ReturnError
  <2>. QED  BY <2>1, <2>2, <2>3
<1>. QED  BY <1>1, <1>2, ThreeKinds, ElsewhereKeeps, OthersKeep, CrashInterrupts

LEMMA ToldGrows ==
  ASSUME TypeOK, [Next]_vars, NEW m \in Messages, told[m] # <<>>
  PROVE  told'[m] # <<>>
<1>1. CASE \A w \in Workers : ~Notify(w)
  BY <1>1, ToldOnlyByNotify
<1>2. ASSUME NEW w \in Workers, Notify(w) PROVE told'[m] # <<>>
  <2>1. CASE m # MsgOf(w)
    BY <1>2, <2>1 DEF Notify, MsgOf, TypeOK, WorldTypeOK
  <2>2. CASE m = MsgOf(w)
    <3>1. told'[m] = Append(told[m], view[w])
      BY <1>2, <2>2 DEF Notify, MsgOf, TypeOK, WorldTypeOK
    <3>2. /\ told[m] \in Seq(SUBSET (Deliveries \X Outcomes))
          /\ view[w] \in SUBSET (Deliveries \X Outcomes)
      BY DEF TypeOK, WorldTypeOK, WorkerTypeOK
    <3>. QED  BY <3>1, <3>2
  <2>. QED  BY <2>1, <2>2
<1>. QED  BY <1>1, <1>2

LEMMA NotifyTells ==
  ASSUME TypeOK, NEW w \in Workers, Notify(w)
  PROVE  told'[MsgOf(w)] # <<>>
<1>1. MsgOf(w) \in Messages
  BY InHand DEF Notify
<1>2. told'[MsgOf(w)] = Append(told[MsgOf(w)], view[w])
  BY <1>1 DEF Notify, MsgOf, TypeOK, WorldTypeOK
<1>3. /\ told[MsgOf(w)] \in Seq(SUBSET (Deliveries \X Outcomes))
      /\ view[w] \in SUBSET (Deliveries \X Outcomes)
  BY <1>1 DEF TypeOK, WorldTypeOK, WorkerTypeOK
<1>. QED  BY <1>2, <1>3

\* A worker leaves what it is doing by a step of its own that succeeds, or its
\* delivery is disturbed.
LEMMA StaysOrDisturbed ==
  ASSUME TypeOK, [Next]_vars, NEW v \in Workers, pc[v] \in Announcing \cup Deciding
  PROVE  \/ Same(v) \/ job[v] \in disturbed'
         \/ Load(v) \/ Send(v) \/ Record(v)
         \/ List(v) \/ Hook(v) \/ ClaimAnnouncement(v) \/ Notify(v)
<1>1. CASE Acts(v)
  <2>1. pc[v] # "idle" /\ pc[v] # "judge" /\ pc[v] # "release" /\ pc[v] # "ack"
    BY DEF Announcing, Deciding
  <2>2. CASE Fault(v)
    <3>1. ~RecoverFails(v) /\ \A x \in Deliveries : ~HandleFails(v, x)
      BY <2>1 DEF HandleFails, RecoverFails, Receive
    <3>. QED  BY <2>2, <3>1 DEF Fault, LoadFails, RecordFails, AnnounceFails,
                               ClaimAnnouncementFails, Disturb
  <2>. QED  BY <1>1, <2>1, <2>2 DEF Acts, Step, Handle, Receive, Recover, Judge, Release, Ack
<1>. QED  BY <1>1, ThreeKinds, ElsewhereKeeps, OthersKeep, CrashInterrupts

LEMMA StampedIsCalledInductive ==
  ASSUME CareInv, TypeOK', RowsMonotone, [Next]_vars
  PROVE  StampedIsCalled'
<1>. USE DEF CareInv
<1>. SUFFICES ASSUME NEW m \in Messages, phase'[m] = "stored", Of(m) \cap disturbed' = {},
                     NEW x \in Of(m), notified'[x], told'[m] = <<>>
              PROVE  \E w \in Workers : pc'[w] = "notify" /\ MessageOf[job'[w]] = m
  BY DEF StampedIsCalled, Undisturbed, Of, MsgOf
<1>1. x \in Deliveries /\ MessageOf[x] = m
  BY DEF Of
<1>2. CASE notified[x]
  <2>1. phase[m] = "stored"
    BY <1>1, <1>2 DEF UntouchedBefore, RowsMonotone, TypeOK, DbTypeOK
  <2>2. Undisturbed(m) /\ told[m] = <<>>
    BY <2>1, DisturbedGrows, ToldGrows DEF Undisturbed
  <2>3. PICK w \in Workers : pc[w] = "notify" /\ MsgOf(w) = m
    BY <1>2, <2>2 DEF StampedIsCalled
  <2>4. job[w] \in Of(m)
    BY <2>3, InHand DEF Of, MsgOf
  <2>5. ~Notify(w)
    BY <2>3, NotifyTells
  <2>6. Same(w)
    BY <2>3, <2>4, <2>5, StaysOrDisturbed
       DEF Announcing, Load, Send, Record, List, Hook, ClaimAnnouncement
  <2>. QED  BY <2>3, <2>6 DEF Same, MsgOf
<1>3. CASE ~notified[x]
  <2>1. \E w \in Workers : ClaimAnnouncement(w) \/ ClaimAnnouncementFails(w)
    BY <1>3, NotifiedOnlyByClaim
  <2>2. PICK w \in Workers : ClaimAnnouncement(w) \/ ClaimAnnouncementFails(w)
    BY <2>1
  <2>3. x \in Unannounced(MsgOf(w)) /\ Stamp(MsgOf(w))
    BY <1>1, <1>3, <2>2 DEF ClaimAnnouncement, ClaimAnnouncementFails, Stamp, MsgOf
  <2>4. MsgOf(w) = m /\ job[w] \in Of(m)
    BY <1>1, <2>2, <2>3, InHand DEF Unannounced, Of, MsgOf, ClaimAnnouncement, ClaimAnnouncementFails
  <2>5. ClaimAnnouncement(w)
    BY <2>2, <2>4 DEF ClaimAnnouncementFails, Disturb
  <2>6. pc' = [pc EXCEPT ![w] = "notify"] /\ job' = job
    BY <2>3, <2>5 DEF ClaimAnnouncement, Mine, Goto, MsgOf
  <2>. QED  BY <2>4, <2>6 DEF TypeOK, WorkerTypeOK, MsgOf
<1>. QED  BY <1>2, <1>3

LEMMA AnnounceNotMissedInductive ==
  ASSUME CareInv, TypeOK', RowsMonotone, [Next]_vars
  PROVE  AnnounceNotMissed'
<1>. USE DEF CareInv
<1>. SUFFICES ASSUME NEW m \in Messages, phase'[m] = "stored", Of(m) # {}, AllSettled(m)',
                     Of(m) \cap disturbed' = {}, told'[m] = <<>>
              PROVE  \E w \in Workers : pc'[w] \in Announcing /\ MessageOf[job'[w]] = m
  BY DEF AnnounceNotMissed, Of
<1>1. CASE AllSettled(m)
  <2>1. PICK x \in Deliveries : MessageOf[x] = m /\ outcome[x] # Pending
    BY <1>1, SettledIsNotPending DEF AllSettled, Of
  <2>2. phase[m] = "stored"
    BY <2>1 DEF UntouchedBefore, RowsMonotone, TypeOK, DbTypeOK
  <2>3. Undisturbed(m) /\ told[m] = <<>>
    BY <2>2, DisturbedGrows, ToldGrows DEF Undisturbed
  <2>4. PICK w \in Workers : pc[w] \in Announcing /\ MessageOf[job[w]] = m
    BY <1>1, <2>2, <2>3 DEF AnnounceNotMissed, Undisturbed
  <2>5. job[w] \in Of(m) /\ MsgOf(w) = m
    BY <2>4, InHand DEF Of, MsgOf, Announcing
  <2>6. CASE Same(w)
    BY <2>4, <2>6 DEF Same
  <2>7. CASE List(w)
    <3>1. \A r \in Rows(m) : IsSettled(r[2])
      BY <1>1 DEF Rows, AllSettled, Of
    <3>2. pc' = [pc EXCEPT ![w] = "hook"] /\ job' = job
      BY <2>7, <2>5, <3>1 DEF List, Goto, MsgOf
    <3>. QED  BY <2>5, <3>2 DEF TypeOK, WorkerTypeOK, Announcing, MsgOf
  <2>8. CASE Hook(w)
    BY <2>5, <2>8 DEF Hook, Goto, TypeOK, WorkerTypeOK, Announcing, MsgOf
  <2>9. CASE ClaimAnnouncement(w)
    <3>1. CASE Mine(m)
      <4>1. pc' = [pc EXCEPT ![w] = "notify"] /\ job' = job
        BY <2>5, <2>9, <3>1 DEF ClaimAnnouncement, Goto, MsgOf
      <4>. QED  BY <2>5, <4>1 DEF TypeOK, WorkerTypeOK, Announcing, MsgOf
    <3>2. CASE ~Mine(m)
      <4>1. notified[x] /\ x \in Of(m)
        BY <2>1, <2>2, <3>2 DEF Mine, Unannounced, Of, Exists
      <4>2. PICK v \in Workers : pc[v] = "notify" /\ MsgOf(v) = m
        BY <2>3, <4>1 DEF StampedIsCalled
      <4>3. v # w
        BY <2>9, <4>2 DEF ClaimAnnouncement
      <4>4. Same(v)
        BY <2>9, <4>3, OthersKeep DEF Acts, Step
      <4>. QED  BY <4>2, <4>4 DEF Same, Announcing, MsgOf
    <3>. QED  BY <3>1, <3>2
  <2>10. ~Notify(w)
    BY <2>5, NotifyTells
  <2>11. pc[w] \notin Deciding
    BY <2>4 DEF Announcing, Deciding
  <2>. QED
    BY <2>4, <2>5, <2>6, <2>7, <2>8, <2>9, <2>10, <2>11, StaysOrDisturbed
       DEF Load, Send, Record, Deciding
<1>2. CASE ~AllSettled(m)
  <2>1. PICK x \in Deliveries : MessageOf[x] = m /\ outcome'[x] # outcome[x]
    BY <1>2 DEF AllSettled, Of
  <2>2. PICK w \in Workers : Record(w) \/ RecordFails(w)
    BY <2>1, OutcomeOnlyByRecord
  <2>3. job[w] = x
    BY <2>1, <2>2 DEF Record, RecordFails, Update, TypeOK, DbTypeOK
  <2>4. Record(w)
    BY <2>1, <2>2, <2>3 DEF RecordFails, Disturb, Of
  <2>5. phase[m] = "stored" /\ MsgOf(w) = m
    BY <2>1, <2>3, <2>4 DEF Record, MsgOf
  <2>6. verdict[w] # "GONE"
    BY <2>4, <2>5 DEF GoneIsPurged, Record
  <2>7. pc' = [pc EXCEPT ![w] = "list"] /\ job' = job
    BY <2>4, <2>6 DEF Record, Goto
  <2>. QED  BY <2>1, <2>3, <2>7 DEF TypeOK, WorkerTypeOK, Announcing
<1>. QED  BY <1>1, <1>2

LEMMA LastOfferInHandInductive ==
  ASSUME CareInv, TypeOK', RowsMonotone, [Next]_vars
  PROVE  LastOfferInHand'
<1>. USE DEF CareInv
<1>. SUFFICES ASSUME NEW x \in Deliveries, phase'[MessageOf[x]] = "stored", tries'[x] = MaxAttempts,
                     x \notin disturbed', outcome'[x] = Pending
              PROVE  \E w \in Consumers : pc'[w] \in Deciding /\ job'[w] = x /\ x \in last'[w]
  BY DEF LastOfferInHand, Exists, IsSettled, TypeOK, DbTypeOK, Outcomes, Sent, Pending, Reasons
<1>1. outcome[x] = Pending /\ x \notin disturbed /\ Consumers \subseteq Workers
  BY DisturbedGrows DEF RowsMonotone, Workers
<1>2. CASE tries[x] = MaxAttempts
  <2>1. Exists(x)
    BY <1>2, SettingsAssumption, DeliveryAssumption
       DEF UntouchedBefore, RowsMonotone, Exists, TypeOK, DbTypeOK
  <2>2. PICK w \in Consumers : pc[w] \in Deciding /\ job[w] = x /\ x \in last[w]
    BY <1>1, <1>2, <2>1 DEF LastOfferInHand, IsSettled, Pending, Sent, Reasons
  <2>3. CASE Same(w)
    BY <2>2, <2>3 DEF Same
  <2>4. CASE Load(w)
    BY <1>1, <2>2, <2>4 DEF Load, Decide, Goto, Deciding, TypeOK, WorkerTypeOK
  <2>5. CASE Send(w)
    BY <1>1, <2>2, <2>5 DEF Send, Decide, Goto, Deciding, TypeOK, WorkerTypeOK
  <2>6. ~Record(w)
    <3>. SUFFICES ASSUME Record(w) PROVE FALSE
      OBVIOUS
    <3>1. outcome'[x] = ReasonOf(verdict[w])
      BY <1>1, <2>1, <2>2 DEF Record, Update, TypeOK, DbTypeOK
    <3>2. verdict[w] \in Verdicts \ {"NONE"}
      BY <1>1 DEF Record, TypeOK, WorkerTypeOK
    <3>. QED  BY <3>1, <3>2 DEF ReasonOf, Verdicts, Reasons, Sent, Pending
  <2>. QED
    BY <1>1, <2>2, <2>3, <2>4, <2>5, <2>6, StaysOrDisturbed
       DEF Deciding, List, Hook, ClaimAnnouncement, Notify
<1>3. CASE tries[x] # MaxAttempts
  <2>1. PICK w \in Workers : Handle(w, x) \/ HandleFails(w, x)
    <3>1. ASSUME NEW w \in Workers, NEW y \in Deliveries, Receive(w, y) PROVE x = y
      BY <1>3, <3>1 DEF Receive, TypeOK, BrokerTypeOK
    <3>2. PICK w \in Workers, y \in Deliveries : Handle(w, y) \/ HandleFails(w, y)
      BY <1>3, TriesOnlyByHandle
    <3>. QED  BY <3>1, <3>2 DEF Handle, HandleFails
  <2>2. Handle(w, x) /\ w \in Consumers
    BY <2>1 DEF HandleFails, Handle, Receive
  <2>3. Exists(x) /\ ~IsSettled(outcome[x])
    BY <1>1, <2>2 DEF Handle, dbVars, Exists, IsSettled, Pending, Sent, Reasons
  <2>4. tries[x] + 1 = MaxAttempts
    BY <2>2 DEF Handle, Receive, TypeOK, BrokerTypeOK
  <2>5. pc'[w] = "load" /\ job'[w] = x /\ last'[w] = {x}
    BY <2>1, <2>2, <2>3, <2>4, SettingsAssumption
       DEF Handle, LastAttempt, Goto, TypeOK, WorkerTypeOK
  <2>. QED  BY <2>2, <2>5 DEF Deciding
<1>. QED  BY <1>2, <1>3

LEMMA CareInductive == Spec => []CareInv
<1>1. Init => CareInv
  <2>. SUFFICES ASSUME Init PROVE CareInv
    OBVIOUS
  <2>1. TypeOK /\ Known
    BY InitInv DEF IInv
  <2>2. UntouchedBefore /\ GoneIsPurged
    BY DEF Init, UntouchedBefore, GoneIsPurged
  <2>3. StampedIsCalled /\ AnnounceNotMissed /\ LastOfferInHand
    BY DeliveryAssumption
       DEF Init, StampedIsCalled, Undisturbed, AnnounceNotMissed, LastOfferInHand, Exists
  <2>. QED  BY <2>1, <2>2, <2>3 DEF CareInv
<1>2. CareInv /\ [Next]_vars => CareInv'
  <2>. SUFFICES ASSUME CareInv, [Next]_vars PROVE CareInv'
    OBVIOUS
  <2>1. TypeOK'
    BY NextType DEF CareInv
  <2>2. RowsMonotone
    BY Monotone DEF CareInv
  <2>3. Known'
    BY <2>1, <2>2, KnownInductive DEF CareInv
  <2>. QED
    BY <2>1, <2>2, <2>3, UntouchedBeforeInductive, GoneIsPurgedInductive, StampedIsCalledInductive,
       AnnounceNotMissedInductive, LastOfferInHandInductive DEF CareInv
<1>. QED  BY <1>1, <1>2, PTL DEF Spec

\* However many workers settle the last deliveries of a message together, they do
\* not each leave the announcement to the other: a settled message was announced or
\* somebody is on the way to it, unless a crash, a failed statement or a source
\* without a callback got in the way (announce, ClaimNotificationAnnouncement).
THEOREM AnnouncementNotMissed == Spec => []AnnounceNotMissed
BY CareInductive, PTL DEF CareInv

\* For every limit and any number of consumers: when the broker has offered an event
\* for the last time and no consumer is still on it, its delivery has an outcome,
\* unless something failed.  The dispatcher's count of attempts and the broker's
\* delivery limit agree.
THEOREM ExhaustedIsSettled == Spec => []ExhaustedMeansSettled
<1>1. CareInv => ExhaustedMeansSettled
  BY DEF CareInv, LastOfferInHand, ExhaustedMeansSettled, Deciding, Announcing
<1>. QED  BY <1>1, CareInductive, PTL

LEMMA InitRefines == Init => Promise!Init
BY DEF Init, Promise!Init, Pending

LEMMA StepRefines ==
  ASSUME IInv, [Next]_vars
  PROVE  [Promise!Next]_<<outcome, told>>
<1>. USE DEF IInv
<1>1. ASSUME NEW w \in Workers, Notify(w) PROVE Promise!Next
  <2>1. MsgOf(w) \in Messages /\ Complete(w) /\ told[MsgOf(w)] = <<>>
    BY <1>1, InHand DEF Notify, ViewsFinal, OneHolder
  <2>2. told' = [told EXCEPT ![MsgOf(w)] = <<view[w]>>] /\ outcome' = outcome
    BY <1>1, <2>1 DEF Notify, MsgOf, dbVars
  <2>3. Promise!Announce(MsgOf(w))
    BY <2>1, <2>2 DEF Promise!Announce, Complete, AllSettled, IsSettled, Of, Sent, Reasons
  <2>. QED  BY <2>1, <2>3 DEF Promise!Next
<1>2. ASSUME NEW w \in Workers, Record(w) \/ RecordFails(w)
      PROVE  Promise!Next \/ UNCHANGED <<outcome, told>>
  <2>1. told' = told /\ pc[w] = "record" /\ job[w] \in Deliveries
    BY <1>2, InHand DEF Record, RecordFails, worldVars
  <2>2. CASE outcome' = outcome
    BY <2>1, <2>2
  <2>3. CASE outcome' # outcome
    <3>1. /\ outcome[job[w]] = Pending
          /\ outcome' = [outcome EXCEPT ![job[w]] = ReasonOf(verdict[w])]
      BY <1>2, <2>3 DEF Record, RecordFails, Update
    <3>2. ReasonOf(verdict[w]) \in {"SENT"} \cup Promise!Reasons
      BY <2>1 DEF TypeOK, WorkerTypeOK, Verdicts, ReasonOf, Reasons, Sent, Promise!Reasons
    <3>3. Promise!Settle(job[w], ReasonOf(verdict[w]))
      BY <2>1, <3>1 DEF Promise!Settle, Pending
    <3>. QED  BY <2>1, <3>2, <3>3 DEF Promise!Next
  <2>. QED  BY <2>2, <2>3
<1>3. CASE \A w \in Workers : ~Notify(w) /\ ~Record(w) /\ ~RecordFails(w)
  <2>1. told' = told
    BY <1>3, ToldOnlyByNotify
  <2>2. outcome' = outcome
    BY <1>3, OutcomeOnlyByRecord
  <2>. QED  BY <2>1, <2>2
<1>. QED  BY <1>1, <1>2, <1>3

\* With every worker, retry, race, crash and deletion in it the dispatcher still
\* behaves as Settlement says: a row that left PENDING is never written again
\* (UpdateDelivery's WHERE status = 'PENDING'), and a callback reports exactly
\* what the rows of a finished message hold for good.
THEOREM Refinement == Spec => ImplementsSettlement
<1>1. IInv /\ [Next]_vars => [Promise!Next]_<<outcome, told>>
  BY StepRefines
<1>. QED
  BY <1>1, InitRefines, Inductive, PTL DEF Spec, ImplementsSettlement, Promise!Spec
=============================================================================
