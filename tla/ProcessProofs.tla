---------------------------- MODULE ProcessProofs ----------------------------
(***************************************************************************)
(* What a process keeps in memory: how it starts and stops (Lifecycle),    *)
(* its limiter (RateLimit) and its keyring (Sealing).                      *)
(*                                                                         *)
(* Shutdown takes nothing away from work that is being waited for and      *)
(* loses no alert it owes; the limiter keeps its quota though it forgets   *)
(* full buckets; and through any number of key changes, rolled out process *)
(* by process in any order, every stored value can be opened everywhere.   *)
(***************************************************************************)
EXTENDS Lifecycle, RateLimit, Sealing, FiniteSetTheorems, TLAPS

-----------------------------------------------------------------------------
(* Lifecycle: the inductive invariant.                                     *)

\* Every step that a binary registers, by its tier.
StoreSteps  == {Step("postgres", tierStore), [Step("schema", tierStore) EXCEPT !.closes = FALSE]}
BrokerSteps == {Step("nats", tierBroker)}
ClientNames == {"alert client", "alerts", "webhook client", "sender client"}
ServerNames == {"grpc", "http", "consumer", "scheduler", "portal", "admin"}
ClientSteps == {Step(n, tierClient) : n \in ClientNames}
ServerSteps == {Step(n, tierServer) : n \in ServerNames}
Steps       == StoreSteps \cup BrokerSteps \cup ClientSteps \cup ServerSteps

PlanKnown == plan \in Seq(Steps)

Passed == closed \cup {current}

\* Close has come to nothing before everything of a higher tier is closed, begins
\* when the process is told to, and ends when no server is left.
WalkInOrder ==
  /\ \A i, j \in 1 .. opened :
       plan[i].name \in Passed /\ plan[j].name \notin closed => plan[i].tier >= plan[j].tier
  /\ phase \in {"starting", "running"} => closed = {} /\ current = Nothing
  /\ phase \in {"down", "panicked"} =>
       \A j \in 1 .. opened : plan[j].tier = tierServer => plan[j].name \in closed

\* A server that has closed has nothing inside but what it stopped waiting for.
ServersEmptied ==
  \A w \in Work : inside[w] \in closed => w \in cut

\* What is owed is in the queue, and none of it is left when the worker is gone.
OwedIsQueued ==
  /\ owed <= queue
  /\ worker = "gone" => owed = 0
  /\ "alerts" \in closed => worker = "gone"

\* An answer was so at some moment since the last look, unless shutdown overtook the
\* look; and how a dependency is now belongs to those moments.
LooksAreTrue ==
  \A d \in Watched : /\ asked[d] = Unknown \/ asked[d] \in been[d] \/ Overtaken(d)
                     /\ Health(d) \in been[d]

LifecycleInv ==
  /\ PlanKnown /\ TypeOK
  /\ WalkInOrder /\ ServersEmptied /\ OwedIsQueued /\ LooksAreTrue

-----------------------------------------------------------------------------
(* The steps a binary registers.                                           *)

\* What a binary registers, with or without an operator's channel, is in that list.
LEMMA PlansAreSteps ==
  ASSUME NEW b \in {"gateway", "dispatcher", "console", "migrate"}
  PROVE  Wiring(b) \in Seq(Steps) /\ Alerts \o Wiring(b) \in Seq(Steps)
<1>1. Postgres \in Seq(Steps) /\ NATS \in Seq(Steps) /\ Senders \in Seq(Steps)
      /\ Alerts \in Seq(Steps) /\ Migrate \in Seq(Steps)
  BY DEF Postgres, NATS, Senders, Alerts, Migrate, Steps, StoreSteps, BrokerSteps, ClientSteps, ClientNames
<1>2. /\ <<Step("grpc", tierServer), Step("http", tierServer)>> \in Seq(Steps)
      /\ <<Step("webhook client", tierClient)>> \in Seq(Steps)
      /\ <<Step("consumer", tierServer), Step("scheduler", tierServer), Step("http", tierServer)>>
           \in Seq(Steps)
      /\ <<Step("portal", tierServer), Step("http", tierServer), Step("admin", tierServer)>>
           \in Seq(Steps)
  BY DEF Steps, ClientSteps, ServerSteps, ClientNames, ServerNames
<1>3. \A s, t \in Seq(Steps) : s \o t \in Seq(Steps)
  OBVIOUS
<1>. HIDE DEF Steps
<1>4. Gateway \in Seq(Steps) /\ Console \in Seq(Steps)
  BY <1>1, <1>2, <1>3 DEF Gateway, Console
<1>5. Dispatcher \in Seq(Steps)
  BY <1>1, <1>2, <1>3 DEF Dispatcher
<1>. QED  BY <1>1, <1>3, <1>4, <1>5 DEF Wiring

\* A step's name says at which tier it closes; the one without a close is at the
\* lowest; and no step is called like the places where nothing is.
LEMMA StepFacts ==
  ASSUME PlanKnown, NEW i \in 1 .. Len(plan)
  PROVE  /\ plan[i].tier \in 0 .. 3
         /\ \A j \in 1 .. Len(plan) : plan[i].name = plan[j].name => plan[i].tier = plan[j].tier
         /\ plan[i].name \in {"postgres", "nats"} \cup ClientNames => plan[i].tier < tierServer
         /\ ~plan[i].closes => plan[i].tier = tierStore
         /\ plan[i].name \notin {Nothing, Done}
<1>1. \A j \in 1 .. Len(plan) : plan[j] \in Steps
  BY DEF PlanKnown
<1>2. ASSUME NEW x \in Steps
      PROVE  \/ x.name = "postgres" /\ x.tier = 0
             \/ x.name = "schema" /\ x.tier = 0
             \/ x.name = "nats" /\ x.tier = 1
             \/ x.name \in ClientNames /\ x.tier = 2
             \/ x.name \in ServerNames /\ x.tier = 3
  <2>1. \A n, t : Step(n, t).name = n /\ Step(n, t).tier = t
    BY DEF Step
  <2>2. LET y == [Step("schema", tierStore) EXCEPT !.closes = FALSE]
        IN  y.name = "schema" /\ y.tier = 0
    BY DEF Step, tierStore
  <2>3. tierStore = 0 /\ tierBroker = 1 /\ tierClient = 2 /\ tierServer = 3
    BY DEF tierStore, tierBroker, tierClient, tierServer
  <2>4. CASE x \in StoreSteps
    <3>1. CASE x = Step("postgres", tierStore)  BY <2>1, <2>3, <3>1
    <3>2. CASE x = [Step("schema", tierStore) EXCEPT !.closes = FALSE]  BY <2>2, <3>2
    <3>. QED  BY <2>4, <3>1, <3>2 DEF StoreSteps
  <2>5. CASE x \in BrokerSteps
    BY <2>1, <2>3, <2>5 DEF BrokerSteps
  <2>6. CASE x \in ClientSteps
    BY <2>1, <2>3, <2>6 DEF ClientSteps
  <2>7. CASE x \in ServerSteps
    BY <2>1, <2>3, <2>7 DEF ServerSteps
  <2>. QED  BY <2>4, <2>5, <2>6, <2>7 DEF Steps
<1>6. ASSUME NEW x \in Steps, ~x.closes
      PROVE  x.tier = 0
  <2>1. \A n, t : Step(n, t).closes
    BY Zenon DEF Step
  <2>2. x \in StoreSteps
    BY <1>6, <2>1, Zenon DEF Steps, BrokerSteps, ClientSteps, ServerSteps
  <2>3. x = [Step("schema", tierStore) EXCEPT !.closes = FALSE]
    BY <1>6, <2>1, <2>2, Zenon DEF StoreSteps
  <2>. QED  BY <2>3 DEF Step, tierStore
<1>3. tierServer = 3 /\ tierStore = 0 /\ Nothing = "nothing" /\ Done = "done"
  BY DEF tierServer, tierStore, Nothing, Done
<1>4. ASSUME NEW x \in Steps
      PROVE  /\ x.tier \in 0 .. 3
             /\ x.name \in {"postgres", "nats"} \cup ClientNames => x.tier < 3
             /\ x.name \notin {"nothing", "done"}
  <2>1. x.name \notin {"nothing", "done"}  BY <1>2 DEF ClientNames, ServerNames
  <2>2. x.tier \in 0 .. 3  BY <1>2
  <2>3. x.name \in {"postgres", "nats"} \cup ClientNames => x.tier < 3
    <3>1. \A n \in ServerNames : n \notin {"postgres", "nats"} \cup ClientNames
      BY DEF ClientNames, ServerNames
    <3>2. 0 < 3 /\ 1 < 3 /\ 2 < 3  OBVIOUS
    <3>. QED  BY <1>2, <3>1, <3>2
  <2>. QED  BY <2>1, <2>2, <2>3
<1>5. \A x, y \in Steps : x.name = y.name => x.tier = y.tier
  BY <1>2 DEF ClientNames, ServerNames
<1>. QED  BY <1>1, <1>3, <1>4, <1>5, <1>6

\* The names of more steps are more, and so are their servers.
LEMMA NamesGrow ==
  ASSUME RunTypeOK, NEW n \in opened .. Len(plan)
  PROVE  /\ Names(opened) \subseteq Names(n)
         /\ Servers \subseteq {plan[i].name : i \in {j \in 1 .. n : plan[j].tier = tierServer}}
BY DEF RunTypeOK, Names, Servers

-----------------------------------------------------------------------------
(* What a step may do, sorted by what it changes.                          *)

\* Startup goes one step further.
OpensOne == phase = "starting" /\ opened < Len(plan) /\ Open

\* Startup gives up or is complete, or Run returns.
Turns ==
  /\ \/ phase = "starting" /\ phase' = "closing"
     \/ phase = "starting" /\ phase' = "running" /\ opened = Len(plan)
     \/ phase = "running" /\ phase' = "closing"
  /\ queue' = queue \/ Notify
  /\ UNCHANGED <<binary, plan, opened, stopping, current, closed, work, owed, worker, watch>>

\* The close of one dependency returns.
Shuts(s) ==
  /\ CloseReturns(s)
  /\ \/ s \in {"nats", "postgres", "alert client", "webhook client", "sender client"} /\ UNCHANGED cut
     \/ s = "alerts" /\ worker = "gone" /\ UNCHANGED cut
     \/ s \in Servers /\ Here(s) = {} /\ UNCHANGED cut
     \/ s \in ServerNames /\ cut' = cut \cup Here(s)
  /\ UNCHANGED <<inside, alerts, watch>>

Works == \E w \in Work : (\E s \in Servers : Arrive(w, s)) \/ Finish(w)

Watches == Check \/ Compare \/ AskReady \/ \E d \in Watched \cup {"disk"} : WorldChanges(d)

Pushes == Push \/ WorkerEnds \/ StopAlerts

\* Every step of Next is of one of these kinds.
LEMMA StepKinds ==
  ASSUME Next
  PROVE  \/ OpensOne \/ Turns \/ Signal \/ CloseBegins \/ Exit \/ \E s : Shuts(s)
         \/ Works \/ Watches \/ Pushes
<1>1. CASE OpenNext
  BY <1>1 DEF OpenNext, ConnectPostgres, ConnectNATS, OpenClient, StartConsumer, StartScheduler,
              StartGRPC, StartHTTP, NextOpen, OpensOne
<1>2. CASE PostgresUnreachable \/ NATSUnreachable \/ BuildFails
  BY <1>2 DEF PostgresUnreachable, NATSUnreachable, BuildFails, Abandon, Turns
<1>3. CASE Started \/ RunReturns
  <2>1. CASE Started
    BY <2>1 DEF Started, Turns
  <2>2. CASE RunReturns
    BY <2>2 DEF RunReturns, Turns, alerts
  <2>. QED  BY <1>3, <2>1, <2>2
<1>4. CASE Walk
  <2>1. CASE \E s \in Servers : Drained(s)
    BY <2>1 DEF Drained, Shuts, work
  <2>2. CASE CutCalls \/ StopsListening \/ StopsConsuming \/ StopsFiring
    BY <2>2 DEF CutCalls, StopsListening, StopsConsuming, StopsFiring, TimesOut, Shuts, ServerNames
  <2>3. CASE DrainNATS \/ ClosePostgres
    BY <2>3 DEF DrainNATS, ClosePostgres, Shuts, work
  <2>4. CASE CloseClient
    BY <2>4 DEF CloseClient, Shuts, work
  <2>5. CASE AlertsClose
    BY <2>5 DEF AlertsClose, Shuts, work
  <2>. QED  BY <1>4, <2>1, <2>2, <2>3, <2>4, <2>5 DEF Walk, Pushes
<1>. QED  BY <1>1, <1>2, <1>3, <1>4 DEF Next, Works, Watches, Pushes

\* What every step leaves alone: the plan stands, what was opened stays in the list,
\* and nothing is opened once startup is over.
LEMMA StepFrame ==
  ASSUME RunTypeOK, PlanKnown, [Next]_vars
  PROVE  /\ UNCHANGED <<binary, plan>>
         /\ opened' \in opened .. Len(plan)
         /\ opened' # opened => phase = "starting" /\ UNCHANGED <<phase, current, closed, work, alerts, watch>>
         /\ Names(opened) \subseteq Names(opened)'
         /\ Servers \subseteq Servers'
         /\ ToAsk \subseteq ToAsk'
<1>1. /\ UNCHANGED <<binary, plan>>
      /\ opened' \in {opened, opened + 1}
      /\ opened' # opened =>
           /\ phase = "starting" /\ opened < Len(plan)
           /\ UNCHANGED <<phase, current, closed, work, alerts, watch>>
  <2>1. CASE UNCHANGED vars
    BY <2>1 DEF vars, run
  <2>2. CASE OpensOne
    BY <2>2 DEF OpensOne, Open
  <2>3. CASE Turns \/ Signal \/ CloseBegins \/ Exit
    BY <2>3 DEF Turns, Signal, CloseBegins, Exit
  <2>4. CASE \E s : Shuts(s)
    BY <2>4 DEF Shuts, CloseReturns
  <2>5. CASE Works
    BY <2>5 DEF Works, Arrive, Finish, run
  <2>6. CASE Watches
    BY <2>6 DEF Watches, Check, Compare, AskReady, WorldChanges, run
  <2>7. CASE Pushes
    BY <2>7 DEF Pushes, Push, WorkerEnds, StopAlerts, run
  <2>. QED  BY <2>1, <2>2, <2>3, <2>4, <2>5, <2>6, <2>7, StepKinds
<1>2. opened' \in opened .. Len(plan)
  BY <1>1 DEF RunTypeOK, PlanKnown
<1>3. Names(opened) \subseteq Names(opened)'
  BY <1>1, <1>2 DEF Names, RunTypeOK
<1>4. Servers \subseteq Servers'
  BY <1>1, <1>2 DEF Servers, RunTypeOK
<1>. QED  BY <1>1, <1>2, <1>3, <1>4 DEF ToAsk

-----------------------------------------------------------------------------
(* The walk.                                                               *)

\* Only a step that is open is closed.
LEMMA ShutsWhat ==
  ASSUME PlanKnown, RunTypeOK, NEW s, Shuts(s)
  PROVE  s \in Names(opened)
<1>1. s = current
  BY DEF Shuts, CloseReturns
<1>2. Servers \subseteq Names(opened)
  BY DEF Servers, Names
<1>3. s \in Servers \/ s \in ServerNames
      \/ s \in {"alerts", "nats", "postgres", "alert client", "webhook client", "sender client"}
  BY DEF Shuts
<1>4. s \notin Servers => s # Nothing
  BY <1>3 DEF ServerNames, Nothing
<1>. QED  BY <1>1, <1>2, <1>4 DEF RunTypeOK

\* Only what was opened is being closed or is closed.
LEMMA RunTypeStep ==
  ASSUME PlanKnown, RunTypeOK, [Next]_vars
  PROVE  PlanKnown' /\ RunTypeOK'
<1>1. PlanKnown'
  BY StepFrame DEF PlanKnown
<1>2. binary' \in Binaries /\ opened' \in 0 .. Len(plan')
  BY StepFrame DEF RunTypeOK
<1>3. /\ phase' \in {"starting", "running", "closing", "down", "panicked"}
      /\ stopping' \in BOOLEAN
      /\ closed' \subseteq Names(opened)
      /\ current' \in Names(opened) \cup {Nothing}
  <2>1. CASE UNCHANGED vars
    BY <2>1 DEF vars, run, RunTypeOK
  <2>2. CASE OpensOne
    BY <2>2 DEF OpensOne, Open, RunTypeOK
  <2>3. CASE Turns \/ Signal \/ Exit
    BY <2>3 DEF Turns, Signal, Exit, RunTypeOK
  <2>4. CASE CloseBegins
    <3>1. PICK i \in Left :
             /\ current' = IF plan[i].closes THEN plan[i].name ELSE Nothing
             /\ phase' = IF plan[i].closes THEN phase ELSE "panicked"
      BY <2>4 DEF CloseBegins
    <3>. QED  BY <2>4, <3>1 DEF CloseBegins, RunTypeOK, Names, Left
  <2>5. CASE \E s : Shuts(s)
    <3>1. PICK s : Shuts(s)
      BY <2>5
    <3>2. s \in Names(opened)
      BY <3>1, ShutsWhat
    <3>. QED  BY <3>1, <3>2 DEF Shuts, CloseReturns, RunTypeOK
  <2>6. CASE Works
    BY <2>6 DEF Works, Arrive, Finish, run, RunTypeOK
  <2>7. CASE Watches
    BY <2>7 DEF Watches, Check, Compare, AskReady, WorldChanges, run, RunTypeOK
  <2>8. CASE Pushes
    BY <2>8 DEF Pushes, Push, WorkerEnds, StopAlerts, run, RunTypeOK
  <2>. QED  BY <2>1, <2>2, <2>3, <2>4, <2>5, <2>6, <2>7, <2>8, StepKinds
<1>. QED  BY <1>1, <1>2, <1>3, StepFrame DEF RunTypeOK

\* Close goes down the tiers: it begins with the highest that is left, and a step
\* without a close (the check of the schema) ends the process at the lowest.
LEMMA WalkStep ==
  ASSUME PlanKnown, RunTypeOK, WalkInOrder, [Next]_vars
  PROVE  WalkInOrder'
<1>. DEFINE InOrder == \A i, j \in 1 .. opened :
              plan[i].name \in Passed /\ plan[j].name \notin closed => plan[i].tier >= plan[j].tier
            Begun == phase \in {"starting", "running"} => closed = {} /\ current = Nothing
            Ended == phase \in {"down", "panicked"} =>
                       \A j \in 1 .. opened : plan[j].tier = tierServer => plan[j].name \in closed
<1>a. opened \in 0 .. Len(plan) /\ Len(plan) \in Nat
  BY DEF RunTypeOK, PlanKnown
<1>b. \A i \in 1 .. opened : plan[i].name # Nothing /\ plan[i].tier \in 0 .. 3
  BY <1>a, StepFacts
<1>c. \A i, j \in 1 .. opened : plan[i].name = plan[j].name => plan[i].tier = plan[j].tier
  BY <1>a, StepFacts
<1>1. CASE UNCHANGED run
  BY <1>1 DEF WalkInOrder, Passed, run
<1>2. CASE OpensOne
  <2>1. PlanKnown' /\ opened' \in 0 .. Len(plan') /\ UNCHANGED <<plan, phase, current, closed>>
    BY <1>2, RunTypeStep DEF RunTypeOK, OpensOne, Open
  <2>2. \A i \in 1 .. opened' : plan'[i].name # Nothing
    BY <2>1, StepFacts DEF PlanKnown
  <2>3. phase = "starting" /\ closed = {} /\ current = Nothing
    BY <1>2 DEF OpensOne, WalkInOrder
  <2>. QED  BY <2>1, <2>2, <2>3 DEF WalkInOrder, Passed
<1>3. CASE Turns \/ Signal
  BY <1>3 DEF Turns, Signal, WalkInOrder, Passed
<1>4. CASE CloseBegins
  <2>1. PICK i \in Left :
           /\ NextToClose(i)
           /\ current' = IF plan[i].closes THEN plan[i].name ELSE Nothing
           /\ phase' = IF plan[i].closes THEN phase ELSE "panicked"
    BY <1>4 DEF CloseBegins
  <2>2. /\ phase = "closing" /\ current = Nothing
        /\ UNCHANGED <<plan, opened, closed>>
    BY <1>4 DEF CloseBegins
  <2>3. \A j \in 1 .. opened : plan[j].name \notin closed => plan[i].tier >= plan[j].tier
    <3>1. i \in 1 .. opened /\ \A j \in Left : plan[i].tier > plan[j].tier \/ plan[i].tier = plan[j].tier
      BY <2>1 DEF NextToClose, Left
    <3>2. \A j \in 1 .. opened : plan[j].name \notin closed => j \in Left
      BY DEF Left
    <3>. QED  BY <1>b, <3>1, <3>2
  <2>4. InOrder'
    <3>1. ASSUME NEW k \in 1 .. opened, NEW j \in 1 .. opened,
                 plan[k].name \in closed \cup {current'}, plan[j].name \notin closed
          PROVE  plan[k].tier >= plan[j].tier
      <4>1. CASE plan[k].name \in closed
        BY <3>1, <4>1 DEF WalkInOrder, Passed
      <4>2. CASE plan[k].name = current'
        <5>1. i \in 1 .. opened /\ plan[k].name = plan[i].name
          BY <1>b, <2>1, <4>2 DEF Left
        <5>2. plan[k].tier = plan[i].tier  BY <1>c, <5>1
        <5>. QED  BY <2>3, <3>1, <5>2
      <4>. QED  BY <3>1, <4>1, <4>2
    <3>. QED  BY <2>2, <3>1 DEF Passed
  <2>5. Begun'
    BY <2>1, <2>2
  <2>6. Ended'
    <3>1. CASE plan[i].closes
      BY <2>1, <2>2, <3>1
    <3>2. CASE ~plan[i].closes
      <4>1. plan[i].tier = 0
        BY <1>a, <2>1, <3>2, StepFacts DEF Left, tierStore
      <4>2. \A j \in 1 .. opened : plan[j].tier = tierServer => plan[j].name \in closed
        BY <1>b, <2>3, <4>1 DEF tierServer
      <4>. QED  BY <2>2, <4>2
    <3>. QED  BY <3>1, <3>2
  <2>. QED  BY <2>4, <2>5, <2>6 DEF WalkInOrder
<1>5. CASE Exit
  BY <1>5 DEF Exit, WalkInOrder, Passed, Left
<1>6. CASE \E s : Shuts(s)
  <2>1. PICK s : CloseReturns(s)
    BY <1>6 DEF Shuts
  <2>2. /\ phase = "closing" /\ current = s /\ closed' = closed \cup {s} /\ current' = Nothing
        /\ UNCHANGED <<plan, phase, opened>>
    BY <2>1 DEF CloseReturns
  <2>3. InOrder'
    BY <1>b, <2>2 DEF WalkInOrder, Passed
  <2>. QED  BY <2>2, <2>3 DEF WalkInOrder
<1>7. CASE Works \/ Watches \/ Pushes
  <2>1. UNCHANGED run
    BY <1>7 DEF Works, Arrive, Finish, Watches, Check, Compare, AskReady, WorldChanges,
                Pushes, Push, WorkerEnds, StopAlerts
  <2>. QED  BY <1>1, <2>1
<1>. QED  BY <1>1, <1>2, <1>3, <1>4, <1>5, <1>6, <1>7, StepKinds DEF vars

-----------------------------------------------------------------------------
(* The work that came in.                                                  *)

\* A store, a broker or a client is no server.
LEMMA ServersApart ==
  ASSUME PlanKnown, RunTypeOK
  PROVE  Servers \cap ({"postgres", "nats"} \cup ClientNames) = {}
<1>1. \A i \in 1 .. opened :
         plan[i].name \in {"postgres", "nats"} \cup ClientNames => plan[i].tier # tierServer
  BY StepFacts DEF RunTypeOK, PlanKnown, tierServer
<1>. QED  BY <1>1 DEF Servers

\* A server lets work in only before it closes, and closes when its work is done or
\* is no longer waited for.
LEMMA WorkStep ==
  ASSUME PlanKnown, RunTypeOK, WorkTypeOK, ServersEmptied, [Next]_vars
  PROVE  WorkTypeOK' /\ ServersEmptied'
<1>a. \A i \in 1 .. opened : plan[i].name \notin {Nothing, Done}
  BY StepFacts DEF RunTypeOK, PlanKnown
<1>c. {Nothing, Done} \cap Names(opened) = {} /\ Servers \subseteq Names(opened)
  BY <1>a DEF Names, Servers
<1>d. Servers \cap ({"postgres", "nats"} \cup ClientNames) = {}
  BY ServersApart
<1>e. inside' \in [Work -> Servers \cup {Nothing, Done}] => inside' \in [Work -> Servers' \cup {Nothing, Done}]
  BY StepFrame
<1>1. CASE UNCHANGED <<work, closed>>
  BY <1>1, <1>e DEF WorkTypeOK, ServersEmptied, work
<1>2. CASE OpensOne \/ Turns \/ Signal \/ CloseBegins \/ Exit
  BY <1>1, <1>2 DEF OpensOne, Open, Turns, Signal, CloseBegins, Exit
<1>3. CASE \E s : Shuts(s)
  <2>1. PICK s : Shuts(s)
    BY <1>3
  <2>2. closed' = closed \cup {s} /\ UNCHANGED inside
    BY <2>1 DEF Shuts, CloseReturns
  <2>3. cut \subseteq cut' /\ cut' \subseteq Work
    BY <2>1 DEF Shuts, WorkTypeOK, Here
  <2>4. ASSUME NEW w \in Work, inside[w] = s
        PROVE  w \in cut'
    <3>1. inside[w] \in Servers
      BY <1>c, <2>1, <2>4, ShutsWhat DEF WorkTypeOK
    <3>2. w \in Here(s)
      BY <2>4 DEF Here
    <3>. QED  BY <1>d, <2>1, <2>4, <3>1, <3>2 DEF Shuts, ClientNames
  <2>. QED  BY <1>e, <2>2, <2>3, <2>4 DEF WorkTypeOK, ServersEmptied
<1>4. CASE Works
  <2>1. PICK w \in Work : (\E s \in Servers : Arrive(w, s)) \/ Finish(w)
    BY <1>4 DEF Works
  <2>2. CASE \E s \in Servers : Arrive(w, s)
    <3>1. PICK s \in Servers : Arrive(w, s)
      BY <2>2
    <3>2. s \notin closed /\ inside' = [inside EXCEPT ![w] = s] /\ UNCHANGED <<cut, closed>>
      BY <3>1 DEF Arrive, IsOpen, run
    <3>. QED  BY <1>e, <3>2 DEF WorkTypeOK, ServersEmptied
  <2>3. CASE Finish(w)
    <3>1. inside' = [inside EXCEPT ![w] = Done] /\ cut' = cut \ {w} /\ UNCHANGED closed
      BY <2>3 DEF Finish, run
    <3>2. Done \notin closed
      BY <1>c DEF RunTypeOK
    <3>. QED  BY <1>e, <3>1, <3>2 DEF WorkTypeOK, ServersEmptied
  <2>. QED  BY <2>1, <2>2, <2>3
<1>5. CASE Watches \/ Pushes
  <2>1. UNCHANGED <<work, closed>>
    BY <1>5 DEF Watches, Check, Compare, AskReady, WorldChanges, Pushes, Push, WorkerEnds, StopAlerts, run
  <2>. QED  BY <1>1, <2>1
<1>. QED  BY <1>1, <1>2, <1>3, <1>4, <1>5, StepKinds DEF vars, run

-----------------------------------------------------------------------------
(* The alerts.                                                             *)

\* Notify never takes anything out of the queue, nor puts in more than fits.
LEMMA NotifyQueues ==
  ASSUME queue \in 0 .. QueueSize, Notify
  PROVE  queue' \in queue .. QueueSize
BY LifecycleAssumption DEF Notify

\* The worker pushes what is owed before it ends, and Alerter.Close waits for it.
LEMMA AlertsStep ==
  ASSUME PlanKnown, RunTypeOK, AlertsTypeOK, OwedIsQueued, [Next]_vars
  PROVE  AlertsTypeOK' /\ OwedIsQueued'
<1>0. QueueSize \in Nat  BY LifecycleAssumption
<1>1. CASE UNCHANGED <<alerts, closed>>
  BY <1>1 DEF AlertsTypeOK, OwedIsQueued, alerts
<1>2. CASE queue' \in queue .. QueueSize /\ UNCHANGED <<owed, worker, closed>>
  BY <1>0, <1>2 DEF AlertsTypeOK, OwedIsQueued
<1>3. CASE Turns
  <2>1. queue' \in queue .. QueueSize
    BY <1>3, NotifyQueues DEF Turns, AlertsTypeOK
  <2>. QED  BY <1>2, <1>3, <2>1 DEF Turns
<1>4. CASE OpensOne \/ Signal \/ CloseBegins \/ Exit
  BY <1>1, <1>4 DEF OpensOne, Open, Signal, CloseBegins, Exit
<1>5. CASE \E s : Shuts(s)
  <2>1. PICK s : Shuts(s)
    BY <1>5
  <2>2. closed' = closed \cup {s} /\ UNCHANGED <<queue, owed, worker>>
    BY <2>1 DEF Shuts, CloseReturns, alerts
  <2>3. s = "alerts" => worker = "gone"
    <3>1. "alerts" \notin Servers
      BY ServersApart DEF ClientNames
    <3>. QED  BY <2>1, <3>1 DEF Shuts, ServerNames
  <2>. QED  BY <2>2, <2>3 DEF AlertsTypeOK, OwedIsQueued
<1>6. CASE Works
  BY <1>1, <1>6 DEF Works, Arrive, Finish, run
<1>7. CASE Watches
  <2>1. CASE Check
    BY <1>2, <2>1, NotifyQueues DEF Check, AlertsTypeOK, run
  <2>2. CASE Compare
    <3>1. Cardinality(News) \in Nat
      <4>1. IsFiniteSet(Watched)
        <5>1. Watched = ({"postgres"} \cup {"schema"}) \cup {"nats"}
          BY DEF Watched
        <5>. QED  BY <5>1, FS_Singleton, FS_AddElement
      <4>. QED  BY <4>1, FS_Subset, FS_CardinalityType DEF News, ToAsk
    <3>2. queue' \in queue .. QueueSize
      BY <1>0, <2>2, <3>1 DEF Compare, AlertsTypeOK
    <3>. QED  BY <1>2, <2>2, <3>2 DEF Compare, run
  <2>3. CASE AskReady \/ \E d \in Watched \cup {"disk"} : WorldChanges(d)
    BY <1>1, <2>3 DEF AskReady, WorldChanges, run
  <2>. QED  BY <1>7, <2>1, <2>2, <2>3 DEF Watches
<1>8. CASE Pushes
  <2>1. CASE Push
    BY <1>0, <2>1 DEF Push, AlertsTypeOK, OwedIsQueued, run
  <2>2. CASE WorkerEnds
    BY <1>0, <2>2 DEF WorkerEnds, AlertsTypeOK, OwedIsQueued, run
  <2>3. CASE StopAlerts
    BY <1>0, <2>3 DEF StopAlerts, AlertsTypeOK, OwedIsQueued, run
  <2>. QED  BY <1>8, <2>1, <2>2, <2>3 DEF Pushes
<1>. QED  BY <1>1, <1>3, <1>4, <1>5, <1>6, <1>7, <1>8, StepKinds DEF vars, run

-----------------------------------------------------------------------------
(* The looks.                                                              *)

\* The canceled context stays canceled, and what is closed stays closed.
LEMMA OvertakenStays ==
  ASSUME PlanKnown, RunTypeOK, [Next]_vars, NEW d \in Watched, Overtaken(d)
  PROVE  Overtaken(d)'
<1>1. Needs(d) \subseteq Watched /\ Nothing \notin Watched
  BY DEF Needs, Watched, Nothing
<1>2. /\ stopping => stopping'
      /\ (closed \cup {current}) \ {Nothing} \subseteq closed' \cup {current'}
  <2>1. CASE UNCHANGED run
    BY <2>1 DEF run
  <2>2. CASE OpensOne
    BY <2>2 DEF OpensOne, Open
  <2>3. CASE Turns \/ Signal \/ Exit
    BY <2>3 DEF Turns, Signal, Exit
  <2>4. CASE CloseBegins
    BY <2>4 DEF CloseBegins
  <2>5. CASE \E s : Shuts(s)
    <3>1. PICK s : CloseReturns(s)
      BY <2>5 DEF Shuts
    <3>2. current = s /\ closed' = closed \cup {s} /\ UNCHANGED stopping
      BY <3>1 DEF CloseReturns
    <3>. QED  BY <3>2
  <2>6. CASE Works \/ Watches \/ Pushes
    BY <2>1, <2>6 DEF Works, Arrive, Finish, Watches, Check, Compare, AskReady, WorldChanges,
                      Pushes, Push, WorkerEnds, StopAlerts
  <2>. QED  BY <2>1, <2>2, <2>3, <2>4, <2>5, <2>6, StepKinds DEF vars
<1>3. Needs(d)' = Needs(d)
  BY DEF Needs
<1>. QED  BY <1>1, <1>2, <1>3, Zenon DEF Overtaken

\* A dependency is up or down.
LEMMA HealthHolds == \A d : Health(d) \in {"up", "down"}
BY DEF Health

\* An answer is how the dependency is, or the look is overtaken.
LEMMA PingIsTrue ==
  ASSUME NEW d, ~Overtaken(d)
  PROVE  (IF Ping(d) THEN "up" ELSE "down") = Health(d)
BY HealthHolds DEF Ping

\* A step that leaves the watcher alone leaves what it knows true.
LEMMA WatchKept ==
  ASSUME PlanKnown, RunTypeOK, WatchTypeOK, LooksAreTrue, [Next]_vars,
         UNCHANGED <<up, asked, down, seen, been>>, low' \in BOOLEAN, UNCHANGED changes
  PROVE  WatchTypeOK' /\ LooksAreTrue'
<1>1. WatchTypeOK'
  <2>1. ToAsk \subseteq ToAsk'
    BY StepFrame
  <2>. QED  BY <2>1 DEF WatchTypeOK
<1>2. \A d \in Watched : Health(d)' = Health(d)
  BY DEF Health, Needs
<1>. QED  BY <1>1, <1>2, OvertakenStays DEF LooksAreTrue

\* Each question is answered by how things are at its moment, and the next look starts
\* from there.
LEMMA WatchStep ==
  ASSUME PlanKnown, RunTypeOK, WatchTypeOK, LooksAreTrue, [Next]_vars
  PROVE  WatchTypeOK' /\ LooksAreTrue'
<1>0. MaxNews \in Nat /\ Unknown \in Healths /\ {"up", "down"} \subseteq Healths
  BY LifecycleAssumption DEF Healths, Unknown
<1>1. CASE UNCHANGED watch
  BY <1>1, WatchKept DEF watch, WatchTypeOK
<1>2. CASE OpensOne \/ Turns \/ Signal \/ CloseBegins \/ Exit \/ \E s : Shuts(s)
  BY <1>1, <1>2 DEF OpensOne, Open, Turns, Signal, CloseBegins, Exit, Shuts
<1>3. CASE Works \/ Pushes
  BY <1>1, <1>3 DEF Works, Arrive, Finish, Pushes, Push, WorkerEnds, StopAlerts
<1>4. CASE Check
  <2>1. low' \in BOOLEAN /\ UNCHANGED <<up, changes, asked, down, seen, been>>
    BY <1>4 DEF Check
  <2>. QED  BY <2>1, WatchKept
<1>5. CASE Compare
  <2>1. /\ down' = [d \in Watched |-> IF d \in ToAsk THEN asked[d] ELSE down[d]]
        /\ seen' = TRUE
        /\ asked' = [d \in Watched |-> Unknown]
        /\ been' = [d \in Watched |-> {Health(d)}]
        /\ UNCHANGED <<run, up, changes, low>>
    BY <1>5 DEF Compare
  <2>2. ToAsk' = ToAsk
    BY <2>1 DEF run, ToAsk, Names
  <2>3. been' \in [Watched -> SUBSET {"up", "down"}]
    BY <2>1, HealthHolds
  <2>4. WatchTypeOK'
    BY <1>0, <2>1, <2>2, <2>3 DEF WatchTypeOK
  <2>5. \A d \in Watched : Health(d)' = Health(d)
    BY <2>1 DEF Health, Needs
  <2>. QED  BY <2>1, <2>4, <2>5 DEF LooksAreTrue
<1>6. CASE AskReady
  <2>1. PICK i \in 1 .. opened :
           /\ plan[i].name \in ToAsk
           /\ asked' = [asked EXCEPT ![plan[i].name] = IF Ping(plan[i].name) THEN "up" ELSE "down"]
    BY <1>6 DEF AskReady
  <2>2. UNCHANGED <<run, up, changes, down, seen, low, been>>
    BY <1>6 DEF AskReady
  <2>3. ToAsk' = ToAsk /\ ToAsk \subseteq Watched
    BY <2>2 DEF run, ToAsk, Names
  <2>4. WatchTypeOK'
    BY <1>0, <2>1, <2>2, <2>3 DEF WatchTypeOK
  <2>5. ASSUME NEW d \in Watched
        PROVE  /\ asked'[d] = Unknown \/ asked'[d] \in been[d] \/ Overtaken(d)
               /\ Health(d) \in been[d]
    <3>1. CASE d = plan[i].name
      <4>1. asked'[d] = IF Ping(d) THEN "up" ELSE "down"
        BY <2>1, <3>1 DEF WatchTypeOK
      <4>. QED  BY <4>1, PingIsTrue DEF LooksAreTrue
    <3>2. CASE d # plan[i].name
      BY <2>1, <3>2 DEF WatchTypeOK, LooksAreTrue
    <3>. QED  BY <3>1, <3>2
  <2>6. \A d \in Watched : Health(d)' = Health(d)
    BY <2>2 DEF Health, Needs
  <2>. QED  BY <2>2, <2>4, <2>5, <2>6, OvertakenStays DEF LooksAreTrue
<1>7. CASE \E d \in Watched \cup {"disk"} : WorldChanges(d)
  <2>1. PICK d \in Watched \cup {"disk"} : WorldChanges(d)
    BY <1>7
  <2>2. /\ changes < MaxNews /\ changes' = changes + 1 /\ up' = [up EXCEPT ![d] = ~@]
        /\ been' = [x \in Watched |-> been[x] \cup {Health(x)'}]
        /\ UNCHANGED <<run, asked, down, seen, low>>
    BY <2>1 DEF WorldChanges
  <2>3. changes' \in 1 .. MaxNews /\ up' \in [Watched \cup {"disk"} -> BOOLEAN] /\ ToAsk' = ToAsk
    BY <1>0, <2>2 DEF WatchTypeOK, run, ToAsk, Names
  <2>4. \A x \in Watched : Health(x)' \in {"up", "down"}
    BY DEF Health
  <2>5. been' \in [Watched -> SUBSET {"up", "down"}]
    BY <2>2, <2>4 DEF WatchTypeOK
  <2>6. WatchTypeOK'
    BY <2>2, <2>3, <2>5 DEF WatchTypeOK
  <2>7. \A x \in Watched : been[x] \subseteq been'[x] /\ Health(x)' \in been'[x]
    BY <2>2
  <2>. QED  BY <2>2, <2>6, <2>7, OvertakenStays DEF LooksAreTrue
<1>. QED  BY <1>1, <1>2, <1>3, <1>4, <1>5, <1>6, <1>7, StepKinds DEF vars, Watches

-----------------------------------------------------------------------------
(* The theorems.                                                           *)

\* A process starts with nothing open, nothing inside and nothing told.
LEMMA LifecycleInitInv == Init => LifecycleInv
<1>. SUFFICES ASSUME Init PROVE LifecycleInv
  OBVIOUS
<1>1. PlanKnown
  <2>1. binary \in {"gateway", "dispatcher", "console", "migrate"}
    BY LifecycleAssumption DEF Init
  <2>. QED  BY <2>1, PlansAreSteps DEF Init, PlanKnown
<1>2. RunTypeOK
  <2>1. opened \in 0 .. Len(plan)
    BY <1>1 DEF Init, PlanKnown
  <2>2. /\ binary \in Binaries /\ phase = "starting" /\ stopping = FALSE
        /\ closed = {} /\ current = Nothing
    BY DEF Init
  <2>. QED  BY <2>1, <2>2 DEF RunTypeOK
<1>3. WorkTypeOK /\ ServersEmptied
  BY DEF Init, WorkTypeOK, ServersEmptied
<1>4. AlertsTypeOK /\ OwedIsQueued
  BY LifecycleAssumption DEF Init, AlertsTypeOK, OwedIsQueued
<1>5. WatchTypeOK
  <2>1. up \in [Watched \cup {"disk"} -> BOOLEAN]
    BY Zenon DEF Init
  <2>2. changes \in 0 .. MaxNews
    BY LifecycleAssumption DEF Init
  <2>4. seen \in BOOLEAN /\ low \in BOOLEAN
    BY Zenon DEF Init
  <2>3. /\ asked = [d \in Watched |-> Unknown] /\ down = [d \in Watched |-> Unknown]
        /\ been = [d \in Watched |-> {"up"}] /\ Unknown \in Healths
    BY DEF Init, Healths
  <2>. QED  BY <2>1, <2>2, <2>3, <2>4 DEF WatchTypeOK
<1>6. WalkInOrder
  BY DEF Init, WalkInOrder
<1>7. LooksAreTrue
  <2>1. \A d \in Watched : Health(d) = "up"
    BY DEF Init, Health, Needs, Watched
  <2>. QED  BY <2>1 DEF Init, LooksAreTrue
<1>. QED  BY <1>1, <1>2, <1>3, <1>4, <1>5, <1>6, <1>7 DEF LifecycleInv, TypeOK

\* The inductive invariant holds at every moment of every process.
THEOREM LifecycleInvariance == Spec => []LifecycleInv
<1>1. LifecycleInv /\ [Next]_vars => LifecycleInv'
  BY RunTypeStep, WalkStep, WorkStep, AlertsStep, WatchStep DEF LifecycleInv, TypeOK
<1>. QED  BY <1>1, LifecycleInitInv, PTL DEF Spec

\* TypeOK, for every set of binaries and of work, every queue and any number of
\* changes: only what was opened is closed, serves or is asked.
THEOREM LifecycleTypeCorrect == Spec => []TypeOK
<1>1. LifecycleInv => TypeOK
  BY DEF LifecycleInv
<1>. QED  BY <1>1, LifecycleInvariance, PTL

\* When the pool or the broker is closed, or the process is gone, no work is left
\* but what its own server stopped waiting for (Registry.Close): whatever binaries
\* run, however much work is in flight and whenever the signal comes.
THEOREM ServedUntilTheEnd == Spec => []ServedToTheEnd
<1>1. LifecycleInv => ServedToTheEnd
  <2>. SUFFICES ASSUME LifecycleInv,
                       {"postgres", "nats"} \cap closed # {} \/ phase \in {"down", "panicked"},
                       NEW w \in Work, inside[w] \in Servers
                PROVE  w \in cut
    BY DEF LifecycleInv, TypeOK, WorkTypeOK, ServedToTheEnd
  <2>1. PICK j \in 1 .. opened : plan[j].tier = tierServer /\ plan[j].name = inside[w]
    BY DEF Servers
  <2>2. plan[j].name \in closed
    <3>1. CASE phase \in {"down", "panicked"}
      BY <2>1, <3>1 DEF LifecycleInv, WalkInOrder
    <3>2. CASE {"postgres", "nats"} \cap closed # {}
      <4>1. PICK i \in 1 .. opened : plan[i].name \in {"postgres", "nats"} /\ plan[i].name \in closed
        BY <3>2 DEF LifecycleInv, TypeOK, RunTypeOK, Names
      <4>2. plan[i].tier < tierServer /\ plan[i].tier \in 0 .. 3
        BY <4>1, StepFacts DEF LifecycleInv, TypeOK, RunTypeOK, PlanKnown
      <4>. QED  BY <2>1, <4>1, <4>2 DEF LifecycleInv, WalkInOrder, Passed, tierServer
    <3>. QED  BY <3>1, <3>2
  <2>. QED  BY <2>1, <2>2 DEF LifecycleInv, ServersEmptied
<1>. QED  BY <1>1, LifecycleInvariance, PTL

\* What is queued when shutdown reaches the channel is pushed before it goes on
\* (Alerter.Close), and what a look finds was so at some moment since the last look,
\* unless shutdown overtook it (Resources.Ready, watcher.compare): for every queue,
\* any work and however often dependencies go up and down.
THEOREM AlertsAlwaysTrue == Spec => []AlertsAreTrue
<1>1. LifecycleInv => AlertsAreTrue
  BY DEF LifecycleInv, OwedIsQueued, LooksAreTrue, AlertsAreTrue
<1>. QED  BY <1>1, LifecycleInvariance, PTL

-----------------------------------------------------------------------------
(* RateLimit: for every number of sources and calls, every quota and every *)
(* sweep interval.                                                         *)

\* A bucket holds at least one call: NewMemory refuses a quota of zero.
LEMMA FullHolds == Full \in Nat /\ Full >= Unit /\ Unit \in Nat /\ Unit > 0
<1>1. Unit \in Nat /\ Unit > 0 /\ Burst \in Nat /\ Burst >= 1
  BY LimitAssumption
<1>2. PICK b \in Nat : Burst = b + 1
  <2>1. Burst - 1 \in Nat /\ Burst = (Burst - 1) + 1
    BY <1>1
  <2> QED BY <2>1
<1>3. b * Unit \in Nat
  BY <1>1, <1>2
<1>4. Full = b * Unit + Unit
  BY <1>1, <1>2 DEF Full
<1> QED BY <1>1, <1>3, <1>4

\* What TokensAt and Found return is between empty and full (rate.Limiter).
LEMMA FoundHolds ==
  ASSUME LimitTypeOK, NEW s \in Sources, NEW t \in Int
  PROVE  TokensAt(s, t) \in 0..Full /\ Found(s, t) \in 0..Full
<1>1. tokens[s] \in 0..Full /\ last[s] \in Int /\ Full \in Nat
  BY FullHolds DEF LimitTypeOK
<1>2. Excess(t, last[s]) \in Nat
  BY <1>1 DEF Excess
<1>3. TokensAt(s, t) \in 0..Full
  BY <1>1, <1>2 DEF TokensAt, AtMost
<1> QED BY <1>1, <1>3 DEF Found

\* The limiter starts balanced.
LEMMA InitBalanced == LimitInit => LimitTypeOK /\ Balance
<1>1. Full \in Nat /\ 0 \in 0..Full
  BY FullHolds
<1> QED BY <1>1, LimitAssumption DEF LimitInit, LimitTypeOK, Balance

\* Calls and ticks keep the types.
LEMMA LimitTypeStep == LimitTypeOK /\ [LimitNext]_limitVars => LimitTypeOK'
<1> SUFFICES ASSUME LimitTypeOK, [LimitNext]_limitVars PROVE LimitTypeOK'
  OBVIOUS
<1>1. CASE Tick
  BY <1>1 DEF Tick, LimitTypeOK, buckets, calls, ghosts
<1>2. ASSUME NEW c \in Callers, NEW s \in Sources, Ask(c, s) PROVE LimitTypeOK'
  BY <1>2 DEF Ask, LimitTypeOK, buckets, ghosts
<1>3. ASSUME NEW c \in Callers, Allow(c) PROVE LimitTypeOK'
  <2> DEFINE s == asking[c]  t == reading[c]  gone == Swept(t)
  <2>1. s \in Sources /\ t \in 0..now /\ now \in Nat /\ now' = now
    BY <1>3 DEF Allow, LimitTypeOK
  <2>2. gone \subseteq Sources
    BY DEF Swept, LimitTypeOK
  <2>0. heard' \in 0..now' /\ heard' >= heard /\ heard' >= t /\ heard \in Nat
    BY <1>3, <2>1 DEF Allow, LimitTypeOK
  <2>3. lastSweep' \in 0..heard' /\ known' \subseteq Sources
    BY <1>3, <2>0, <2>1, <2>2 DEF Allow, Sweep, LimitTypeOK
  <2>4. asking' \in [Callers -> Sources \cup {NoSource}] /\ reading' \in [Callers -> 0..now']
    BY <1>3, <2>1 DEF Allow, LimitTypeOK
  <2>5. Found(s, t) \in 0..Full /\ Full \in Nat /\ Unit \in Nat /\ Unit > 0
    BY <2>1, FoundHolds, FullHolds
  <2>6. \A X \in SUBSET Sources : SetBack(X, t) => slack' \in [Sources -> Nat]
    <3>1. \A x \in Sources : Clock(x) \in Int /\ slack[x] \in Nat
      BY <2>1 DEF Clock, LimitTypeOK
    <3> QED BY <2>1, <3>1 DEF SetBack, Excess
  <2>7. Keep(tokens, gone) \in [Sources -> 0..Full] /\ Keep(last, gone) \in [Sources -> 0..heard']
    BY <2>0, <2>5 DEF Keep, LimitTypeOK
  <2>8. CASE Enough(s, t)
    <3>1. /\ tokens' = [Keep(tokens, gone) EXCEPT ![s] = Found(s, t) - Unit]
          /\ last' = [Keep(last, gone) EXCEPT ![s] = t]
          /\ spent' = [spent EXCEPT ![s] = @ + Unit]
          /\ SetBack(gone \cup {s}, t)
          /\ UNCHANGED refused
      BY <1>3, <2>8 DEF Allow
    <3>2. Found(s, t) - Unit \in 0..Full
      BY <2>5, <2>8 DEF Enough
    <3>3. tokens' \in [Sources -> 0..Full] /\ last' \in [Sources -> 0..heard']
      BY <2>0, <2>1, <2>7, <3>1, <3>2
    <3>4. spent' \in [Sources -> Nat] /\ refused' \in [Sources -> BOOLEAN]
      BY <2>1, <2>5, <3>1 DEF LimitTypeOK
    <3>5. slack' \in [Sources -> Nat]
      BY <2>1, <2>2, <2>6, <3>1
    <3> QED BY <2>0, <2>1, <2>3, <2>4, <3>3, <3>4, <3>5 DEF LimitTypeOK
  <2>9. CASE ~Enough(s, t)
    <3>1. /\ tokens' = Keep(tokens, gone)
          /\ last' = Keep(last, gone)
          /\ SetBack(gone, t)
          /\ refused' = [refused EXCEPT ![s] = ~@]
          /\ UNCHANGED spent
      BY <1>3, <2>9 DEF Allow
    <3>2. slack' \in [Sources -> Nat]
      BY <2>2, <2>6, <3>1
    <3>3. refused' \in [Sources -> BOOLEAN]
      BY <2>1, <3>1, Zenon DEF LimitTypeOK
    <3> QED BY <2>0, <2>1, <2>3, <2>4, <2>7, <3>1, <3>2, <3>3 DEF LimitTypeOK
  <2> QED BY <2>8, <2>9
<1>4. CASE UNCHANGED limitVars
  BY <1>4 DEF LimitTypeOK, limitVars, buckets, calls, ghosts
<1> QED BY <1>1, <1>2, <1>3, <1>4 DEF LimitNext

\* A call keeps the balance of every source: of the one it is for, of the ones the
\* sweep drops, and of the others.
LEMMA BalanceStep == LimitTypeOK /\ Balance /\ [LimitNext]_limitVars => Balance'
<1> SUFFICES ASSUME LimitTypeOK, Balance, [LimitNext]_limitVars PROVE Balance'
  OBVIOUS
<1>1. CASE Tick
  BY <1>1 DEF Tick, Balance, buckets, calls, ghosts
<1>2. ASSUME NEW c \in Callers, NEW s \in Sources, Ask(c, s) PROVE Balance'
  BY <1>2 DEF Ask, Balance, buckets, ghosts
<1>3. ASSUME NEW c \in Callers, Allow(c) PROVE Balance'
  <2> DEFINE s == asking[c]  t == reading[c]  gone == Swept(t)
             Bal(x) == IF x \in known' THEN spent'[x] + tokens'[x] <= Full + last'[x] + slack'[x]
                       ELSE spent'[x] <= lastSweep' + slack'[x]
  <2>1. s \in Sources /\ t \in 0..now /\ now \in Nat /\ gone \subseteq known
    BY <1>3 DEF Allow, LimitTypeOK, Swept
  <2>2. /\ known \subseteq Sources /\ lastSweep \in Nat
        /\ Full \in Nat /\ Unit \in Nat /\ Unit > 0 /\ Full >= Unit
    BY FullHolds DEF LimitTypeOK
  <2>3. \A x \in Sources : /\ tokens[x] \in 0..Full /\ last[x] \in Nat /\ spent[x] \in Nat
                           /\ slack[x] \in Nat
    BY DEF LimitTypeOK
  <2>4. known' = (known \ gone) \cup {s} /\ lastSweep' \in Nat /\ lastSweep' >= lastSweep
        /\ (gone # {} => lastSweep' = t)
    BY <1>3, <2>1, <2>2, LimitAssumption DEF Allow, Sweep, Swept
  \* A dropped bucket was full.
  <2>5. \A x \in gone : spent[x] <= t + slack[x] + Excess(Clock(x), t)
    <3> SUFFICES ASSUME NEW x \in gone PROVE spent[x] <= t + slack[x] + Excess(last[x], t)
      BY <2>1 DEF Clock
    <3>1. TokensAt(x, t) >= Full /\ x \in known
      BY DEF Swept
    <3>2. spent[x] + tokens[x] <= Full + last[x] + slack[x]
      BY <2>1, <2>2, <3>1 DEF Balance
    <3> QED BY <2>1, <2>2, <2>3, <3>1, <3>2 DEF TokensAt, AtMost, Excess
  \* The bucket that is asked holds no more than there was.
  <2>6. spent[s] + Found(s, t) <= Full + t + slack[s] + Excess(Clock(s), t)
    <3>1. CASE s \in known \ gone
      <4>1. spent[s] + tokens[s] <= Full + last[s] + slack[s]
        BY <2>1, <3>1 DEF Balance
      <4> QED BY <2>1, <2>2, <2>3, <3>1, <4>1 DEF Found, TokensAt, AtMost, Excess, Clock
    <3>2. CASE s \in gone
      <4>1. Excess(Clock(s), t) \in Nat
        BY <2>1, <2>2, <2>3 DEF Excess, Clock
      <4> QED BY <2>1, <2>2, <2>3, <2>5, <3>2, <4>1 DEF Found
    <3>3. CASE s \notin known
      <4>1. spent[s] <= lastSweep + slack[s]
        BY <2>1, <3>3 DEF Balance
      <4> QED BY <2>1, <2>2, <2>3, <3>3, <4>1 DEF Found, Excess, Clock
    <3> QED BY <3>1, <3>2, <3>3
  <2>7. ASSUME NEW x \in Sources, x # s PROVE Bal(x)
    <3>1. spent'[x] = spent[x]
      BY <1>3, <2>1, <2>7 DEF Allow, LimitTypeOK
    <3>2. slack'[x] = IF x \in gone THEN slack[x] + Excess(Clock(x), t) ELSE slack[x]
      BY <1>3, <2>7 DEF Allow, SetBack
    <3>3. CASE x \in gone
      <4>1. x \notin known' /\ lastSweep' = t
        BY <2>4, <2>7, <3>3
      <4>2. spent[x] <= t + slack[x] + Excess(Clock(x), t)
        BY <2>5, <3>3
      <4>3. Excess(Clock(x), t) \in Nat
        BY <2>1, <2>2, <2>3 DEF Excess, Clock
      <4> HIDE DEF gone
      <4> QED BY <2>1, <2>3, <3>1, <3>2, <3>3, <4>1, <4>2, <4>3
    <3>4. CASE x \in known \ gone
      <4>1. tokens'[x] = tokens[x] /\ last'[x] = last[x] /\ x \in known'
        BY <1>3, <2>4, <2>7, <3>4 DEF Allow, Keep
      <4> QED BY <3>1, <3>2, <3>4, <4>1 DEF Balance
    <3>5. CASE x \notin known
      <4>1. x \notin known' /\ x \notin gone
        BY <2>1, <2>4, <2>7, <3>5
      <4>2. spent[x] <= lastSweep + slack[x]
        BY <3>5 DEF Balance
      <4> QED BY <2>2, <2>3, <2>4, <3>1, <3>2, <4>1, <4>2
    <3> QED BY <3>3, <3>4, <3>5
  <2>8. Bal(s)
    <3>1. s \in known'
      BY <2>4
    <3>2. CASE Enough(s, t)
      <4>1. /\ tokens'[s] = Found(s, t) - Unit /\ last'[s] = t
            /\ spent'[s] = spent[s] + Unit
            /\ slack'[s] = slack[s] + Excess(Clock(s), t)
        BY <1>3, <2>1, <3>2 DEF Allow, Keep, SetBack, LimitTypeOK
      <4>2. Found(s, t) \in 0..Full /\ Excess(Clock(s), t) \in Nat
        BY <2>1, <2>2, <2>3, FoundHolds DEF Excess, Clock
      <4> QED BY <2>1, <2>2, <2>3, <2>6, <3>1, <4>1, <4>2
    <3>3. CASE ~Enough(s, t)
      <4>1. s \in known /\ s \notin gone
        BY <2>1, <2>2, <3>3 DEF Enough, Found
      <4>2. /\ tokens'[s] = tokens[s] /\ last'[s] = last[s]
            /\ spent'[s] = spent[s] /\ slack'[s] = slack[s]
        BY <1>3, <2>1, <3>3, <4>1 DEF Allow, Keep, SetBack, LimitTypeOK
      <4> QED BY <2>1, <3>1, <4>1, <4>2 DEF Balance
    <3> QED BY <3>2, <3>3
  <2> QED BY <2>7, <2>8 DEF Balance
<1>4. CASE UNCHANGED limitVars
  BY <1>4 DEF Balance, limitVars, buckets, calls, ghosts
<1> QED BY <1>1, <1>2, <1>3, <1>4 DEF LimitNext

\* Every variable keeps its type; no bucket overflows and no clock runs ahead.
THEOREM LimitTypeCorrect == LimitSpec => []LimitTypeOK
<1>1. LimitInit => LimitTypeOK
  BY InitBalanced
<1> QED BY <1>1, LimitTypeStep, PTL DEF LimitSpec

\* The long run holds: no source is let through for more than a full bucket, what
\* the elapsed time refilled, and the time by which calls overtook each other.
THEOREM QuotaHolds == LimitSpec => []WithinQuota
<1>1. LimitTypeOK /\ Balance => WithinQuota
  <2> SUFFICES ASSUME LimitTypeOK, Balance, NEW s \in Sources
               PROVE  spent[s] <= Full + now + slack[s]
    BY DEF WithinQuota
  <2>1. /\ Full \in Nat /\ now \in Nat /\ lastSweep \in 0..now
        /\ spent[s] \in Nat /\ tokens[s] \in 0..Full /\ last[s] \in 0..now /\ slack[s] \in Nat
    BY FullHolds DEF LimitTypeOK
  <2>2. CASE s \in known
    BY <2>1, <2>2 DEF Balance
  <2>3. CASE s \notin known
    BY <2>1, <2>3 DEF Balance
  <2> QED BY <2>2, <2>3
<1> QED BY <1>1, InitBalanced, LimitTypeStep, BalanceStep, PTL DEF LimitSpec

-----------------------------------------------------------------------------
(* Dropping full buckets changes no answer.                                *)

\* Before the first call nobody has a bucket, and everybody a full quota.
LEMMA InitPromise == LimitInit => Promise!Init
<1> SUFFICES ASSUME LimitInit PROVE Promise!Init
  OBVIOUS
<1>1. Level = [s \in Sources |-> Full]
  BY DEF LimitInit, Level
<1> QED BY <1>1 DEF LimitInit, Promise!Init

\* What a bucket, or the lack of one, holds at a later reading is what it held at the
\* latest one and what was refilled since (Limiter.TokensAt): twice refilled is once.
LEMMA RefilledHolds ==
  ASSUME LimitTypeOK, NEW t \in Nat, t >= heard, heard' = t, NEW x \in Sources
  PROVE  /\ Promise!Refilled(x) = IF x \in known THEN TokensAt(x, t) ELSE Full
         /\ Promise!Refilled(x) \in 0..Full
<1>1. /\ Full \in Nat /\ heard \in Nat /\ tokens[x] \in 0..Full /\ last[x] \in 0..heard
      /\ Level[x] = IF x \in known THEN AtMost(tokens[x] + Excess(heard, last[x]), Full) ELSE Full
  BY FullHolds DEF LimitTypeOK, Level
<1>2. Promise!Refilled(x) = IF Level[x] + (t - heard) < Full THEN Level[x] + (t - heard) ELSE Full
  BY DEF Promise!Refilled
<1> QED BY <1>1, <1>2 DEF TokensAt, AtMost, Excess

\* Every step of the limiter is a step of the quota, or none, or out of turn.
LEMMA StepPromise ==
  ASSUME LimitTypeOK, [LimitNext]_limitVars
  PROVE  [Promise!Next \/ OutOfTurn]_<<heard, Level, spent, refused>>
<1>0. /\ Full \in Nat /\ Unit \in Nat /\ Unit > 0 /\ Full >= Unit
      /\ now \in Nat /\ heard \in 0..now
  BY FullHolds DEF LimitTypeOK
<1>1. CASE Tick
  BY <1>1 DEF Tick, Level, buckets, ghosts
<1>2. ASSUME NEW c \in Callers, NEW s \in Sources, Ask(c, s)
      PROVE  UNCHANGED <<heard, Level, spent, refused>>
  BY <1>2 DEF Ask, Level, buckets, ghosts
<1>3. ASSUME NEW c \in Callers, Allow(c), ~(reading[c] < heard) PROVE Promise!Next
  <2> DEFINE s == asking[c]  t == reading[c]  gone == Swept(t)
             Was(x) == Promise!Refilled(x)
  <2>1. s \in Sources /\ t \in Nat /\ t >= heard /\ heard' = t
    BY <1>0, <1>3 DEF Allow, LimitTypeOK
  <2>2. gone \subseteq known /\ known' = (known \ gone) \cup {s} /\ known \subseteq Sources
    BY <1>3, <2>1 DEF Allow, Swept, LimitTypeOK
  <2>3. \A x \in Sources : /\ Was(x) = IF x \in known THEN TokensAt(x, t) ELSE Full
                           /\ Was(x) \in 0..Full
    BY <2>1, RefilledHolds
  \* A dropped bucket was full.
  <2>4. \A x \in gone : Was(x) = Full
    <3> SUFFICES ASSUME NEW x \in gone PROVE Was(x) = Full
      OBVIOUS
    <3>1. x \in known /\ x \in Sources /\ TokensAt(x, t) >= Full
      BY <2>2 DEF Swept
    <3>2. Was(x) = TokensAt(x, t) /\ Was(x) \in 0..Full
      BY <2>3, <3>1
    <3> QED BY <1>0, <3>1, <3>2
  <2>5. Was(s) = Found(s, t)
    BY <2>1, <2>2, <2>3, <2>4 DEF Found
  <2>6. ASSUME NEW x \in Sources, x # s PROVE Level'[x] = Was(x)
    <3>1. CASE x \in known \ gone
      <4>1. tokens'[x] = tokens[x] /\ last'[x] = last[x] /\ x \in known'
        BY <1>3, <2>1, <2>2, <2>6, <3>1 DEF Allow, Keep
      <4> QED BY <2>1, <2>3, <3>1, <4>1 DEF Level, TokensAt
    <3>2. CASE x \notin known \ gone
      <4>1. x \notin known' /\ Was(x) = Full
        BY <2>2, <2>3, <2>4, <2>6, <3>2
      <4> QED BY <4>1 DEF Level
    <3> QED BY <3>1, <3>2
  <2>7. s \in known'
    BY <2>2
  <2>8. CASE Enough(s, t)
    <3>1. /\ tokens'[s] = Found(s, t) - Unit /\ last'[s] = t
          /\ spent' = [spent EXCEPT ![s] = @ + Unit] /\ refused' = refused
      BY <1>3, <2>1, <2>8 DEF Allow, Keep
    <3>2. Level'[s] = Was(s) - Unit /\ Was(s) >= Unit
      <4>1. Found(s, t) \in 0..Full /\ Found(s, t) >= Unit
        BY <2>3, <2>1, <2>5, <2>8 DEF Enough
      <4>2. Level'[s] = AtMost(tokens'[s] + Excess(heard', last'[s]), Full)
        BY <2>1, <2>7 DEF Level
      <4> QED BY <1>0, <2>1, <2>5, <3>1, <4>1, <4>2 DEF AtMost, Excess
    <3>3. Level' = [x \in Sources |-> IF x = s THEN Was(x) - Unit ELSE Was(x)]
      BY <2>1, <2>6, <3>2 DEF Level
    <3>4. Promise!Grant(s)
      BY <1>0, <2>1, <3>1, <3>2, <3>3 DEF Promise!Grant, Promise!Pay
    <3> QED BY <2>1, <3>4 DEF Promise!Next
  <2>9. CASE ~Enough(s, t)
    <3>1. /\ tokens' = Keep(tokens, gone) /\ last' = Keep(last, gone)
          /\ refused' = [refused EXCEPT ![s] = ~@] /\ spent' = spent
      BY <1>3, <2>1, <2>9 DEF Allow
    <3>2. s \in known \ gone /\ Was(s) < Unit
      <4>1. Found(s, t) \in 0..Full /\ ~(Found(s, t) >= Unit)
        BY <2>1, <2>3, <2>5, <2>9 DEF Enough
      <4> QED BY <1>0, <2>5, <4>1 DEF Found
    <3>3. Level'[s] = Was(s)
      <4>1. tokens'[s] = tokens[s] /\ last'[s] = last[s]
        BY <2>1, <3>1, <3>2 DEF Keep
      <4> QED BY <2>1, <2>3, <2>7, <3>2, <4>1 DEF Level, TokensAt
    <3>4. Level' = [x \in Sources |-> IF x = s THEN Was(x) - 0 ELSE Was(x)]
      <4>1. Was(s) - 0 = Was(s)
        BY <1>0, <2>1, <2>3
      <4> QED BY <2>6, <3>3, <4>1 DEF Level
    <3>5. Promise!Refuse(s)
      BY <1>0, <2>1, <3>1, <3>2, <3>4 DEF Promise!Refuse, Promise!Pay
    <3> QED BY <2>1, <3>5 DEF Promise!Next
  <2> QED BY <2>8, <2>9
<1>4. ASSUME NEW c \in Callers, Allow(c), reading[c] < heard PROVE OutOfTurn
  BY <1>4 DEF OutOfTurn, Allow
<1>5. CASE UNCHANGED limitVars
  BY <1>5 DEF Level, limitVars, buckets, calls, ghosts
<1> QED BY <1>1, <1>2, <1>3, <1>4, <1>5 DEF LimitNext

\* "A full bucket answers exactly as a bucket that has never existed does": the
\* limiter with its sweeps answers every call that is not overtaken as the quota
\* without any, for every quota, sweep interval and number of calls.
THEOREM QuotaImplemented == LimitSpec => ImplementsQuota
<1>1. LimitInit => LimitTypeOK /\ Promise!Init
  BY InitBalanced, InitPromise
<1>2. LimitTypeOK /\ [LimitNext]_limitVars
        => [Promise!Next \/ OutOfTurn]_<<heard, Level, spent, refused>>
  BY StepPromise
<1> QED BY <1>1, <1>2, LimitTypeStep, PTL DEF LimitSpec, ImplementsQuota

-----------------------------------------------------------------------------
(* Sealing: the inductive invariant.                                       *)

\* What a process seals with, every process can open, and the settings keep.
SealsAreShared ==
  /\ settings.active \in settings.keys
  /\ \A p \in Processes : /\ settings.active \in ring[p].keys
                          /\ ring[p].active \in settings.keys
                          /\ \A q \in Processes : ring[p].active \in ring[q].keys

\* A value waiting to be stored was sealed with its process's active key.
FreshlySealed ==
  \A t \in Tasks : pc[t] = "store" =>
    held[t] = Empty \/ held[t].key = Ring(t).active

\* No value names a key that was dropped from the settings.
KeysKept == \A v \in Values : sealed[v] = Empty \/ sealed[v].key \in settings.keys

SealingInv ==
  /\ SealingTypeOK
  /\ SealsAreShared
  /\ FreshlySealed
  /\ KeysKept
  /\ AlwaysOpens
  /\ RotationStands

\* Seal keeps the plaintext, and names the active key of the process.
LEMMA SealFacts ==
  ASSUME SealingTypeOK, NEW t \in Tasks, NEW s \in Secrets \cup {NoSecret}
  PROVE  /\ Seal(t, s) \in Sealed
         /\ Seal(t, s).plain = s
         /\ Seal(t, s) = Empty \/ Seal(t, s).key = Ring(t).active
BY SealingAssumption DEF SealingTypeOK, Seal, Sealed, Empty, Ring, Rings, Keys

\* Every sealed value has a plaintext to recover.
LEMMA PlainType ==
  ASSUME NEW x \in Sealed
  PROVE  x.plain \in Secrets \cup {NoSecret}
BY DEF Sealed, Empty

\* The service starts with one key and nothing stored.
LEMMA SealingInitInv ==
  ASSUME SealingInit
  PROVE  SealingInv
<1>1. Empty \in Sealed /\ Empty.plain = NoSecret
  BY DEF Empty, Sealed
<1>2. (CHOOSE v \in Values : TRUE) \in Values
  BY SealingAssumption DEF Values
<1>3. settings \in Rings /\ settings.active \in settings.keys
  BY SealingAssumption DEF SealingInit, Rings, Keys
<1>4. SealingTypeOK
  BY <1>1, <1>2, <1>3 DEF SealingInit, SealingTypeOK
<1>5. SealsAreShared
  BY <1>3 DEF SealingInit, SealsAreShared
<1>6. FreshlySealed /\ KeysKept /\ AlwaysOpens /\ RotationStands
  BY <1>1 DEF SealingInit, FreshlySealed, KeysKept, AlwaysOpens, RotationStands
<1>7. QED
  BY <1>4, <1>5, <1>6 DEF SealingInv

\* An edit of the settings waits until every process runs with the last one.
LEMMA OperatorStep ==
  ASSUME SealingInv, NEW k \in Keys, AddKey(k) \/ PointAt(k) \/ DropKey(k)
  PROVE  SealingInv'
<1>1. /\ settings \in Rings /\ settings.active \in settings.keys
      /\ \A p \in Processes : ring[p] = settings
  BY DEF SealingInv, SealingTypeOK, SealsAreShared, AddKey, PointAt, DropKey, RolledOut, NewKeyring
<1>2. UNCHANGED <<ring, sealed, latest, pc, value, held>>
  BY DEF AddKey, PointAt, DropKey, tasks
<1>3. /\ settings' \in Rings
      /\ settings'.active \in settings'.keys
      /\ settings'.active \in settings.keys
      /\ settings.active \in settings'.keys
      /\ \A v \in Values : sealed[v] = Empty \/ sealed[v].key \in settings'.keys
  <2>1. CASE AddKey(k)
    BY <1>1, <2>1 DEF AddKey, Rings, SealingInv, KeysKept
  <2>2. CASE PointAt(k)
    BY <1>1, <2>2 DEF PointAt, Rings, SealingInv, KeysKept
  <2>3. CASE DropKey(k)
    BY <1>1, <2>3, SealingAssumption DEF DropKey, Rings, Keys, SealingInv, KeysKept
  <2> QED BY <2>1, <2>2, <2>3
<1>4. SealingTypeOK'
  BY <1>2, <1>3 DEF SealingInv, SealingTypeOK
<1>5. SealsAreShared'
  BY <1>1, <1>2, <1>3 DEF SealingInv, SealsAreShared
<1>6. FreshlySealed' /\ AlwaysOpens' /\ RotationStands'
  BY <1>2 DEF SealingInv, FreshlySealed, Ring, AlwaysOpens, RotationStands
<1>7. KeysKept'
  BY <1>2, <1>3 DEF KeysKept
<1> QED BY <1>4, <1>5, <1>6, <1>7 DEF SealingInv

\* A process comes up with keys that open whatever is stored.
LEMMA RestartStep ==
  ASSUME SealingInv, NEW p \in Processes, Restart(p)
  PROVE  SealingInv'
<1>1. /\ ring' = [ring EXCEPT ![p] = settings]
      /\ UNCHANGED <<settings, sealed, latest, value>>
  BY DEF Restart, NewKeyring
<1>2. SealingTypeOK'
  BY <1>1 DEF Restart, SealingInv, SealingTypeOK, Sealed
<1>3. SealsAreShared'
  BY <1>1 DEF SealingInv, SealingTypeOK, SealsAreShared
<1>4. FreshlySealed'
  BY <1>1 DEF Restart, SealingInv, SealingTypeOK, FreshlySealed, Ring
<1>5. AlwaysOpens'
  BY <1>1 DEF SealingInv, SealingTypeOK, AlwaysOpens, KeysKept
<1>6. KeysKept' /\ RotationStands'
  BY <1>1 DEF SealingInv, KeysKept, RotationStands
<1> QED BY <1>2, <1>3, <1>4, <1>5, <1>6 DEF SealingInv

\* Nothing but a task's own state changes.
LEMMA TaskStep ==
  ASSUME SealingInv, NEW t \in Tasks, NEW l \in {"idle", "store", "reseal"},
         NEW v \in Values, NEW x \in Sealed,
         l = "store" => x = Empty \/ x.key = Ring(t).active,
         pc' = [pc EXCEPT ![t] = l],
         value' = [value EXCEPT ![t] = v],
         held' = [held EXCEPT ![t] = x],
         UNCHANGED <<settings, ring, sealed, latest>>
  PROVE  SealingInv'
<1>1. SealingTypeOK'
  BY DEF SealingInv, SealingTypeOK
<1>2. FreshlySealed'
  BY DEF SealingInv, SealingTypeOK, FreshlySealed, Ring
<1>3. SealsAreShared' /\ KeysKept' /\ AlwaysOpens' /\ RotationStands'
  BY DEF SealingInv, SealsAreShared, KeysKept, AlwaysOpens, RotationStands
<1> QED BY <1>1, <1>2, <1>3 DEF SealingInv

\* A value sealed by a running process may be written anywhere.
LEMMA ColumnStep ==
  ASSUME SealingInv, NEW t \in Tasks, NEW x \in Sealed,
         x = Empty \/ x.key = Ring(t).active,
         sealed' = [sealed EXCEPT ![value[t]] = x],
         latest' = [latest EXCEPT ![value[t]] = x.plain],
         Return(t), UNCHANGED <<settings, ring>>
  PROVE  SealingInv'
<1>1. value[t] \in Values /\ Empty \in Sealed /\ x.plain \in Secrets \cup {NoSecret}
  BY PlainType DEF SealingInv, SealingTypeOK, Sealed
<1>2. SealingTypeOK'
  BY <1>1 DEF SealingInv, SealingTypeOK, Return
<1>3. FreshlySealed'
  BY <1>1 DEF SealingInv, SealingTypeOK, FreshlySealed, Ring, Return
<1>4. SealsAreShared'
  BY DEF SealingInv, SealsAreShared
<1>5. Host[t] \in Processes
  BY SealingAssumption
<1>6. KeysKept' /\ AlwaysOpens'
  BY <1>1, <1>5 DEF SealingInv, SealingTypeOK, KeysKept, AlwaysOpens, SealsAreShared, Ring
<1>7. RotationStands'
  BY <1>1 DEF SealingInv, SealingTypeOK, RotationStands
<1> QED BY <1>2, <1>3, <1>4, <1>6, <1>7 DEF SealingInv

\* Every step keeps the invariant.
LEMMA SealingStep ==
  ASSUME SealingInv, [SealingNext]_sealingVars
  PROVE  SealingInv'
<1>0. Empty \in Sealed /\ SealingTypeOK
  BY DEF Sealed, SealingInv
<1>1. ASSUME NEW k \in Keys, AddKey(k) \/ PointAt(k) \/ DropKey(k) PROVE SealingInv'
  BY <1>1, OperatorStep
<1>2. ASSUME NEW p \in Processes, Restart(p) PROVE SealingInv'
  BY <1>2, RestartStep
<1>3. ASSUME NEW t \in Tasks, NEW v \in Values, NEW s \in Secrets \cup {NoSecret},
             Store(t, v, s)
      PROVE  SealingInv'
  BY <1>0, <1>3, SealFacts, TaskStep DEF Store
<1>4. ASSUME NEW t \in Tasks, Write(t) PROVE SealingInv'
  <2>1. held[t] \in Sealed /\ (held[t] = Empty \/ held[t].key = Ring(t).active)
    BY <1>4 DEF Write, SealingInv, SealingTypeOK, FreshlySealed
  <2> QED BY <1>4, <2>1, ColumnStep DEF Write
<1>5. ASSUME NEW t \in Tasks, Return(t), UNCHANGED <<settings, ring, sealed, latest>>
      PROVE  SealingInv'
  <2>1. value[t] \in Values /\ value' = [value EXCEPT ![t] = value[t]]
    BY <1>5 DEF Return, SealingInv, SealingTypeOK
  <2> QED BY <1>0, <1>5, <2>1, TaskStep DEF Return
<1>6. ASSUME NEW t \in Tasks, NEW v \in Values, Material(t, v) PROVE SealingInv'
  <2>1. sealed[v] \in Sealed
    BY <1>6 DEF SealingInv, SealingTypeOK
  <2> QED BY <1>6, <2>1, TaskStep DEF Material
<1>7. ASSUME NEW t \in Tasks, Reseal(t) PROVE SealingInv'
  <2> DEFINE v == value[t]  x == Seal(t, held[t].plain)
  <2>1. v \in Values /\ held[t] \in Sealed /\ held[t].plain \in Secrets \cup {NoSecret}
    BY <1>0, PlainType DEF SealingTypeOK
  <2>2. CASE sealed[v] # held[t]
    BY <1>5, <1>7, <2>2 DEF Reseal
  <2>3. CASE sealed[v] = held[t]
    <3>1. x \in Sealed /\ x.plain = held[t].plain /\ (x = Empty \/ x.key = Ring(t).active)
      BY <1>0, <2>1, SealFacts
    <3>2. latest[v] = x.plain
      BY <2>1, <2>3, <3>1 DEF SealingInv, RotationStands
    <3>3. latest' = [latest EXCEPT ![v] = x.plain]
      BY <1>0, <1>7, <2>1, <3>2 DEF Reseal, SealingTypeOK
    <3>4. sealed' = [sealed EXCEPT ![v] = x] /\ Return(t) /\ UNCHANGED <<settings, ring>>
      BY <1>7, <2>3 DEF Reseal
    <3> HIDE DEF x
    <3> QED BY <3>1, <3>3, <3>4, ColumnStep
  <2> QED BY <2>2, <2>3
<1>8. CASE UNCHANGED sealingVars
  BY <1>8 DEF sealingVars, tasks, SealingInv, SealingTypeOK, SealsAreShared, FreshlySealed, Ring,
              KeysKept, AlwaysOpens, RotationStands
<1>9. CASE SealingNext
  BY <1>1, <1>2, <1>3, <1>4, <1>5, <1>6, <1>7, <1>8, <1>9
     DEF SealingNext, Replace, Issue, WriteFails, ResealFails, MaterialAsItIs, SecretFor
<1> QED BY <1>8, <1>9

\* The invariant holds from the start and for ever.
LEMMA SealingInvariance == SealingSpec => []SealingInv
BY SealingInitInv, SealingStep, PTL DEF SealingSpec

\* The settings, the column and the tasks keep their types: an empty secret is
\* never stored as a seal (Keeper.Add, Keeper.Replace).
THEOREM SealingTypeCorrect == SealingSpec => []SealingTypeOK
<1>1. SealingInv => SealingTypeOK
  BY DEF SealingInv
<1> QED BY <1>1, SealingInvariance, PTL

\* Whatever is stored opens in every running process, at every point of every
\* key change (docs/CONFIG.md: "No step stops the service").
THEOREM NothingIsLost == SealingSpec => []AlwaysOpens
<1>1. SealingInv => AlwaysOpens
  BY DEF SealingInv
<1> QED BY <1>1, SealingInvariance, PTL

\* The column holds the secret the source stored last, whatever reseals run
\* (Keeper.reseal, ResealCredentialSecret).
THEOREM RotationsStand == SealingSpec => []RotationStands
<1>1. SealingInv => RotationStands
  BY DEF SealingInv
<1> QED BY <1>1, SealingInvariance, PTL
=============================================================================
