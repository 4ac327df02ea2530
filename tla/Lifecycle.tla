----------------------------- MODULE Lifecycle ------------------------------
(***************************************************************************)
(* How a binary starts, runs and stops (internal/bootstrap,                *)
(* internal/registry, internal/infra/scheduler, grpcserver, httpserver,    *)
(* messagequeue, database; internal/adapter/alert).                        *)
(*                                                                         *)
(* A binary opens its dependencies in the order its bootstrap function     *)
(* names them and registers each at a tier.  Close walks the tiers from    *)
(* the highest down.  Three things run beside it: the work that came in    *)
(* through a server, the loop that watches readiness, and the worker that  *)
(* sends alerts to the operator.                                           *)
(***************************************************************************)
EXTENDS Integers, Sequences, FiniteSets

CONSTANTS
  Binaries,    \* which of the four programs are looked at
  Work,        \* calls, messages, jobs and pages that may come in
  QueueSize,   \* alerts that may wait
  MaxNews      \* bound: how often the world changes under the watcher

ASSUME LifecycleAssumption ==
  /\ Binaries \subseteq {"gateway", "dispatcher", "console", "migrate"}
  /\ QueueSize \in Nat
  /\ MaxNews \in Nat

-----------------------------------------------------------------------------
(* What is opened, and at which tier it closes.                            *)

tierStore == 0
tierBroker == 1
tierClient == 2
tierServer == 3

Step(n, t) == [name |-> n, tier |-> t, closes |-> TRUE]

Alerts   == <<Step("alert client", tierClient), Step("alerts", tierClient)>>

\* Two steps.  The second is a readiness check and has nothing to close.
Postgres == <<Step("postgres", tierStore), [Step("schema", tierStore) EXCEPT !.closes = FALSE]>>

NATS     == <<Step("nats", tierBroker)>>

Senders  == <<Step("sender client", tierClient)>>

Gateway    == Postgres \o NATS \o <<Step("grpc", tierServer), Step("http", tierServer)>>

Dispatcher == Postgres \o NATS \o <<Step("webhook client", tierClient)>> \o Senders
                \o <<Step("consumer", tierServer), Step("scheduler", tierServer), Step("http", tierServer)>>

Console    == Postgres \o Senders
                \o <<Step("portal", tierServer), Step("http", tierServer), Step("admin", tierServer)>>

\* A tool: nothing is served, nothing is watched, and it stops by itself.
Migrate    == <<Step("postgres", tierStore)>>

Wiring(b) ==
  CASE b = "gateway"    -> Gateway
    [] b = "dispatcher" -> Dispatcher
    [] b = "console"    -> Console
    [] b = "migrate"    -> Migrate

\* What has a health of its own.
Watched == {"postgres", "schema", "nats"}

VARIABLES
  binary,
  plan,        \* the steps of the binary; an operator's channel may not be configured
  phase,
  opened,      \* how many of them are open
  stopping,    \* the process was told to stop: its context is canceled
  current,     \* the dependency being closed
  closed,      \* the ones that are
  \* the work that came in
  inside,      \* by work: the server it is in
  cut,         \* work its server stopped waiting for
  \* the operator's channel
  queue, owed, worker,
  \* readiness
  up,          \* whether each dependency really answers
  changes,
  asked,       \* by dependency: its answer in the look under way
  down,        \* and in the one before
  seen,        \* there was one before
  low,         \* what the capacity job saw last
  been         \* by dependency: how it was at some moment since the last look

run    == <<binary, plan, phase, opened, stopping, current, closed>>
work   == <<inside, cut>>
alerts == <<queue, owed, worker>>
watch  == <<up, changes, asked, down, seen, low, been>>
vars   == <<run, work, alerts, watch>>

Nothing == "nothing"
Done    == "done"
Unknown == "unknown"

\* What a look finds, and what is said of it.
Healths == {Unknown, "up", "down"}

Names(n)  == {plan[i].name : i \in 1 .. n}
IsOpen(d) == d \in Names(opened) \ closed
Servers   == {plan[i].name : i \in {j \in 1 .. opened : plan[j].tier = tierServer}}

Init ==
  /\ binary \in Binaries
  /\ plan \in {Wiring(binary)} \cup (IF binary = "migrate" THEN {} ELSE {Alerts \o Wiring(binary)})
  /\ phase = "starting" /\ opened = 0 /\ stopping = FALSE
  /\ current = Nothing /\ closed = {}
  /\ inside = [w \in Work |-> Nothing]
  /\ cut = {}
  /\ queue = 0 /\ owed = 0 /\ worker = "running"
  /\ up = [d \in Watched \cup {"disk"} |-> TRUE] /\ changes = 0
  /\ asked = [d \in Watched |-> Unknown] /\ down = [d \in Watched |-> Unknown]
  /\ seen = FALSE /\ low = FALSE
  /\ been = [d \in Watched |-> {"up"}]

-----------------------------------------------------------------------------
(* Alerts.                                                                 *)

\* Queued or dropped, and never waited for.  Without the channel it is nothing.
Notify == queue' = IF "alerts" \in Names(opened) /\ queue < QueueSize THEN queue + 1 ELSE queue

Push ==
  /\ worker \in {"running", "stopped"} /\ queue > 0
  /\ queue' = queue - 1
  /\ owed' = IF owed > 0 THEN owed - 1 ELSE 0
  /\ UNCHANGED <<run, work, worker, watch>>

WorkerEndsAtOnce ==   \* mutant: what is queued is left behind
  /\ worker = "stopped"
  /\ worker' = "gone"
  /\ UNCHANGED <<run, work, queue, owed, watch>>

\* drain: until there is nothing there.
WorkerEnds ==
  /\ worker = "stopped" /\ queue = 0
  /\ worker' = "gone"
  /\ UNCHANGED <<run, work, queue, owed, watch>>

-----------------------------------------------------------------------------
(* Starting and running.                                                   *)

\* Building what is served assembles structures and opens nothing, but two of the
\* binaries declare the stream before they serve, under the context a signal cancels.
EnsureStream == ~stopping

NextOpen(names) == phase = "starting" /\ opened < Len(plan) /\ plan[opened + 1].name \in names

Open ==
  /\ opened' = opened + 1
  /\ UNCHANGED <<binary, plan, phase, stopping, current, closed, work, alerts, watch>>

\* Connect returns once the other side has answered a question, under the context a
\* signal cancels; a refused first dial is retried for a while.
ConnectPostgres == NextOpen({"postgres"}) /\ ~stopping /\ Open
ConnectNATS     == NextOpen({"nats"}) /\ ~stopping /\ Open

\* Nothing is dialed yet: a client, and the check of the schema.
OpenClient == NextOpen({"schema", "alert client", "alerts", "webhook client", "sender client"}) /\ Open

\* The first server of the gateway and of the dispatcher comes right after the
\* stream.  A consumer is declared at the broker as well; a listener binds its port.
StartConsumer  == NextOpen({"consumer"}) /\ EnsureStream /\ Open
StartGRPC      == NextOpen({"grpc"}) /\ EnsureStream /\ Open
StartScheduler == NextOpen({"scheduler"}) /\ Open
StartHTTP      == NextOpen({"http", "portal", "admin"}) /\ Open

OpenNext ==
  \/ ConnectPostgres \/ ConnectNATS \/ OpenClient
  \/ StartConsumer \/ StartScheduler \/ StartGRPC \/ StartHTTP

\* Something could not be opened or built: the operator is told, and what is open
\* is closed again.
Abandon(why) ==
  /\ phase = "starting" /\ why
  /\ phase' = "closing"
  /\ Notify
  /\ UNCHANGED <<binary, plan, opened, stopping, current, closed, work, owed, worker, watch>>

\* Every attempt failed, the time was up, or a signal came in between.
PostgresUnreachable == Abandon(NextOpen({"postgres"}))
NATSUnreachable     == Abandon(NextOpen({"nats"}))
\* Nothing fails between the database and the check of its schema.
BuildFails          == Abandon(opened < Len(plan) /\ ~NextOpen({"postgres", "schema", "nats"}))

Started ==
  /\ phase = "starting" /\ opened = Len(plan)
  /\ phase' = "running"
  /\ Notify
  /\ UNCHANGED <<binary, plan, opened, stopping, current, closed, work, owed, worker, watch>>

\* A signal, at any time.  Startup goes on until something notices.
Signal ==
  /\ ~stopping /\ phase \in {"starting", "running", "closing"}
  /\ stopping' = TRUE
  /\ UNCHANGED <<binary, plan, phase, opened, current, closed, work, alerts, watch>>

\* Run returns: asked to stop, or a listener died on its own, or the tool is done.
RunReturns ==
  /\ phase = "running"
  /\ phase' = "closing"
  /\ UNCHANGED <<binary, plan, opened, stopping, current, closed, work, alerts, watch>>

-----------------------------------------------------------------------------
(* Work comes in through a server and uses what is underneath.             *)

Arrive(w, s) ==
  /\ inside[w] = Nothing
  /\ s \in Servers /\ IsOpen(s) /\ current # s
  /\ inside' = [inside EXCEPT ![w] = s]
  /\ UNCHANGED <<run, cut, alerts, watch>>

Here(s) == {w \in Work : inside[w] = s}

Finish(w) ==
  /\ inside[w] \in Servers
  /\ inside' = [inside EXCEPT ![w] = Done]
  /\ cut' = cut \ {w}
  /\ UNCHANGED <<run, alerts, watch>>

\* The capacity job: a crossing of the floor is announced once.
Check ==
  /\ IsOpen("scheduler") /\ current # "scheduler"
  /\ low = up["disk"]
  /\ low' = ~up["disk"]
  /\ Notify
  /\ UNCHANGED <<run, work, owed, worker, up, changes, asked, down, seen, been>>

-----------------------------------------------------------------------------
(* Watching readiness.                                                     *)

\* What an answer depends on: the schema is read from the database.
Needs(d) == {d} \cup (IF d = "schema" THEN {"postgres"} ELSE {})

Health(d) == IF \A x \in Needs(d) : up[x] THEN "up" ELSE "down"

WorldChanges(d) ==
  /\ phase = "running" /\ changes < MaxNews
  /\ (IF d = "disk" THEN "scheduler" ELSE d) \in Names(opened)   \* somebody looks at it
  /\ up' = [up EXCEPT ![d] = ~@]
  /\ changes' = changes + 1
  /\ been' = [x \in Watched |-> been[x] \cup {Health(x)'}]
  /\ UNCHANGED <<run, work, alerts, asked, down, seen, low>>

\* The loop runs beside Run, and goes on until the context is canceled.
Looking == phase \in {"running", "closing"} /\ opened = Len(plan) /\ binary # "migrate"

\* Everything open that has a health of its own.
ToAsk == Watched \cap Names(opened)

\* The context is canceled, or what would answer is closed or being closed.
Overtaken(d) == stopping \/ Needs(d) \cap (closed \cup {current}) # {}

\* Overtaken, the answer is an error whatever it would have been.
Ping(d) == Health(d) = "up" /\ ~Overtaken(d)

\* Ready asks one after the other, in the order they were opened.  A look may begin
\* after the stop: a tick that is due is as good as the end of the context.
AskReady ==
  /\ Looking
  /\ \E i \in 1 .. opened :
       /\ plan[i].name \in ToAsk /\ asked[plan[i].name] = Unknown
       /\ \A j \in 1 .. i - 1 : plan[j].name \in ToAsk => asked[plan[j].name] # Unknown
       /\ asked' = [asked EXCEPT ![plan[i].name] = IF Ping(plan[i].name) THEN "up" ELSE "down"]
  /\ UNCHANGED <<run, work, alerts, up, changes, down, seen, low, been>>

\* What is different from the last look.  The first one is silent.
News == {d \in ToAsk : seen /\ down[d] # Unknown /\ asked[d] # down[d]}

\* One alert for each; with several at a time the queue may be full for the last.
Compare ==
  /\ Looking /\ \A d \in ToAsk : asked[d] # Unknown
  /\ down' = [d \in Watched |-> IF d \in ToAsk THEN asked[d] ELSE down[d]]
  /\ seen' = TRUE
  /\ queue' = IF "alerts" \notin Names(opened) THEN queue
              ELSE LET n == queue + Cardinality(News) IN IF n < QueueSize THEN n ELSE QueueSize
  /\ asked' = [d \in Watched |-> Unknown]
  /\ been' = [d \in Watched |-> {Health(d)}]
  /\ UNCHANGED <<run, work, owed, worker, up, changes, low>>

-----------------------------------------------------------------------------
(* Close: from the highest tier down, and within one tier in the reverse   *)
(* of the order it opened.                                                 *)

LeftOfPlan ==   \* mutant: what the binary names, opened or not
  {i \in 1 .. Len(plan) : plan[i].name \notin closed}

Left == {i \in 1 .. opened : plan[i].name \notin closed}

NextUpwards(i) == \A j \in Left : i <= j   \* mutant: in the order things were opened

NextToClose(i) ==
  \A j \in Left : plan[i].tier > plan[j].tier \/ (plan[i].tier = plan[j].tier /\ i >= j)

\* A step without a close is called all the same, and that is the end of the process.
CloseBegins ==
  /\ phase = "closing" /\ current = Nothing
  /\ \E i \in Left :
       /\ NextToClose(i)
       /\ current' = IF plan[i].closes THEN plan[i].name ELSE Nothing
       /\ phase' = IF plan[i].closes THEN phase ELSE "panicked"
  /\ UNCHANGED <<binary, plan, opened, stopping, closed, work, alerts, watch>>

CloseReturns(s) ==
  /\ phase = "closing" /\ current = s
  /\ closed' = closed \cup {s}
  /\ current' = Nothing
  /\ UNCHANGED <<binary, plan, phase, opened, stopping>>

\* GracefulStop, Shutdown, Drain and the scheduler's Shutdown wait for what is in
\* flight.
Drained(s) ==
  /\ s \in Servers /\ Here(s) = {}
  /\ CloseReturns(s)
  /\ UNCHANGED <<work, alerts, watch>>

\* The wait is over before the work is, and the walk goes on without it: calls are
\* cut, or go on by themselves.
TimesOut(s) ==
  /\ Here(s) # {}
  /\ CloseReturns(s)
  /\ cut' = cut \cup Here(s)
  /\ UNCHANGED <<inside, alerts, watch>>

CutCalls       == TimesOut("grpc")
StopsListening == \E s \in {"http", "portal", "admin"} : TimesOut(s)
StopsConsuming == TimesOut("consumer")
StopsFiring    == TimesOut("scheduler")

StopAlertsUnasked ==   \* mutant: Close waits for a worker nobody told to stop
  /\ current = "alerts" /\ phase = "closing" /\ worker = "running" /\ FALSE
  /\ UNCHANGED vars

\* Alerter.Close tells the worker and waits for it, however long that takes.
StopAlerts ==
  /\ current = "alerts" /\ phase = "closing" /\ worker = "running"
  /\ worker' = "stopped"
  /\ owed' = queue
  /\ UNCHANGED <<run, work, queue, watch>>

AlertsClose ==
  /\ worker = "gone"
  /\ CloseReturns("alerts")
  /\ UNCHANGED <<work, alerts, watch>>

\* Drained, refused or cut off at a timeout, the connection is closed.
DrainNATS ==
  /\ CloseReturns("nats")
  /\ UNCHANGED <<work, alerts, watch>>

\* The pool waits for connections in use.  Work that was cut holds one from statement
\* to statement at most, so the wait may end at any moment.
ClosePostgres ==
  /\ CloseReturns("postgres")
  /\ UNCHANGED <<work, alerts, watch>>

CloseClient ==
  /\ \E s \in {"alert client", "webhook client", "sender client"} : CloseReturns(s)
  /\ UNCHANGED <<work, alerts, watch>>

Exit ==
  /\ phase = "closing" /\ current = Nothing /\ Left = {}
  /\ phase' = "down"
  /\ UNCHANGED <<binary, plan, opened, stopping, current, closed, work, alerts, watch>>

\* A process that is gone does nothing.
Alive == phase \notin {"down", "panicked"}

Walk ==
  \/ CloseBegins \/ StopAlerts \/ AlertsClose \/ Exit
  \/ \E s \in Servers : Drained(s)
  \/ CutCalls \/ StopsListening \/ StopsConsuming \/ StopsFiring
  \/ DrainNATS \/ ClosePostgres \/ CloseClient

Next ==
  /\ Alive
  /\ \/ OpenNext \/ PostgresUnreachable \/ NATSUnreachable \/ BuildFails
     \/ Started \/ Signal \/ RunReturns
     \/ \E w \in Work : \/ \E s \in Servers : Arrive(w, s)
                        \/ Finish(w)
     \/ Check \/ Compare
     \/ \E d \in Watched \cup {"disk"} : WorldChanges(d)
     \/ AskReady
     \/ Push \/ WorkerEnds
     \/ Walk

Spec == Init /\ [][Next]_vars

\* Every call has a timeout of its own, so pushes and work end; the walk is one
\* goroutine that nothing else holds up.
Fairness ==
  /\ WF_vars(Alive /\ Walk)
  /\ WF_vars(Alive /\ (Push \/ WorkerEnds))
  /\ \A w \in Work : WF_vars(Alive /\ Finish(w))

FairSpec == Spec /\ Fairness

-----------------------------------------------------------------------------
(* Properties.                                                             *)

RunTypeOK ==
  /\ binary \in Binaries
  /\ phase \in {"starting", "running", "closing", "down", "panicked"}
  /\ opened \in 0 .. Len(plan)
  /\ stopping \in BOOLEAN
  /\ closed \subseteq Names(opened)
  /\ current \in Names(opened) \cup {Nothing}

WorkTypeOK == inside \in [Work -> Servers \cup {Nothing, Done}] /\ cut \subseteq Work

AlertsTypeOK ==
  /\ queue \in 0 .. QueueSize /\ owed \in 0 .. QueueSize
  /\ worker \in {"running", "stopped", "gone"}

WatchTypeOK ==
  /\ up \in [Watched \cup {"disk"} -> BOOLEAN]
  /\ changes \in 0 .. MaxNews
  /\ asked \in [Watched -> Healths] /\ down \in [Watched -> Healths]
  /\ \A d \in Watched : asked[d] # Unknown \/ down[d] # Unknown => d \in ToAsk
  /\ seen \in BOOLEAN /\ low \in BOOLEAN
  /\ been \in [Watched -> SUBSET {"up", "down"}]

\* Every variable has its type, only what was opened is closed, serves or is asked.
TypeOK == RunTypeOK /\ WorkTypeOK /\ AlertsTypeOK /\ WatchTypeOK

\* Nothing is torn down under something still using it: while work is in flight
\* the pool and the broker are open and the process lives, unless the work's own
\* server stopped waiting for it.
ServedToTheEnd ==
  {"postgres", "nats"} \cap closed # {} \/ phase \in {"down", "panicked"}
    => \A w \in Work : inside[w] \in {Nothing, Done} \/ w \in cut

\* An alert queued before shutdown reached the channel is pushed before shutdown
\* passes it (Alerter.Close), and what a look has found so far (Resources.Ready) was
\* so at some moment since the last look, however the dependencies went up and down
\* between its questions, unless shutdown overtook it.
AlertsAreTrue ==
  /\ "alerts" \in closed => owed = 0
  /\ \A d \in Watched : asked[d] = Unknown \/ asked[d] \in been[d] \/ Overtaken(d)

\* Shutdown ends, whatever is in flight and however full the queue.
ShutdownEnds == phase = "closing" ~> phase \in {"down", "panicked"}

\* "Close shuts everything down from the highest tier to the lowest ... It does not
\* stop at the first failure: a broker that refuses to drain must not leave the pool
\* open" (registry.go): a process that has stopped left nothing open.
EverythingCloses == phase \in {"down", "panicked"} => closed = Names(opened)
=============================================================================
