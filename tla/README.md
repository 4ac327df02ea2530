# Srosha: a verification development in TLA+

Srosha takes messages from customers' programs, stores them, sends them over a
customer's own channels (Telegram, mail, push, ...) and calls the customer back
with the outcome. This directory models the parts of it where something can go
wrong between two steps, checks them with TLC on small instances and proves the
safety properties of all of them, for every size, with TLAPS.

Paths below are relative to the repository root. `PROJECT.json` lists, for every
definition that models code, the lines it models, and for every property a
plausible bug that it catches.

## 1. The system

Four binaries over one PostgreSQL database and one NATS JetStream stream:

| binary | what it does | concurrency in it |
| --- | --- | --- |
| gateway | gRPC: authenticate, limit, store, publish; registers callbacks and sending identities | a goroutine per call, several replicas |
| dispatcher | consumes the stream and sends; sweeps the table for deliveries nobody was told about; retention; disk alert | a worker pool, a scheduler, several replicas |
| console | web pages for customers and operators | a goroutine per form |
| migrate | the schema | runs alone |

The code is layered: `internal/core` (domain and use cases), `internal/adapter`
(database, broker, senders, secrets, rate limit, transport), `internal/infra`,
`internal/bootstrap`. The components interact through the database rows, the
stream and, inside one process, shared memory; no component calls another binary.

### Inventory

| component | state it keeps | operations | what is hard | what makes it correct |
| --- | --- | --- | --- | --- |
| dispatch and recovery (`usecase/dispatch.go`, `domain/delivery`, `postgres/delivery.go`, `mq/nats/consumer.go`) | `deliveries` (status, claim, age), `notifications.notified_at`, the stream's unacknowledged events, each worker's copy | Handle, Recover, deliver, Release, RecordSent, RecordFailure, announce | redelivery, a sweep and a consumer on one row, stale copies, leases, crashes, lost acks | each delivery settles once; a message is announced once, truthfully, and not forgotten; every delivery settles |
| intake (`grpcsrv/interceptors.go`, `grpcsrv/notification.go`, `usecase/submit.go`, `postgres/notification.go`, `sdk/go/internal/retry`) | `notifications`, `deliveries`, the stream; the client's attempt count | authenticate, read the request, Admit, check of the key, write in one transaction, raced, publish; the client's retries | overlapping attempts with one key, commits whose answer is lost, refusals from within the transaction, publish after commit | one message per source and key; a message has all its deliveries or is not there; a receipt names a stored message of the caller's own; no event without a row |
| callbacks (`usecase/register.go`, `domain/webhook`, `notifier`, `secret/webhook.go`) | the `webhooks` row | Register, Redirect, RotateSecret, Activate, Deactivate, Notify, RecordSuccess, RecordFailure | announcements in flight while the source edits the row; a failure counter shared by workers; two-step first registration; a secret whose answer is lost | an address the source left before is not called, a secret it rotated away before is not signed with; a dead endpoint is switched off |
| review and people (`usecase/operator*.go`, `source.go`, `gate.go`, `domain/source`, `domain/user`) | `sources`, `users`, `audit` | Register, Update, Approve, Refuse, Suspend, Restore, SetRole, SetPersonActive, the audit gate | every form decides on a copy and writes it back; audit and change are two writes | a source is in one of four states; only operators decide; changes are recorded first, and of somebody else where that is the rule |
| rate limit (`ratelimit/memory.go`) | a bucket per source, the time of the last sweep | Allow, sweep | the clock is read before the lock; full buckets are dropped | nobody gets more than the quota; dropping a bucket changes no answer |
| stored secrets (`pkg/crypto/keyring.go`, `secret/keeper.go`) | sealed columns, each process's keyring | Seal, Open, Material with reseal, Replace, Issue; the operator's key change | rolling restart with two keyrings; reseal races replace | what is stored always opens; a replaced secret never comes back; old keys can be dropped |
| sending identities (`usecase/credential.go`, `usecase/trial.go`, `domain/credential`, `postgres/credential.go`, `sender/registry.go`) | `credentials` with at most one default per source | Register, SetDefault, Activate, Deactivate, Rotate, Update, Trial, the choice at sending | transactions that move the default wait for each other's row locks; the choice and the secret are two reads | one usable default or none; a refused move changes nothing; we never stand in for a customer who has identities, nor send as another; a replaced secret is not used by a later send |
| retention (`usecase/retention.go`) | none of its own | Purge | deletes rows under workers | nothing is said about deleted rows (part of Dispatch, Intake) |
| sign-in and sessions (`usecase/signin.go`, `web/session.go`, `mailer`) | `login_codes`, `sessions`, the cookie | Request, Verify, Whoami, End, the guard of every page | read-check-write of a code; count, then create; a session checked in three statements | a spent code stays spent; the limit counts letters; nobody is let in after losing the right to |
| api keys (`usecase/key.go`, `domain/source/auth.go`, `auth/apikey.go`) | `api_keys` | Issue, Revoke, Authenticate, RecordUse | a key named by somebody else's source; use of a key just revoked | only the owner issues and revokes; a revoked key lets nobody in |
| token caches (`infra/googleauth`, `infra/appleauth`) | a bounded map of sources, a token in each | Open, Token, Expire | Expire racing a fresh token; the map at its cap; an exchange nobody waits for | a token that was refused is not taken again; no more tokens are made than the cache's losses explain |
| capacity and alerts (`usecase/capacity.go`, `adapter/alert`, `bootstrap/watch.go`) | the last level and the last look; a bounded queue | Check, compare, Notify, Close | a look overtaken by shutdown; a queue drained while it fills | a look reports what was so; what was queued before shutdown is sent |
| lifecycle (`registry`, `bootstrap`, `infra/scheduler`, `grpcserver`, `httpserver`) | open dependencies by tier | open in order, Run, Close, abandon | a signal during the start; shutdown while handlers run | nothing is closed under work that is waited for; shutdown ends |
| senders (`adapter/sender/*`, `infra/smtp`) | none | New, Send, classify | eight vocabularies of refusal; answers that are lost or cannot be read | accepted, temporary, permanent and unreachable are told apart; a repeated attempt makes no second event where the provider can tell |
| queries, transport, configuration, migrations | none | | | read only, translation, or run once |

The hazards, each at the line where it bites and with the properties that would
catch it, are in `PROJECT.json`.

## 2. The modules

| module | models | state ↔ code |
| --- | --- | --- |
| `Dispatch` | the life of a delivery from the committed row to the callback | `phase`, `expireAt`, `outcome`, `rowAge`, `claim`, `notified`: columns; `queue`, `tries`: the stream and NumDelivered; `pc`, `job`, `last`, `verdict`, `view`, `batch`: where a worker is in `Handle`/`Recover`/`deliver`/`announce` and the row it read |
| `Settlement` | what `Dispatch` promises: a delivery is settled once, a message told once, with the settled outcomes | abstract |
| `DispatchProofs` | proofs for `Dispatch` | |
| `Intake`, `IntakeProofs` | the client's `Submit` with retries, the interceptors and `Submitter.Submit` | one `pc` per attempt; tables as sets of attempts |
| `Acceptance` | what `Intake` promises: a message is accepted at once with its deliveries, one per source and key; events are of accepted messages; a caller is told once, of its own | abstract |
| `Callback`, `CallbackProofs` | one webhook row under API calls and announcements | the row's columns; one `pc` per call and per announcement; what was asked for and stored since an announcement read the row (`stood`, `sealed`) |
| `Review`, `ReviewProofs` | sources, API keys and people under forms of the console, keys in use beside it | a form's copy (`draft`) between read and write; the audit gate's three steps; a key let in whose use is still to be written down (`calling`) |
| `RateLimit`, `Quota` | the limiter in memory, and one that never drops a bucket | map of buckets, time of the last sweep; a call between clock and lock |
| `Sealing` | sealed columns and keyrings during a key change | `settings` (environment), `ring` (per process), `sealed` (column); a task between read and write |
| `Credential`, `CredentialProofs` | sending identities of several sources on one channel | rows with owner and secret, row locks of open transactions, a sender between choosing and opening |
| `Answers` | what each sender package makes of settings, message and answer: pure operators | one group per channel, one operator per function |
| `Tokens` | the two minters and their caches | the map, the sources behind it, each source's token |
| `Sending`, `SendingProofs` | attempts to send, which use both | one `pc` per attempt, and the identity resolved for it; what the provider did and what the attempt reported; the transactions a homeserver has made events of |
| `SignIn`, `SignInProofs` | login codes, sessions and the guard, for one address | rows of `login_codes`, `sessions`, `users`; one `pc` per request, with the reading of a code, its check and its writing back as three steps; the browser's cookie |
| `Lifecycle` | the four binaries' start, readiness loop, alerts and shutdown | `plan` and `opened`: the registry's steps; `inside`: work in a server; `queue`, `worker`: the alerter; `asked`, `down`, `seen`: the watcher, and `been`: what was so since its last look |
| `ProcessProofs` | proofs for the three modules about what one process keeps in memory: `Lifecycle`, `RateLimit`, `Sealing` | |
| `MC*` | instances for TLC | |

`RateLimit` and `Sealing` begin the names of their parts with their own
(`LimitInit`, `SealingNext`, ...), so that `ProcessProofs` can extend both beside
`Lifecycle`.

One action is one statement, one transaction, one call over the network or one
critical section: the grain at which the processes can interleave. An action
that models a statement has a sibling (`...Fails`) for the statement's failure,
because the code goes a different way then. Names follow the source.

Data are abstracted to what the properties tell apart: a message is a model
value, a provider's answer is a status, a code and whether its body can be read
(and, in `Dispatch`, what `Answers` makes of that), a sealed value is its plaintext and its key, ages are
small numbers compared with the thresholds. Wording, formatting and logging are
left out.

### Dispatch

`Accept` is the committed row (the gateway's side of it is `Intake`). `Publish`
puts an event in the stream, any number of the rows may never be published. The
broker offers an event up to `MaxAttempts` times (`Receive`), and offers it
again if the acknowledgement was lost or the handler returned an error. A
consumer walks `Handle → deliver → record → announce → ack`; a sweeper walks
`Recover → judge → deliver → record → announce → next row`; both share every step
after the row is loaded, as the code does. `Recover` is the statement that claims
the oldest stale rows, `RecoverFails` the same with its answer lost, and `Judge`
the clock that is read after it and says for which rows this is the last chance
(`RECONCILE_GIVE_UP`). A message has a deadline or none (`Deadlines`), and an event
whose count or content cannot be read is terminated by the broker. A worker decides on the row it *read*
(`view`), and writes with the statement's own condition (`Update`: only if
pending; `ClaimAnnouncement`: only if not yet announced). `Tick` ages rows and
claims; `Purge` is retention; `Crash` loses everything a process held in memory.

### Composition

`Intake` ends where `Dispatch` starts, at the committed rows: `Intake` shows
that an accepted message has all its rows and that an event names a committed
row, which is what `Dispatch`'s `Accept` and `Publish` assume. `Acceptance` says
this on its own, with no requests and no races, and `Intake` is shown to
implement it: every step of the gateway is one of `Accept`, `Publish`, `Tell`
and `Forget`, or changes nothing that they speak of. `Sending` is the
step `Dispatch` takes as `Send`: its outcomes are the verdicts there. `Callback` is the
row that `Dispatch`'s `Notify` calls, `Credential` the choice behind its `Load`,
and `Sealing` the column `Credential`'s `Material` reads. They are separate
modules because they share no variable that two of them write.

## 3. Runs

`tlc -workers 2 -config X.cfg M`; every run takes under five minutes. One of the twelve
must find its property violated.

| run | instance | shows |
| --- | --- | --- |
| `handling` | two deliveries of one message without a deadline, a consumer and a sweeper, one attempt by the broker, leases that run out at once | `AnnouncedOnce`, `AnnounceNotMissed`, `OutcomeIsEarned` |
| `live` | one delivery with a deadline or none, a consumer and a sweeper, two attempts, a lease, one crash, retention, fair | `ExhaustedMeansSettled`, `EventuallySettled`, and the refinement `ImplementsSettlement` |
| `calls` | two calls by one or two sources with or without the key, well formed or not, the first tried twice | `ReceiptsAgree`, `StoredWhole`, and the refinement `ImplementsAcceptance` |
| `callback` | two API requests, two announcements, two addresses, two secrets, limit 2 | `CallsAsRegistered`, `DeadIsSwitchedOff` |
| `decisions` | two people, four sources, an API key, four forms, two open at a time | the four states (in `TypeOK`), `ChangedOnlyByTheEntitled`, `OwnedWithinLimit` |
| `limiter` | two sources, two calls that get the lock in any order, bucket of two, sweep every three | `WithinQuota`, and the refinement `ImplementsQuota` of every call that was not overtaken |
| `keychange` | one identity, one callback, two processes, three tasks, three keys, fair | `AlwaysOpens`, `RotationStands`, `IdentitiesMoveOn` |
| `identities` | two sources, two identities, two requests, one change of a secret, a message or a trial | `DefaultStands`, `NeverStandsIn` |
| `sending` | each of the eight channels, two attempts at a time, two deliveries, two identities, a cache of one, two tokens; mail servers at port 25 and 465 | `OutcomeIsTrue`, `OneEventPerAccount`, `TokensAccountedFor`, `RefusedTokenNotReused` |
| `signin` | two requests for a code, two tries, one page after another, two under way at a time; one letter per window | `SpentStaysSpent`, `LimitCountsLetters`, `LetInOnlyWhileSignedIn` |
| `lifecycle` | each of the four binaries, with and without an operator's channel, one piece of work, a queue of one, one change outside, fair | `ServedToTheEnd`, `AlertsAreTrue`, `ShutdownEnds` |
| `shutdown` | the same without changes outside | a comment that the code does not keep: `EverythingCloses` is violated (section 6) |

**Why the bounds are enough.** Each is chosen so that the case it is about
happens: two deliveries, because "all settled" needs a last and a last but one;
a consumer *and* a sweeper, because they are the only two ways in and share the
row without sharing a claim; `MaxAge` 2 crosses both thresholds of a row's age;
the ages stop counting there since no threshold lies beyond, and a deadline above
`MaxAge` is one that never comes. A message without one is settled by the give-up
age alone when its provider answers "temporary" for ever: a sweep that does not
give up (`PastGiveUpByTries`) leaves it pending in `live`. `handling` has no
deadline, so that every path there runs into that age. Two attempts of one
call and one of another give every overlap of two requests with one key and of
an attempt with its own successor; the three forms are one that is right, one
that cannot be read and one that is turned down within the transaction; any
request may be turned down when its routes are resolved (`Refuse`), and the
other forms of `AllForms` take these ways, too. Two
announcements reach the limit of two together, one after the other or with a
success between, and `MaxCount` 3 lets a failure come after the limit. Two
secrets are a rotation. Two sources with two identities are the least in which
one could be sent as the other. In `sending` the cache holds one of two
identities, so that every other opening drops a source somebody may still use;
the answers are every status and code a `classify` tells apart and one it does
not. Each attempt resolves its own identity, so that the next attempt at a delivery
may speak as another. In `signin` lifetimes are two ticks of a clock that runs for two, so that each
deadline passes before, between and after the statements of a request, and a
session that was touched still ends; two requests and one letter per window are
the least in which the second is one too many. There is one clock, as one console
process has; the code compares its own time with times it stored itself.
`MaxNow` lets every bucket fill, be dropped and be made again. Three keys are
two key changes, one after the other. Counters that only grow (`MaxCount`,
`MaxSecrets`, `MaxCrashes`, `MaxNow`, `LastKey`, `MaxChanges`, `MaxMinted`,
`MaxExcused`, `MaxOrphans`, `MaxClock`, `MaxNews`) are bounds of the instance
and guard the action that would pass them; `MaxOpen` bounds how many forms or
requests are under way at once, and appears in `OwnedWithinLimit`, whose bound
depends on it.
The safety properties of all modules are proved besides, for every value
(section 4).

**Symmetry.** Used only in runs without a liveness property, over sets that no
definition and no constant tells apart: the deliveries of one message
(`SameRows`), sources of calls (`SameSources`), callers, workers and addresses
of a callback, forms and the sources of one owner, callers and sources of the
limiter, requests and sources of `Credential`, attempts and deliveries of
`Sending`, the requests of `SignIn`.

**Deadlock.** Checked for `Sealing` and `Credential`, where somebody can always
go on; for `Credential` it says that transactions that wait for each other's
rows never all wait. The other models have a last state: all calls answered, all messages
purged, time at its bound.

### Fairness

* `Dispatch`: workers carry on with the handler they are in, the scheduler runs
  `Recover` for ever (`bootstrap/dispatcher.go` registers it as a recurring
  job) and time passes. No fairness is assumed of the broker, of a publication,
  nor of the providers, which may answer "temporary" for ever: a delivery settles
  because its age passes `RECONCILE_GIVE_UP`, whether it has a deadline or not. A lookup or a write of a sweep may
  fail again and again, but not every time (strong fairness of `Recover`, `Load`
  and `Record`).
* `Sealing`: messages keep coming for every identity, a process that was told to
  restart does, the operator carries on with the change, and a reseal does not
  fail every time it is tried. The first of these is what "in the end" rests on: an
  identity that is idle or switched off is not read, and stays under its old key
  ("Whatever nobody reads is left to a job", `adapter/secret/keeper.go:126`; there is
  no such job).
* `Lifecycle`: what has begun goes on: the next step of the start or of the
  shutdown is taken (one goroutine, which nothing else holds up), the alert
  worker pushes, and work ends: every statement, call and push has a timeout of
  its own. `ShutdownEnds` counts the panic of section 6 as an end. Nothing is assumed of signals, of new work or of the world outside.

The other modules state safety only and have no fairness.

## 4. Proofs

Checked by `tlapm`; nothing is assumed but the named `ASSUME`s of the modules.
There is one theorem for the type invariant of each component (`TypeCorrect`, in
`ProcessProofs` with the component's name before it) and one for each safety
property that a run finds to hold, the action property `RefusedTokenNotReused` and
the refinements among them. The run shows the property on an
instance; the theorem shows it for every value of the constants. None of the
properties is inductive by itself: what has to be added, below, is what a
process that read something earlier still knows when it writes.

| module | theorem | states |
| --- | --- | --- |
| `DispatchProofs` | `AnnouncedAtMostOnce` | `AnnouncedOnce` |
| | `AnnouncementNotMissed` | `AnnounceNotMissed` |
| | `OutcomesAreEarned` | `OutcomeIsEarned` |
| | `ExhaustedIsSettled` | `ExhaustedMeansSettled` |
| | `Refinement` | `ImplementsSettlement` |
| `IntakeProofs` | `StoredIsWhole` | `StoredWhole` |
| | `ReceiptsAlwaysAgree` | `ReceiptsAgree` |
| | `Refinement` | `ImplementsAcceptance` |
| `CallbackProofs` | `CalledAsRegistered` | `CallsAsRegistered` |
| | `DeadSwitchedOff` | `DeadIsSwitchedOff` |
| `ReviewProofs` | `OnlyTheEntitledChange` | `ChangedOnlyByTheEntitled` |
| | `OwnedAlwaysWithinLimit` | `OwnedWithinLimit` |
| `SendingProofs` | `OutcomesAreTrue` | `OutcomeIsTrue` |
| | `OneEventForEach` | `OneEventPerAccount` |
| | `TokensAlwaysAccounted` | `TokensAccountedFor` |
| | `RefusedNeverReused` | `RefusedTokenNotReused` |
| `ProcessProofs` | `ServedUntilTheEnd` | `ServedToTheEnd` |
| | `AlertsAlwaysTrue` | `AlertsAreTrue` |
| | `QuotaHolds` | `WithinQuota` |
| | `QuotaImplemented` | `ImplementsQuota` |
| | `NothingIsLost` | `AlwaysOpens` |
| | `RotationsStand` | `RotationStands` |
| `CredentialProofs` | `DefaultAlwaysStands` | `DefaultStands` |
| | `SenderNeverStandsIn` | `NeverStandsIn` |
| `SignInProofs` | `SpentAlwaysStaysSpent` | `SpentStaysSpent` |
| | `LimitAlwaysCountsLetters` | `LimitCountsLetters` |
| | `OnlySignedInAreServed` | `LetInOnlyWhileSignedIn` |

**`DispatchProofs`.** For any deliveries, messages, consumers, sweepers,
processes, thresholds and batch size (the four assumptions of `Dispatch`). There
are three inductive invariants, one for each question.
Which actions write a variable is a lemma for each (`TriesOnlyByHandle`,
`NotifiedOnlyByClaim` and so on), so that every proof looks only at those.

* *Once, and for good:* `TypeOK ∧ Known ∧ OneHolder ∧ ViewsFinal ∧
  AnnouncedFinal`. `AnnouncedOnce` alone is not inductive: between the claim of
  the announcement and the callback nothing has been told yet, so one has to
  know that at most one worker is in that window per message (`OneHolder`, from
  the conditional stamp of `ClaimNotificationAnnouncement`), that the stamp is
  set while it is there, and that the outcomes it read are final (`ViewsFinal`,
  because a settled row is never written again: `WHERE status = 'PENDING'`). What
  was told before stays so for the same reason (`AnnouncedFinal`). The
  refinement of `Settlement` follows from the same invariant.
* *Earned:* `EarnedInv`. Whether an attempt is the last is decided when it
  starts and used when it ends; `LastIsFinal` says it is still true then,
  because offers are counted upwards and ages only grow. `VerdictsEarned` carries what the provider said to the statement
  that writes it.
* *Not forgotten:* `CareInv`. Who settles the last row and who announces need
  not be the same; `StampedIsCalled` says that the stamp stands for a callback
  made or one in hand, `GoneIsPurged` that nobody gives up for a message that is
  still there, and `LastOfferInHand` that after the broker's last offer a
  consumer that knows it is the last has not recorded yet, or the row is settled.

**`IntakeProofs`.** For any calls, attempts per call, sources, keys and
recipients. `UnsentIsUnborn` (an attempt begins once), `StoredByWriter` (what is
stored was stored at its request's one write, and an event is of what its
request stored), `ReadBeforeWrite` (the early returns of reading and resolving
lie before the write), `AnswersReal` (an answer in hand that names a message
names a committed one of the same source and key, so that retention and a lost
reply do not matter) and `OnePerKey`, the unique index. `ReceiptsAgree` is about
what clients hold; it follows from the last two. The refinement of `Acceptance`
needs in addition what a caller may be told (`CallerInv`): one without a key is
attempted once (`OneTry`), since the client repeats nothing that it cannot repeat
safely, and only a request with a key looks for another's message (`TellsItsOwn`).
So two calls of one source without a key, which the unique index lets stand side
by side, never hear of each other's message.

**`CallbackProofs`.** For any requests, announcements, addresses and secrets and
every limit of failures. `RequestsGrounded` and `WorkersGrounded`: whoever is
past its first reading has a row under it, because rows are never deleted.
An announcement reads the address and the secret by two statements, and calls
later; `SealedSince` says that the secret there is now is one of those stored since
the first, which is what makes the second statement's answer one of them too, and
with the row's address (`url = asked`) that nothing from before is called or signed
with.

**`ReviewProofs`.** For any people, sources, keys and forms under way.
`Recorded` and `Entitled` are what the gate leaves true until the statement:
the attempt is in the audit, the actor had the grade, and what the request is
about is still the actor's, since ownership never changes. `NamesAreNew` and
`UnmadeIsQueued` say that ids are not shared and a source is born in the queue.
The four states need that an operator's statement writes all of the operators'
columns and a customer's none of them (`DecisionsStayInStates`,
`AddressIsNotDecided`). A key is looked up by one statement and its use written down
by a later one that asks nothing, so the property speaks of letting somebody in
(`GatewayStep`), and not of the mark. For the limit, `Counted` reckons a registration under
way as the source it may become: owned and under way together stay below
`MaxSources + MaxOpen`. `MaxOpen` is at least one, as there is a form at all.

**`SendingProofs`.** For any attempts, deliveries and identities, every size of
the caches and every address of a mail server. There are four parts, which meet in
`IInv`.

* *What an answer says.* One lemma for each channel (`TelegramSays` and so on)
  shows `SaidOf`: whatever became of a call, and whatever of the answer can be
  read, the sender's reading of it claims no more than is so. Six of the eight
  read an answer the same way (`Reading`), and `ReadsRight` asks of each only
  that it tells a failure from a success and knows which failures are final
  (`Decides`). That is about the statuses and codes of `Says`, all of them,
  and about every number an address may have in it (`OneNumber`, `LostMail`).
  `AddressesAgree` is the pair of checks written twice: no address that the
  gateway lets in is one the sender cannot use, so `PreparationKinds`: an
  attempt never ends for an address.
* *The minters.* `MadeWithReason`: a source has made a token more than its
  excuses only while it holds a good one. `MapCounted`: a source that was opened
  is in the map or went with it, when it was full. `TokensApart`: no two sources
  hold one token.
* *Attempts and tokens.* `RefusedTokenNotReused` needs that a refused token is
  held by nobody when its refusal has been handled (`DeadAreGone`). Throwing away
  whatever a source holds gives this only because no other source can hold
  the attempt's token (`Signs`: not even when the map was cleared meanwhile
  and the identity has a second source). What the attempts need to know of the
  minters is `Moves`: a source keeps its token, loses it, or gets one that
  nobody has seen.
* *Events.* `EventsOfDeliveries`: an event was made under the id of what it is an
  event of; `TakenHaveEvents`: a message that a homeserver took has its event, made
  for this attempt or an earlier one of the same account. One event per account
  follows from the id being the delivery's and nothing else's (`AcceptMakes`).

**`ProcessProofs`, `Lifecycle`.** For any set of binaries, any work, every queue
and any number of changes outside. A plan is any sequence of the registered
steps (`PlanKnown`, from the wiring of the four binaries: `PlansAreSteps`), and
`StepFacts` says what a step's name tells of its tier. `WalkInOrder`: nothing of
a tier is closed, or being closed, while something above it is open; with
`ServersEmptied` (a server that has closed has nothing inside but what it stopped
waiting for) that is `ServedToTheEnd`. `OwedIsQueued`: what was queued when
shutdown reached the channel is in the queue until the worker goes, and it does
not go before. `LooksAreTrue`: how a dependency is
now belongs to what it has been since the last look, so an answer given now is
true, and stays so (`OvertakenStays`: once overtaken by shutdown, a look is so for
good; section 6).

**`ProcessProofs`, `RateLimit`.** For every rate, burst, sweep interval, and any
number of sources and calls: `LimitTypeCorrect`; `QuotaHolds`, that a source is
let through for at most a full bucket, the refill of the time that passed and the
time by which calls overtook each other between reading the clock and getting the
lock, whether they do or not. The invariant is a balance: what was
spent plus what is in the bucket is bounded by what came in, where a dropped
bucket counts as full, which is why only a full one may be dropped. And
`QuotaImplemented`: `Quota` keeps every source's quota for ever and refills all of
them up to each call's reading. A call that was not overtaken reads a time no
earlier than any in the buckets, and refilled to the last reading and then to this
one is refilled once (`RefilledHolds`), so a bucket, a dropped bucket and the quota
hold the same. The exception, a call that gets the lock after one that read its
clock later, is in the statement; nothing is assumed of how long calls wait.

**`ProcessProofs`, `Sealing`.** For any number of keys, processes, tasks and
values: `SealingTypeCorrect`, `NothingIsLost` and `RotationsStand`. The invariant
adds to these that everything in a task's hand is sealed under a key its process
has (`SealsAreShared`), that a fresh seal names a key of *every* process
(`FreshlySealed`, because the id is pointed at a key only after all processes
have it) and that a key is dropped only when nobody seals with it (`KeysKept`).

**`CredentialProofs`.** For any sources, identities, requests, messages and
changes of a secret. `Indexes` are the two unique indexes and that a default is
switched on; `JobsAreOwn` and `ClearsItsOwn` say that a transaction that moves
the default has rows of its own source in hand and a new row nobody else writes,
so that nobody else's default goes with it and a refused move leaves the
source's own as it was. `SendsAreOwn`
and `NoneIsStale` say what a message has settled on at each step between the
choice, the secret and the send, and that the secret it opened is no older than
the one that stood when it was begun.

**`SignInProofs`.** For any requests, lifetimes, windows and limits.
`RowsAreAsked` ties the rows that are counted to the requests that are past
their count; `HeldIsRead` that a copy is of the row it will be written over.
`TriedIsRefused` is the point of `SpentStaysSpent`: two tries overlap, and the
slower writes its copy over the spent row. The proof shows why this brings nothing
back: `Check` leaves a copy unused only past its deadline, and the row is then
refused for that, however much later it is written. `SessionsAreBegun` says that an ended
session does not come back (a touch updates, it does not insert), and
`VisitsAreEntitled` what a visit knows between its three statements. `Roles` has
to contain the two roles the program gives out itself.

**Only model-checked.** Liveness (`EventuallySettled`, `IdentitiesMoveOn`,
`ShutdownEnds`): the prover does not reason about fairness and `ENABLED`. No
recursive definition is used. `Quota`, `Settlement` and `Acceptance`,
the abstract specifications, have no properties of their own.

## 5. Properties and the code they guard

Every property has a mutant: a definition next to the one it changes, marked
`\* mutant`, that makes the change a careless edit of the source would make
(dropping `AND notified_at IS NULL`, moving a publish before the commit, a
`<=` for a `<`, writing a whole row back). TLC finds each property violated
under its mutant.

The properties relate what was read to what is so when it is used:

* `OutcomeIsEarned` — a row says sent only if a provider accepted it, and failed
  for want of time only if time had run out, whoever sent and whoever recorded.
* `AnnounceNotMissed` — two workers that settle the last two rows of a message do
  not each leave the announcement to the other. A worker whose record was made and
  whose answer was lost counts as disturbed, and its message is exempt.
* `EventuallySettled` — also of a message without a deadline whose provider never
  gives a final answer.
* `CallsAsRegistered` — an announcement calls an address that was the last one
  asked for when it read the row or later, and signs with a secret that was stored
  then or later, never with none.
* `ChangedOnlyByTheEntitled` — whether a source may send, a role, who may sign in
  and a key change only by a recorded request of somebody entitled, though every
  form writes a copy it read earlier; a revoked key lets nobody in.
* `DefaultStands` — of each source: never two defaults, never one that is
  switched off, and a default goes only when it is moved or withdrawn.
* `NeverStandsIn` — a message is sent as an identity of its own source, with a
  secret that stood while it was being sent, and as the service only if the
  source had no identity there.
* `OutcomeIsTrue` — what an attempt reports is what the provider did or said,
  for every answer of every channel; a refusal for good is reported only when
  asking again cannot help. Mail to a server whose address holds a number that reads
  as a refusal for good is left out (section 6); in the run no address does, 25 being
  no reply and 465 a temporary one.
* `OneEventPerAccount` — an account puts a delivery in a room once, however many
  attempts overlap or get no answer, and has put it there when it is reported sent.
  Another account may put it there again (section 6).
* `TokensAccountedFor`, `RefusedTokenNotReused` — every token beyond the first of
  a source is excused by one that aged, was thrown away or dropped with its
  source; after APNs refused a token as expired nobody takes it again.
* `SpentStaysSpent` — a code at which an attempt was recorded is refused for good,
  though overlapping tries write stale copies over the row.
* `LimitCountsLetters` — of requests that do not count at the same time: those
  together exceed the limit by their number.
* `AlertsAreTrue` — what is queued when shutdown reaches the channel is pushed, and
  what a look finds was so at some moment since the last one, unless shutdown
  overtook it.
* `LetInOnlyWhileSignedIn`, `ServedToTheEnd` — as the comments above them say.

## 6. Where the code and its words disagree

One is a run that TLC must find violated, a finding.

* `shutdown`: "a broker that refuses to drain must not leave the pool open"
  (`registry/registry.go`). `registry.Postgres` registers the step "schema"
  without a close, and `Close` calls it all the same: closing any of the three
  services panics there, before the pool is closed.

The following are plain contradictions, too. Each is a behaviour of the module
named, which no run refutes: the property named after it leaves that case out or
says less than the words do.

* `Lifecycle`, `AlertsAreTrue`: "compare reports what changed since the last look,
  and nothing else" (`bootstrap/watch.go:55`). A look that SIGTERM overtakes, or that begins
  after it (a due tick is as good as the end of the context), gets errors because
  its context is canceled, and reports dependencies that answered throughout as
  down.
* `Callback`, `CallsAsRegistered`: "Registering again to change the address returns
  an empty secret, because the existing one still stands" (`usecase/register.go:44`). Of two
  first registrations the second becomes a redirect and still issues a secret, so
  that the one shown to the first caller stops verifying. A callback is signed with a secret that stands, not
  with one that every caller knows.
* `Callback`, `DeadIsSwitchedOff`: "A new address gets a clean start"
  (`domain/webhook/service.go:23`). A failure is counted, and then the row is
  switched off by id (`service.go:77`): a redirect in between is switched off for
  its predecessor's failures.
* `Sending`, `OutcomeIsTrue`: an error without a code is transient
  (`email/errors.go:31`), and so is "never reached a server"
  (`email/sender_test.go:70`). `replyCode` takes the first number from 200 to 599
  that stands by itself in an error's text for the server's reply
  (`infra/smtp/errors.go:51`), and the errors of `net` name the address: a server at
  port 587 that cannot be reached is a refusal for good. A group of an IPv6 address
  may be such a number as well.
* `Sending`, `OneEventPerAccount`: a redelivered event "does not put the message in
  the room twice" (`matrix/sender.go:56`). A transaction belongs to an account, and the identity is
  resolved anew for every attempt: when the source's default moves between a lost
  answer and the next attempt, the message is in the room twice.
* `SignIn`, `SpentStaysSpent`: "A code is single use. Spent on the first attempt,
  valid or not" (`docs/superpowers/specs/2026-08-28-customer-portal-design.md:127`). A try reads
  the code, checks the copy and writes it back: two that read before either wrote
  both open a session, and guesses that overlap are each judged as the first.

Further observations made while modelling, each visible in the modules.

Dispatch and sending:

* "Whoever gets a row here owns it until the lease runs out or Release hands it
  back" (`domain/delivery/tracker.go:47`). A consumer whose send fails for the
  time being releases the row by id (`usecase/dispatch.go:221`), also when a
  sweep holds the claim, and a second sweep may then take it within the lease.
* `SendRetryAfter` is computed from the providers' answers and read by nobody
  but tests.
* APNs's ExpiredProviderToken in a body that cannot be decoded is a refusal for
  good and expires nothing; `Expire` throws away whatever token is held, also
  one signed since (`infra/appleauth/appleauth.go:143`). It costs a signature.
* A mail address go-mail cannot parse is a temporary failure, and is tried until
  the delivery is given up.
* `deliver` returns without `Release` when the message or the sender cannot be
  looked up (`usecase/dispatch.go:149,170`), so the lease also covers a
  dispatcher that is alive, where `queries/delivery.sql:71` says "the lease
  means one thing only: the dispatcher holding this row is gone".
* `deliveries.attempts` is the number stored plus one when the row settles, and
  failed attempts write nothing, so it is 1 however often the broker tried;
  `domain/delivery/entity.go:127` says it "comes from the broker".

Intake, callbacks and identities:

* The idempotency key is looked at before the message is, so a second request
  with a used key and a body that would be refused is answered as a duplicate.
* If the first registration stored the row and failed to issue the secret, none
  stands, and registering again issues none (`usecase/register.go:61-72`). An `Issue`
  whose answer is lost leaves one that stands and nobody was shown.
* "let old values reseal themselves as they are read, and drop the first when no
  value names it" (`docs/CONFIG.md:360`). A callback's signing secret is sealed
  under the same keys and `SecretFor` never reseals it
  (`adapter/secret/webhook.go:97`).
* "A full bucket answers exactly as a bucket that has never existed does, so
  throwing one away cannot change any future answer" (`ratelimit/memory.go:94`). Of
  a call that read its clock before the sweep that dropped the bucket and gets the
  lock after it (`memory.go:77-79`) this is not so: at its own time the bucket was
  not full. `ImplementsQuota` leaves out calls that were overtaken, and `WithinQuota`
  bounds the difference.

The console:

* "A source already approved cannot be refused" (`domain/source/entity.go:189`).
  True of the copy; a refusal that read the source before the approval is
  written over it (`postgres/source.go:105`). The four states allow that, and so do
  the properties: both decisions were an operator's, and recorded.
* A key is looked up and its use written down by two statements
  (`domain/source/auth.go:55,68`): a key revoked between the two, or whose source was
  suspended, is still marked as used after that.
* `Keys.Issue` builds the key itself and never calls `source.NewKey`, so an empty
  or overlong label is stored (`usecase/key.go`); a commit whose answer is lost
  leaves a live key nobody was shown.
* A code is spent by its first attempt, so `MaxGuesses` is never reached. A letter the
  mail server accepted with a lost reply is forgotten, and the code in it does
  not work; a forgotten newer code makes the one before it the newest again.
* The guard clears the cookie on any error, a failing database included; a
  sign-out whose delete fails clears the cookie and leaves the session valid
  (`adapter/api/web/session.go`).
* Two super_admins who demote each other at the same moment leave none: only the
  actor's own account is protected (`operator_people.go:71`).
* A source's limit is counted and then used: concurrent registrations can pass
  it by one less than their number (`OwnedWithinLimit` states that bound).
* Two requests that move a default at the same moment: the second finds no
  default to clear and fails on the unique index with an error instead of
  taking over. Nothing is damaged (`DefaultStands`).

Lifecycle:

* A dependency that goes down between the start, which needed it, and the first
  look is not told: that look is silent (`bootstrap/watch.go:57`), and the next news
  is that it is back.
* `Alerter.Close` waits for its worker whatever budget shutdown has left; a
  scheduler whose `Add` fails is never shut down; `abandon` closes with a
  context that may be canceled already.

## 7. Plan

Done, in this order: `Dispatch` and `Settlement`, `Intake`, `Callback`,
`Review`, `RateLimit` and `Quota`, `Sealing`, `Credential`; then `Answers`,
`Tokens` and `Sending`, `SignIn`, `Lifecycle`, API keys in `Review`,
reading the request in `Intake`, rotation, trials and a second
source in `Credential`; theorems for `Dispatch`, `RateLimit` and `Sealing`,
then for `Intake`, `Callback`, `Review`, `Credential` and `SignIn` and the
remaining invariants of `Dispatch`, and then for `Sending` with `Answers` and
`Tokens`, and for `Lifecycle`; `Acceptance` and the refinement of it by `Intake`.

Next: an abstract specification for `Credential` (one default, moved atomically),
with a refinement theorem.

## 8. Not modelled

Queries and listings (they change nothing), the translation of answers and pages
(what a request says is translated in `Intake`, and the forms are in `Review`),
configuration parsing, generated wire types, telemetry, the schema (its unique keys and
foreign keys are conditions of the actions that meet them), reconnecting to the
database and the broker, the cryptography itself (a sealed value opens
under its key and no other), and what providers do with an accepted message.
PostgreSQL, NATS, the clock and `golang.org/x/time/rate` are modelled from how
the code uses them and are marked external.
