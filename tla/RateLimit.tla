----------------------------- MODULE RateLimit ------------------------------
(***************************************************************************)
(* The rate limiter, internal/adapter/ratelimit/memory.go: one token       *)
(* bucket per source that has called lately, in a map behind a mutex.      *)
(*                                                                         *)
(* Allow reads the clock before it takes the lock, so calls may reach the  *)
(* buckets in another order than their readings.  Tokens are counted in    *)
(* the amount one tick of the clock refills: a call costs Unit, a bucket   *)
(* holds Burst calls.                                                      *)
(***************************************************************************)
EXTENDS Integers

CONSTANTS
  Sources,
  NoSource,
  Callers,     \* calls of Allow under way
  Unit,        \* ticks of the clock that refill one call
  Burst,       \* the quota, NOTIF_RATE_LIMIT
  SweepEvery,  \* sweepEvery
  MaxNow       \* bound: the last tick

ASSUME LimitAssumption ==
  /\ NoSource \notin Sources
  /\ Unit \in Nat \ {0}
  /\ Burst \in Nat \ {0}
  /\ SweepEvery \in Nat \ {0}
  /\ MaxNow \in Nat

Full == Burst * Unit

VARIABLES
  now,
  known,      \* sources with a bucket
  tokens,     \* in the bucket, when it was last touched
  last,       \* and when that was
  lastSweep,
  asking,     \* the source each call is for
  reading,    \* the time each call read
  spent,      \* what each source was let through for
  refused,    \* turns over with every call turned away
  slack,      \* how far calls out of order have set a bucket's clock back
  heard      \* the latest reading that has reached the buckets

buckets == <<known, tokens, last, lastSweep>>
calls   == <<asking, reading>>
ghosts  == <<spent, refused, slack, heard>>
limitVars == <<now, buckets, calls, ghosts>>

LimitInit ==
  /\ now = 0
  /\ known = {}
  /\ tokens = [s \in Sources |-> 0]
  /\ last = [s \in Sources |-> 0]
  /\ lastSweep = 0
  /\ asking = [c \in Callers |-> NoSource]
  /\ reading = [c \in Callers |-> 0]
  /\ spent = [s \in Sources |-> 0]
  /\ refused = [s \in Sources |-> FALSE]
  /\ slack = [s \in Sources |-> 0]
  /\ heard = 0

Tick ==
  /\ now < MaxNow
  /\ now' = now + 1
  /\ UNCHANGED <<buckets, calls, ghosts>>

\* now := m.now(), and the wait for the lock begins.
Ask(c, s) ==
  /\ asking[c] = NoSource
  /\ asking' = [asking EXCEPT ![c] = s]
  /\ reading' = [reading EXCEPT ![c] = now]
  /\ UNCHANGED <<now, buckets, ghosts>>

-----------------------------------------------------------------------------
(* Under the lock.                                                         *)

AtMost(n, cap) == IF n < cap THEN n ELSE cap
Excess(a, b)   == IF a > b THEN a - b ELSE 0

\* rate.Limiter: refilled since the last touch, to the brim and no further.  A
\* time before the last touch refills nothing.
TokensAt(s, t) == AtMost(tokens[s] + Excess(t, last[s]), Full)

SweptIdle(t) ==   \* mutant: whatever nobody has touched since the last sweep
  IF t - lastSweep >= SweepEvery
  THEN {s \in known : last[s] <= lastSweep}
  ELSE {}

SweptNearlyFull(t) ==   \* mutant: one call short counts as full
  IF t - lastSweep >= SweepEvery
  THEN {s \in known : TokensAt(s, t) + Unit > Full}
  ELSE {}

\* sweep: the buckets to drop, if it is time to look.
Swept(t) ==
  IF t - lastSweep >= SweepEvery
  THEN {s \in known : TokensAt(s, t) >= Full}
  ELSE {}

Sweep(t) == lastSweep' = IF t - lastSweep >= SweepEvery THEN t ELSE lastSweep

\* The bucket found or made for s, after the sweep.
Found(s, t) == IF s \in known \ Swept(t) THEN TokensAt(s, t) ELSE Full

EnoughAnyToken(s, t) == Found(s, t) > 0   \* mutant: a part of a token will do

\* AllowN(now, 1)
Enough(s, t) == Found(s, t) >= Unit

\* When a bucket, or the lack of one, was last known to be right.
Clock(s) == IF s \in known THEN last[s] ELSE lastSweep

\* What is left of a bucket that is dropped.
Keep(f, gone) == [x \in Sources |-> IF x \in gone THEN 0 ELSE f[x]]

\* The clocks of X are set to t.
SetBack(X, t) == slack' = [x \in Sources |->
                             IF x \in X THEN slack[x] + Excess(Clock(x), t) ELSE slack[x]]

\* Allow: sweep, find or make the bucket, spend or refuse.
Allow(c) ==
  LET s == asking[c]
      t == reading[c]
      gone == Swept(t)
  IN
  /\ s # NoSource
  /\ Sweep(t)
  /\ heard' = IF t > heard THEN t ELSE heard
  /\ known' = (known \ gone) \cup {s}
  /\ \/ /\ Enough(s, t)
        /\ tokens' = [Keep(tokens, gone) EXCEPT ![s] = Found(s, t) - Unit]
        /\ last' = [Keep(last, gone) EXCEPT ![s] = t]
        /\ spent' = [spent EXCEPT ![s] = @ + Unit]
        /\ SetBack(gone \cup {s}, t)
        /\ UNCHANGED refused
     \/ /\ ~Enough(s, t)
        /\ tokens' = Keep(tokens, gone)
        /\ last' = Keep(last, gone)
        /\ SetBack(gone, t)
        /\ refused' = [refused EXCEPT ![s] = ~@]
        /\ UNCHANGED spent
  /\ asking' = [asking EXCEPT ![c] = NoSource]
  /\ reading' = [reading EXCEPT ![c] = 0]
  /\ UNCHANGED now

LimitNext ==
  \/ Tick
  \/ \E c \in Callers : Allow(c) \/ \E s \in Sources : Ask(c, s)

LimitSpec == LimitInit /\ [][LimitNext]_limitVars

-----------------------------------------------------------------------------
(* Properties.                                                             *)

\* Every variable has its type, a bucket never holds more than the quota, and no
\* clock in the limiter is ahead of the readings (Memory, rate.Limiter).
LimitTypeOK ==
  /\ now \in Nat
  /\ known \subseteq Sources
  /\ tokens \in [Sources -> 0..Full]
  /\ heard \in 0..now
  /\ last \in [Sources -> 0..heard]
  /\ lastSweep \in 0..heard
  /\ asking \in [Callers -> Sources \cup {NoSource}]
  /\ reading \in [Callers -> 0..now]
  /\ spent \in [Sources -> Nat]
  /\ refused \in [Sources -> BOOLEAN]
  /\ slack \in [Sources -> Nat]

\* "Capacity = the configured quota, refill = that quota spread over a minute, so
\* the long run holds": what a source was let through for is at most a full bucket
\* and what the elapsed time refilled, whatever buckets were dropped and made again.
\* Calls that overtook each other between their clock and the lock add no more than
\* the time by which they set a bucket's clock back.
WithinQuota == \A s \in Sources : spent[s] <= Full + now + slack[s]

\* Why: what was spent and what is left never exceed what there was at the time the
\* bucket was last right.
Balance ==
  \A s \in Sources :
    IF s \in known
    THEN spent[s] + tokens[s] <= Full + last[s] + slack[s]
    ELSE spent[s] <= lastSweep + slack[s]

\* What the buckets hold at the latest reading: a source without one has everything.
Level == [s \in Sources |->
            IF s \in known THEN AtMost(tokens[s] + Excess(heard, last[s]), Full) ELSE Full]

Promise == INSTANCE Quota WITH clock <- heard, level <- Level

\* A call gets the lock after one that read its clock later.
OutOfTurn == \E c \in Callers : asking[c] # NoSource /\ reading[c] < heard /\ Allow(c)

\* "Throwing one away cannot change any future answer": with its buckets made and
\* swept the limiter answers as one that keeps every source's quota for ever.  So
\* does every call, however long it waits for the lock, but one that was overtaken:
\* that one may find a bucket dropped meanwhile which was not full at its own time.
\* Later calls are answered by the quota it left; WithinQuota says what it may gain.
ImplementsQuota ==
  Promise!Init /\ [][Promise!Next \/ OutOfTurn]_<<heard, Level, spent, refused>>
=============================================================================
