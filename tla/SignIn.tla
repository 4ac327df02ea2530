------------------------------- MODULE SignIn -------------------------------
(***************************************************************************)
(* Signing in to the console with a mailed code, and staying signed in     *)
(* (internal/core/usecase/signin.go, internal/adapter/api/web/session.go). *)
(*                                                                         *)
(* The model follows one address and the person behind it; rows of two     *)
(* people never meet.  Three kinds of request run beside each other, and   *)
(* each statement of one is a step: an ask stores a code and mails it, a   *)
(* try reads the newest code, checks it and opens a session, a visit is    *)
(* the guard in front of a page.  A code has the name of its ask and a     *)
(* session that of its try, for each makes at most one.                    *)
(*                                                                         *)
(* The clock is coarse.  Two codes may carry the same instant, and then    *)
(* either is the newest.                                                   *)
(***************************************************************************)
EXTENDS Integers, FiniteSets

CONSTANTS
  Asks, Tries, Visits,
  Roles,             \* the roles this person is given
  NoRow,
  Nobody,            \* in place of a session: no page asked for
  MaxCodeRequests, CodeRequestWindow,
  MaxGuesses,
  CodeLifetime, SessionLifetime, IdleTimeout,
  MaxClock,          \* bound: how far time runs
  MaxOpen            \* bound: requests under way at a time

ASSUME SignInAssumption ==
  /\ MaxCodeRequests \in Nat /\ CodeRequestWindow \in Nat /\ MaxGuesses \in Nat
  /\ CodeLifetime \in Nat /\ SessionLifetime \in Nat /\ IdleTimeout \in Nat
  /\ MaxClock \in Nat /\ MaxOpen \in Nat
  /\ Nobody \notin Tries
  /\ {"customer", "super_admin"} \subseteq Roles
  /\ Roles \subseteq {"customer", "admin", "super_admin"}

VARIABLES
  clock,
  \* the database
  account,       \* the row of users
  codes,         \* login_codes
  sessions,
  \* the requests
  askPc, askAt,
  tryPc, tryCode,
  held,          \* the code as a try read it, then as it checked it
  visitPc, visitTo, visitAt, rule,
  \* the world outside
  cookie,        \* sessions the browser still presents
  sent,          \* codes whose letter was accepted, and the mailer was told so
  mislaid,       \* codes stored or kept although the database said otherwise
  \* history
  tried,         \* codes at which an attempt was recorded
  late,          \* tries that read a code after that
  beyond,        \* asks that came when the letters of their window were out
  ended,         \* sessions signed out
  entitled       \* visits during which the person was allowed in

asks    == <<askPc, askAt>>
tries   == <<tryPc, tryCode, held>>
visits  == <<visitPc, visitTo, visitAt, rule>>
history == <<tried, late, beyond, ended, entitled>>
vars    == <<clock, account, codes, sessions, asks, tries, visits, cookie, sent, mislaid, history>>

Rules == {"anybody", "operator", "superAdmin"}
Times == 0 .. MaxClock

Account == [known : BOOLEAN, active : BOOLEAN, role : Roles]
Code    == [created : Times, attempts : 0 .. MaxGuesses + 1, used : BOOLEAN]
Session == [created : Times, seen : Times]

ASSUME NoRowAssumption == NoRow \notin Code \cup Session \cup Asks

-----------------------------------------------------------------------------
(* What the entities decide.                                               *)

\* The address nobody has used becomes a customer.
NewUser == [known |-> TRUE, active |-> TRUE, role |-> "customer"]

NewCode(now) == [created |-> now, attempts |-> 0, used |-> FALSE]

\* LoginCode.Check answers without looking at what was typed ...
Refused(c, now) ==
  \/ c.used
  \/ c.attempts >= MaxGuesses
  \/ now >= c.created + CodeLifetime

CheckKeeps(c, now, right) ==   \* mutant: a wrong guess costs nothing
  IF Refused(c, now) \/ ~right THEN c ELSE [c EXCEPT !.attempts = @ + 1, !.used = TRUE]

CheckUnmarked(c, now, right) ==   \* mutant: only the guess limit ends a code
  IF Refused(c, now) THEN c ELSE [c EXCEPT !.attempts = @ + 1]

\* ... and otherwise the attempt spends the code, right or wrong.
Check(c, now, right) ==
  IF Refused(c, now) THEN c ELSE [c EXCEPT !.attempts = @ + 1, !.used = TRUE]

NewSession(now) == [created |-> now, seen |-> now]

Valid(s, now) ==
  /\ now < s.created + SessionLifetime
  /\ now - s.seen < IdleTimeout

\* may: who a rule lets in, and whether a refusal also signs out.
Allows(ru, u) ==
  CASE ru = "anybody"    -> TRUE
    [] ru = "operator"   -> u.role \in {"admin", "super_admin"}
    [] ru = "superAdmin" -> u.role = "super_admin"

EndsSession(ru) == ru = "operator"

-----------------------------------------------------------------------------
(* The statements.                                                         *)

Rows == {a \in Asks : codes[a] # NoRow}

CountSinceNever(t) == 0   \* mutant: the window is not counted

CountSince(t) == Cardinality({a \in Rows : codes[a].created >= t})

\* ORDER BY created_at DESC LIMIT 1.
Newest(a) == a \in Rows /\ \A b \in Rows : codes[b].created <= codes[a].created

CreateCode(a) == codes' = [codes EXCEPT ![a] = NewCode(askAt[a])]

ForgetCode(a) == codes' = [codes EXCEPT ![a] = NoRow]

\* Whatever was read is written over what is there.
SpendCode(a, c) == codes' = [codes EXCEPT ![a] = c]

\* An UPDATE that finds no row changes nothing and is an error.
TouchSession(t, now) ==
  /\ sessions[t] # NoRow
  /\ sessions' = [sessions EXCEPT ![t].seen = now]

DeleteSession(t) == sessions' = [sessions EXCEPT ![t] = NoRow]

-----------------------------------------------------------------------------
Init ==
  /\ clock = 0
  /\ account \in {[known |-> FALSE, active |-> FALSE, role |-> "customer"],
                  [known |-> TRUE, active |-> TRUE, role |-> "super_admin"]}
  /\ codes = [a \in Asks |-> NoRow]
  /\ sessions = [t \in Tries |-> NoRow]
  /\ askPc = [a \in Asks |-> "new"] /\ askAt = [a \in Asks |-> 0]
  /\ tryPc = [t \in Tries |-> "new"]
  /\ tryCode = [t \in Tries |-> NoRow] /\ held = [t \in Tries |-> NoRow]
  /\ visitPc = [v \in Visits |-> "new"] /\ visitTo = [v \in Visits |-> Nobody]
  /\ visitAt = [v \in Visits |-> 0] /\ rule = [v \in Visits |-> "anybody"]
  /\ cookie = {} /\ sent = {} /\ mislaid = {}
  /\ tried = {} /\ late = {} /\ beyond = {} /\ ended = {} /\ entitled = {}

\* A visit asks for one page after another.
Between(v) == visitPc[v] \in {"new", "served", "refused"}

\* The requests under way, of all three kinds.
BelowOpen ==
  Cardinality({a \in Asks : askPc[a] \notin {"new", "closed"}})
    + Cardinality({t \in Tries : tryPc[t] \notin {"new", "closed"}})
    + Cardinality({v \in Visits : ~Between(v)}) < MaxOpen

\* Time passes, between any two steps of a request.
Tick ==
  /\ clock < MaxClock
  /\ clock' = clock + 1
  /\ UNCHANGED <<account, codes, sessions, asks, tries, visits, cookie, sent, mislaid, history>>

\* An operator switches the person off or on, or changes their role: one statement.
Govern(u) ==
  /\ account.known /\ u.known /\ u # account
  /\ u.active = account.active \/ u.role = account.role
  /\ account' = u
  /\ entitled' = entitled \cup {v \in Visits : /\ visitPc[v] = "user"
                                               /\ u.active /\ Allows(rule[v], u)}
  /\ UNCHANGED <<clock, codes, sessions, asks, tries, visits, cookie, sent, mislaid,
                 tried, late, beyond, ended>>

-----------------------------------------------------------------------------
(* Request: asking for a code.                                             *)

AskMoves(a, from, to) == askPc[a] = from /\ askPc' = [askPc EXCEPT ![a] = to]

\* Somebody who may not sign in is sent nothing and told nothing.
Find(a) ==
  /\ BelowOpen
  /\ AskMoves(a, "new", IF ~account.known THEN "make" ELSE IF account.active THEN "count" ELSE "closed")
  /\ UNCHANGED <<clock, account, codes, sessions, askAt, tries, visits, cookie, sent, mislaid, history>>

\* The second of two askers finds the address taken and is told of a failure.
CreateUser(a) ==
  /\ AskMoves(a, "make", IF account.known THEN "closed" ELSE "count")
  /\ account' = IF account.known THEN account ELSE NewUser
  /\ UNCHANGED <<clock, codes, sessions, askAt, tries, visits, cookie, sent, mislaid, history>>

Count(a) ==
  /\ LET over == CountSince(clock - CodeRequestWindow) >= MaxCodeRequests IN
     /\ AskMoves(a, "count", IF over THEN "closed" ELSE "create")
     /\ askAt' = [askAt EXCEPT ![a] = IF over THEN 0 ELSE clock]
  /\ beyond' = IF Cardinality({b \in sent : askAt[b] >= clock - CodeRequestWindow}) >= MaxCodeRequests
               THEN beyond \cup {a} ELSE beyond
  /\ UNCHANGED <<clock, account, codes, sessions, tries, visits, cookie, sent, mislaid,
                 tried, late, ended, entitled>>

Create(a) ==
  /\ AskMoves(a, "create", "send")
  /\ CreateCode(a)
  /\ UNCHANGED <<clock, account, sessions, askAt, tries, visits, cookie, sent, mislaid, history>>

SendCode(a) ==
  /\ AskMoves(a, "send", "closed")
  /\ sent' = sent \cup {a}
  /\ UNCHANGED <<clock, account, codes, sessions, askAt, tries, visits, cookie, mislaid, history>>

\* The mail server refused, or accepted and the reply was lost.
SendFails(a) ==
  /\ AskMoves(a, "send", "forget")
  /\ UNCHANGED <<clock, account, codes, sessions, askAt, tries, visits, cookie, sent, mislaid, history>>

Forget(a) ==
  /\ AskMoves(a, "forget", "closed")
  /\ ForgetCode(a)
  /\ askAt' = [askAt EXCEPT ![a] = 0]
  /\ UNCHANGED <<clock, account, sessions, tries, visits, cookie, sent, mislaid, history>>

\* A statement fails: the request ends.  The insert may have happened all the same,
\* and a row that could not be forgotten stays.
AskFails(a) ==
  /\ \/ /\ \E from \in {"make", "count", "create"} : AskMoves(a, from, "closed")
        /\ askAt' = [askAt EXCEPT ![a] = 0]
        /\ UNCHANGED <<codes, mislaid>>
     \/ /\ AskMoves(a, "create", "closed")
        /\ CreateCode(a)
        /\ mislaid' = mislaid \cup {a}
        /\ UNCHANGED askAt
     \/ /\ AskMoves(a, "forget", "closed")
        /\ mislaid' = mislaid \cup {a}
        /\ UNCHANGED <<codes, askAt>>
  /\ UNCHANGED <<clock, account, sessions, tries, visits, cookie, sent, history>>

-----------------------------------------------------------------------------
(* Verify: trying a code.                                                  *)

TryMoves(t, from, to) == tryPc[t] = from /\ tryPc' = [tryPc EXCEPT ![t] = to]

ReadByEmail(t) ==
  /\ BelowOpen
  /\ TryMoves(t, "new", IF account.known /\ account.active THEN "newest" ELSE "closed")
  /\ UNCHANGED <<clock, account, codes, sessions, asks, tryCode, held, visits, cookie, sent, mislaid, history>>

ReadNewest(t) ==
  /\ TryMoves(t, "newest", "check")
  /\ \E a \in Asks :
       /\ Newest(a)
       /\ tryCode' = [tryCode EXCEPT ![t] = a]
       /\ held' = [held EXCEPT ![t] = codes[a]]
       /\ late' = IF a \in tried THEN late \cup {t} ELSE late
  /\ UNCHANGED <<clock, account, codes, sessions, asks, visits, cookie, sent, mislaid, tried, beyond, ended, entitled>>

\* The try is over, and what it read is gone.
Drop(t) ==
  /\ tryPc' = [tryPc EXCEPT ![t] = "closed"]
  /\ tryCode' = [tryCode EXCEPT ![t] = NoRow]
  /\ held' = [held EXCEPT ![t] = NoRow]
  /\ late' = late \ {t}

\* There is no code, or no answer.
NoCode(t) ==
  /\ TryMoves(t, "newest", "closed")
  /\ UNCHANGED <<clock, account, codes, sessions, asks, tryCode, held, visits, cookie, sent, mislaid, history>>

\* What was read is judged by the clock, and then by what was typed.
CheckCode(t, right) ==
  /\ TryMoves(t, "check", IF Refused(held[t], clock) THEN "refuse"
                          ELSE IF right THEN "admit" ELSE "miss")
  /\ held' = [held EXCEPT ![t] = Check(@, clock, right)]
  /\ UNCHANGED <<clock, account, codes, sessions, asks, tryCode, visits, cookie, sent, mislaid, history>>

\* Written back whatever the answer, at some later time.  A row that is gone is an error.
Spend(t) ==
  /\ tryPc[t] \in {"admit", "miss", "refuse"}
  /\ LET a == tryCode[t]  there == codes[a] # NoRow IN
     /\ IF there THEN SpendCode(a, held[t]) ELSE UNCHANGED codes
     /\ tried' = IF there /\ tryPc[t] # "refuse" THEN tried \cup {a} ELSE tried
     /\ IF there /\ tryPc[t] = "admit"
          THEN tryPc' = [tryPc EXCEPT ![t] = "begin"] /\ UNCHANGED <<tryCode, held, late>>
          ELSE Drop(t)
  /\ UNCHANGED <<clock, account, sessions, asks, visits, cookie, sent, mislaid, beyond, ended, entitled>>

Begin(t) ==
  /\ tryPc[t] = "begin" /\ Drop(t)
  /\ sessions' = [sessions EXCEPT ![t] = NewSession(clock)]
  /\ cookie' = cookie \cup {t}
  /\ UNCHANGED <<clock, account, codes, asks, visits, sent, mislaid, tried, beyond, ended, entitled>>

\* The write of the code or of the session fails, or its answer is lost.
TryFails(t) ==
  /\ tryPc[t] \in {"admit", "miss", "refuse", "begin"} /\ Drop(t)
  /\ UNCHANGED <<clock, account, codes, sessions, asks, visits, cookie, sent, mislaid, tried, beyond, ended, entitled>>

-----------------------------------------------------------------------------
(* The guard: Whoami, and the rule of the surface.                         *)

VisitMoves(v, from, to) == visitPc[v] = from /\ visitPc' = [visitPc EXCEPT ![v] = to]

Clear(v) == cookie' = cookie \ {visitTo[v]}

\* The page or the redirect is written, and the request is over.
Answer(v, from, to) ==
  /\ VisitMoves(v, from, to)
  /\ visitTo' = [visitTo EXCEPT ![v] = Nobody]
  /\ visitAt' = [visitAt EXCEPT ![v] = 0]
  /\ rule' = [rule EXCEPT ![v] = "anybody"]
  /\ entitled' = entitled \ {v}

\* The browser presents its cookie and the session is read.
ReadSession(v, t, ru) ==
  /\ BelowOpen
  /\ Between(v) /\ visitPc' = [visitPc EXCEPT ![v] = "user"]
  /\ t \in cookie
  /\ sessions[t] # NoRow /\ Valid(sessions[t], clock)
  /\ visitTo' = [visitTo EXCEPT ![v] = t]
  /\ visitAt' = [visitAt EXCEPT ![v] = clock]
  /\ rule' = [rule EXCEPT ![v] = ru]
  /\ entitled' = IF account.active /\ Allows(ru, account) THEN entitled \cup {v} ELSE entitled
  /\ UNCHANGED <<clock, account, codes, sessions, asks, tries, cookie, sent, mislaid, tried, late, beyond, ended>>

\* It is gone or past a deadline, or it could not be read: the cookie is cleared.
NoSession(v, t) ==
  /\ t \in cookie
  /\ Between(v) /\ visitPc' = [visitPc EXCEPT ![v] = "refused"]
  /\ cookie' = cookie \ {t}
  /\ UNCHANGED <<clock, account, codes, sessions, asks, tries, visitTo, visitAt, rule, sent, mislaid, history>>

ReadUserUnasked(v) ==   \* mutant: the session is trusted to say who may sign in
  /\ VisitMoves(v, "user", "touch")
  /\ UNCHANGED <<clock, account, codes, sessions, asks, tries, visitTo, visitAt, rule, cookie, sent, mislaid, history>>

\* The person's row is read every time.  The rule is applied to this reading, after
\* the session was touched.
ReadUser(v) ==
  /\ account.active
  /\ VisitMoves(v, "user", IF Allows(rule[v], account) THEN "touch" ELSE "turn away")
  /\ UNCHANGED <<clock, account, codes, sessions, asks, tries, visitTo, visitAt, rule, cookie, sent, mislaid, history>>

Touch(v) ==
  /\ \/ Answer(v, "touch", "served") /\ UNCHANGED cookie
     \/ /\ Answer(v, "turn away", "refused")
        /\ IF EndsSession(rule[v]) THEN Clear(v) ELSE UNCHANGED cookie
  /\ TouchSession(visitTo[v], visitAt[v])
  /\ UNCHANGED <<clock, account, codes, asks, tries, sent, mislaid, tried, late, beyond, ended>>

\* So does any other error of Whoami: the person is switched off, the session was
\* signed out meanwhile, or a statement failed.
VisitFails(v) ==
  /\ \E from \in {"user", "touch", "turn away"} : Answer(v, from, "refused")
  /\ Clear(v)
  /\ UNCHANGED <<clock, account, codes, sessions, asks, tries, sent, mislaid, tried, late, beyond, ended>>

\* The cookie is cleared whether or not the row could be removed.
SignOut(t) ==
  /\ t \in cookie
  /\ cookie' = cookie \ {t}
  /\ \/ DeleteSession(t) /\ ended' = ended \cup {t}
     \/ UNCHANGED <<sessions, ended>>
  /\ UNCHANGED <<clock, account, codes, asks, tries, visits, sent, mislaid, tried, late, beyond, entitled>>

Next ==
  \/ Tick
  \/ \E u \in Account : Govern(u)
  \/ \E a \in Asks : \/ Find(a) \/ CreateUser(a) \/ Count(a) \/ Create(a)
                     \/ SendCode(a) \/ SendFails(a) \/ Forget(a) \/ AskFails(a)
  \/ \E t \in Tries : \/ ReadByEmail(t) \/ ReadNewest(t) \/ NoCode(t)
                      \/ \E right \in BOOLEAN : CheckCode(t, right)
                      \/ Spend(t) \/ Begin(t) \/ TryFails(t) \/ SignOut(t)
  \/ \E v \in Visits : \/ \E t \in Tries, ru \in Rules : ReadSession(v, t, ru)
                       \/ \E t \in Tries : NoSession(v, t)
                       \/ ReadUser(v) \/ Touch(v) \/ VisitFails(v)

Spec == Init /\ [][Next]_vars

-----------------------------------------------------------------------------
(* Properties.                                                             *)

\* An attempt spends the code, so that it counts to one.
Counts(c) == c.attempts = IF c.used THEN 1 ELSE 0

StoredTypeOK ==
  /\ clock \in Times /\ account \in Account
  /\ codes \in [Asks -> Code \cup {NoRow}]
  /\ \A a \in Rows : Counts(codes[a])
  /\ sessions \in [Tries -> Session \cup {NoRow}]

AsksTypeOK ==
  /\ askPc \in [Asks -> {"new", "make", "count", "create", "send", "forget", "closed"}]
  /\ askAt \in [Asks -> Times]
  /\ sent \subseteq Asks /\ mislaid \subseteq Asks /\ beyond \subseteq Asks

TriesTypeOK ==
  /\ tryPc \in [Tries -> {"new", "newest", "check", "admit", "miss", "refuse", "begin", "closed"}]
  /\ tryCode \in [Tries -> Asks \cup {NoRow}] /\ held \in [Tries -> Code \cup {NoRow}]
  /\ tried \subseteq Asks /\ late \subseteq Tries

VisitsTypeOK ==
  /\ visitPc \in [Visits -> {"new", "user", "touch", "turn away", "served", "refused"}]
  /\ visitTo \in [Visits -> Tries \cup {Nobody}] /\ visitAt \in [Visits -> Times]
  /\ rule \in [Visits -> Rules]
  /\ cookie \subseteq Tries /\ ended \subseteq Tries /\ entitled \subseteq Visits

\* Every variable has its type, and a stored code counts the attempts that used it.
TypeOK == StoredTypeOK /\ AsksTypeOK /\ TriesTypeOK /\ VisitsTypeOK

\* Once an attempt at a code was recorded, right or wrong, the row is refused for good,
\* although overlapping tries write whatever they read over it, which may be the unused
\* row, and late; so that a try that reads it from then on is neither signed in nor even
\* told whether its guess was right (LoginCode.Check, SpendCode).
SpentStaysSpent ==
  /\ \A a \in tried \cap Rows : Refused(codes[a], clock)
  /\ \A t \in late : tryPc[t] \notin {"admit", "miss", "begin"} /\ sessions[t] = NoRow

\* Of one visit, in the step that answers it with the page.
Served(v) ==
  visitPc[v] # "served" /\ visitPc'[v] = "served" =>
    /\ visitTo[v] \notin ended
    /\ v \in entitled
    /\ visitAt[v] < sessions[visitTo[v]].created + SessionLifetime

\* A page is served only while its session is there, within the session's lifetime
\* however often it was touched, and only to somebody who was active and had the role of the
\* rule at some moment of the visit: signing out, deactivating and taking a role
\* away take effect on the next request.
LetInOnlyWhileSignedIn == [][\A v \in Visits : Served(v)]_vars

\* The request limit counts letters and nothing else.  A code that outlives its ask
\* was sent, unless the database failed the bookkeeping; and nobody is sent another
\* letter by a request that came when the window's letters were out, whatever was
\* forgotten or is under way.  Of requests that count at the same time it says nothing:
\* together they exceed the limit.
LimitCountsLetters ==
  /\ \A a \in Rows : askPc[a] = "closed" => a \in sent \cup mislaid
  /\ beyond \cap sent = {}
=============================================================================
