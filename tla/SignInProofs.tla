---------------------------- MODULE SignInProofs ----------------------------
(***************************************************************************)
(* Proofs about SignIn, for any number of requests, any limits and any     *)
(* lifetimes.                                                              *)
(***************************************************************************)
EXTENDS SignIn, FiniteSetTheorems, TLAPS

-----------------------------------------------------------------------------
(* The inductive invariant.                                                *)

Stored == {"send", "forget", "closed"}

\* A row is of an ask that stored it, at the time it counted; a letter that is out
\* keeps its row, for nothing forgets it; and an ask beyond the limit ends there.
RowsAreAsked ==
  /\ \A a \in Rows : askPc[a] \in Stored /\ codes[a].created = askAt[a]
  /\ \A a \in Rows : askPc[a] = "closed" => a \in sent \cup mislaid
  /\ \A a \in Asks : askPc[a] = "send" => a \in Rows
  /\ \A a \in sent : a \in Rows /\ askPc[a] = "closed"
  /\ \A a \in beyond : a \notin sent /\ askPc[a] = "closed"
  /\ IsFiniteSet(Rows)

\* A try that has checked its code, and has it still to write.
Judged == {"admit", "miss", "refuse"}

\* The copy a try holds is of the row it will write over.
HeldIsRead ==
  \A t \in Tries : tryPc[t] \in Judged \cup {"check", "begin"} =>
    /\ tryCode[t] \in Asks /\ held[t] \in Code /\ Counts(held[t])
    /\ askPc[tryCode[t]] \in Stored
    /\ tryCode[t] \in Rows => codes[tryCode[t]].created = held[t].created

\* A code at which an attempt was recorded is refused from then on, also when a try
\* that overlapped writes its unused copy back: it checked that past the deadline.
TriedIsRefused ==
  /\ \A a \in tried : askPc[a] \in Stored
  /\ \A a \in tried \cap Rows : Refused(codes[a], clock)
  /\ \A t \in Tries : tryPc[t] \in Judged => Refused(held[t], clock)
  /\ \A t \in late : tryPc[t] \in {"check", "refuse"} /\ Refused(held[t], clock)

\* A session comes from a try that is over, so that none comes back once it is ended.
SessionsAreBegun ==
  /\ \A t \in Tries : sessions[t] # NoRow \/ t \in cookie \cup ended => tryPc[t] = "closed"
  /\ \A t \in ended : sessions[t] = NoRow

\* Nobody signs in before there is an account.
KnownFirst ==
  \/ account.known
  \/ /\ \A t \in Tries : tryPc[t] \in {"new", "closed"} /\ sessions[t] = NoRow
     /\ \A v \in Visits : visitPc[v] # "user"

Reading == {"user", "touch", "turn away"}

\* A visit under way is to a session that was begun, was within its lifetime when it
\* was read, and is remembered as entitled as soon as the person is.
Entitled(v) ==
  /\ visitPc[v] \in Reading =>
       /\ visitTo[v] \in Tries /\ tryPc[visitTo[v]] = "closed"
       /\ sessions[visitTo[v]] # NoRow =>
            visitAt[v] < sessions[visitTo[v]].created + SessionLifetime
  /\ visitPc[v] = "user" /\ account.active /\ Allows(rule[v], account) => v \in entitled
  /\ visitPc[v] = "touch" => v \in entitled

VisitsAreEntitled == \A v \in Visits : Entitled(v)

IInv ==
  /\ TypeOK /\ RowsAreAsked /\ HeldIsRead /\ TriedIsRefused
  /\ SessionsAreBegun /\ KnownFirst /\ VisitsAreEntitled

LEMMA InitInv == Init => IInv
<1>. SUFFICES ASSUME Init PROVE IInv
  OBVIOUS
<1>. USE SignInAssumption DEF Init
<1>1. Rows = {} /\ clock \in Times
  BY DEF Rows, Times
<1>2. account \in Account
  <2>1. "customer" \in Roles /\ "super_admin" \in Roles
    OBVIOUS
  <2>2. [known |-> FALSE, active |-> FALSE, role |-> "customer"] \in Account
    BY <2>1, Zenon DEF Account
  <2>3. [known |-> TRUE, active |-> TRUE, role |-> "super_admin"] \in Account
    BY <2>1, Zenon DEF Account
  <2>. QED  BY <2>2, <2>3
<1>3. StoredTypeOK /\ AsksTypeOK
  BY <1>1, <1>2 DEF StoredTypeOK, AsksTypeOK, Times
<1>4. TriesTypeOK /\ VisitsTypeOK
  BY DEF TriesTypeOK, VisitsTypeOK, Times, Rules
<1>5. RowsAreAsked
  BY <1>1, FS_EmptySet DEF RowsAreAsked
<1>6. HeldIsRead /\ TriedIsRefused /\ SessionsAreBegun
  BY DEF HeldIsRead, TriedIsRefused, SessionsAreBegun, Judged
<1>7. KnownFirst /\ VisitsAreEntitled
  BY DEF KnownFirst, VisitsAreEntitled, Entitled, Reading
<1>. QED  BY <1>3, <1>4, <1>5, <1>6, <1>7 DEF IInv, TypeOK

-----------------------------------------------------------------------------
(* Codes.                                                                  *)

LEMMA RefusedStays ==
  ASSUME NEW c \in Code, NEW m \in Times, NEW n \in Times, m <= n, Refused(c, m)
  PROVE  Refused(c, n)
BY SignInAssumption DEF Refused, Code, Times

\* Looking at a code keeps its time, and an attempt leaves it refused.
LEMMA CheckSpends ==
  ASSUME NEW c \in Code, Counts(c), NEW n \in Times, NEW right \in BOOLEAN
  PROVE  /\ Check(c, n, right) \in Code /\ Counts(Check(c, n, right))
         /\ Check(c, n, right).created = c.created
         /\ Refused(Check(c, n, right), n)
<1>1. CASE Refused(c, n)
  BY <1>1 DEF Check
<1>2. CASE ~Refused(c, n)
  <2>1. Check(c, n, right) = [c EXCEPT !.attempts = c.attempts + 1, !.used = TRUE]
    BY <1>2 DEF Check, Code
  <2>2. c.attempts = 0 /\ MaxGuesses \in Nat \ {0}
    BY <1>2, SignInAssumption DEF Refused, Counts, Code
  <2>. DEFINE k == Check(c, n, right)
  <2>3. k \in Code
    <3>1. c.attempts + 1 \in 0 .. MaxGuesses + 1
      BY <2>2
    <3>2. ASSUME NEW x \in 0 .. MaxGuesses + 1
          PROVE  [c EXCEPT !.attempts = x, !.used = TRUE] \in Code
      BY DEF Code
    <3>. QED  BY <2>1, <3>1, <3>2
  <2>4. k.created = c.created /\ k.attempts = 1 /\ k.used = TRUE
    BY <2>1, <2>2 DEF Code
  <2>. HIDE DEF k
  <2>5. Counts(k) /\ Refused(k, n)
    BY <2>4 DEF Counts, Refused
  <2>. QED  BY <2>3, <2>4, <2>5 DEF k
<1>. QED  BY <1>1, <1>2

LEMMA NewCodeIsCode ==
  ASSUME NEW n \in Times
  PROVE  /\ NewCode(n) \in Code /\ Counts(NewCode(n)) /\ NewCode(n) # NoRow
         /\ NewCode(n).created = n
<1>1. NewCode(n) \in Code
  BY SignInAssumption DEF NewCode, Code
<1>2. Counts(NewCode(n)) /\ NewCode(n).created = n
  BY DEF NewCode, Counts
<1>. QED  BY <1>1, <1>2, NoRowAssumption

-----------------------------------------------------------------------------
(* Time, and the operators.                                                *)

LEMMA TickStep ==
  ASSUME IInv, Tick
  PROVE  IInv'
<1>. USE DEF IInv, TypeOK, Tick, asks, tries, visits, history
<1>1. clock' \in Times /\ clock <= clock'
  BY SignInAssumption DEF StoredTypeOK, Times
<1>2. StoredTypeOK' /\ AsksTypeOK'
  BY <1>1 DEF StoredTypeOK, AsksTypeOK, Rows
<1>3. TriesTypeOK' /\ VisitsTypeOK'
  BY DEF TriesTypeOK, VisitsTypeOK
<1>4. RowsAreAsked' /\ HeldIsRead' /\ SessionsAreBegun'
  BY DEF RowsAreAsked, HeldIsRead, SessionsAreBegun, Rows
<1>5. TriedIsRefused'
  <2>1. \A a \in tried \cap Rows : codes[a] \in Code
    BY DEF Rows, StoredTypeOK
  <2>2. \A t \in late : held[t] \in Code
    BY DEF TriedIsRefused, HeldIsRead, TriesTypeOK, Judged
  <2>3. \A a \in tried \cap Rows : Refused(codes[a], clock')
    BY <1>1, <2>1, RefusedStays DEF TriedIsRefused, StoredTypeOK
  <2>4. \A t \in late : Refused(held[t], clock')
    BY <1>1, <2>2, RefusedStays DEF TriedIsRefused, StoredTypeOK
  <2>5. ASSUME NEW t \in Tries, tryPc[t] \in Judged
        PROVE  Refused(held[t], clock')
    <3>1. held[t] \in Code
      BY <2>5 DEF HeldIsRead
    <3>. QED  BY <1>1, <2>5, <3>1, RefusedStays DEF TriedIsRefused, StoredTypeOK
  <2>. QED  BY <2>3, <2>4, <2>5 DEF TriedIsRefused, Rows
<1>6. KnownFirst' /\ VisitsAreEntitled'
  BY DEF KnownFirst, VisitsAreEntitled, Entitled
<1>. QED  BY <1>2, <1>3, <1>4, <1>5, <1>6

LEMMA GovernStep ==
  ASSUME IInv, NEW u \in Account, Govern(u)
  PROVE  IInv'
<1>. USE DEF IInv, TypeOK, Govern, asks, tries, visits
<1>1. StoredTypeOK' /\ AsksTypeOK'
  BY DEF StoredTypeOK, AsksTypeOK, Rows
<1>2. TriesTypeOK' /\ VisitsTypeOK'
  BY DEF TriesTypeOK, VisitsTypeOK
<1>3. RowsAreAsked' /\ HeldIsRead' /\ SessionsAreBegun'
  BY DEF RowsAreAsked, HeldIsRead, SessionsAreBegun, Rows
<1>4. TriedIsRefused'
  BY DEF TriedIsRefused, Rows
<1>5. KnownFirst'
  BY DEF KnownFirst
<1>6. VisitsAreEntitled'
  BY DEF VisitsAreEntitled, Entitled
<1>. QED  BY <1>1, <1>2, <1>3, <1>4, <1>5, <1>6

-----------------------------------------------------------------------------
(* Asking for a code.                                                      *)

\* An ask stores at most one row, and disturbs nobody who is trying another.
LEMMA OnlyAsks ==
  ASSUME IInv, UNCHANGED <<clock, account, sessions, tries, visits, cookie, tried, late, ended, entitled>>,
         StoredTypeOK', AsksTypeOK', RowsAreAsked',
         \A a \in Asks : codes'[a] \in {codes[a], NoRow} \/ askPc[a] = "create",
         \A a \in Asks : askPc[a] \in Stored => askPc'[a] \in Stored
  PROVE  IInv'
<1>. USE DEF IInv, TypeOK, tries, visits
<1>1. TriesTypeOK' /\ VisitsTypeOK' /\ SessionsAreBegun' /\ KnownFirst' /\ VisitsAreEntitled'
  BY DEF TriesTypeOK, VisitsTypeOK, SessionsAreBegun, KnownFirst, VisitsAreEntitled, Entitled
<1>2. \A a \in Asks : askPc[a] \in Stored /\ a \in Rows' => a \in Rows /\ codes'[a] = codes[a]
  BY DEF Rows, Stored
<1>3. HeldIsRead'
  BY <1>2 DEF HeldIsRead
<1>4. TriedIsRefused'
  BY <1>2 DEF TriedIsRefused, TriesTypeOK
<1>. QED  BY <1>1, <1>3, <1>4

\* An ask that stores no row and sends nothing moves on.
LEMMA MovesOn ==
  ASSUME IInv, NEW a \in Asks,
         NEW to \in {"make", "count", "create", "closed"}, askPc[a] \in {"new", "make", "count", "create"},
         askPc' = [askPc EXCEPT ![a] = to], AsksTypeOK',
         \A b \in Asks : b # a => askAt'[b] = askAt[b],
         \A b \in beyond' \ beyond : b = a /\ to = "closed",
         UNCHANGED <<clock, codes, sessions, sent, mislaid>>, account' \in Account
  PROVE  /\ StoredTypeOK' /\ RowsAreAsked'
         /\ \A b \in Asks : askPc[b] \in Stored => askPc'[b] \in Stored
<1>. USE DEF IInv, TypeOK
<1>1. Rows' = Rows /\ a \notin Rows /\ a \notin sent
  BY DEF Rows, RowsAreAsked, Stored
<1>2. StoredTypeOK'
  BY <1>1 DEF StoredTypeOK
<1>3. \A b \in Asks : askPc'[b] = IF b = a THEN to ELSE askPc[b]
  BY DEF AsksTypeOK
<1>4. RowsAreAsked'
  BY <1>1, <1>3 DEF RowsAreAsked, AsksTypeOK, Rows
<1>. QED  BY <1>2, <1>3, <1>4 DEF Stored

LEMMA FindStep ==
  ASSUME IInv, NEW a \in Asks, Find(a)
  PROVE  IInv'
<1>. USE DEF IInv, TypeOK, Find, AskMoves, history
<1>1. PICK to \in {"make", "count", "closed"} : askPc' = [askPc EXCEPT ![a] = to]
  OBVIOUS
<1>2. AsksTypeOK'
  BY <1>1 DEF AsksTypeOK
<1>3. account' \in Account
  BY DEF StoredTypeOK
<1>. QED  BY <1>1, <1>2, <1>3, MovesOn, OnlyAsks

LEMMA NewUserIsAccount == NewUser \in Account /\ NewUser.known
<1>1. "customer" \in Roles
  BY SignInAssumption
<1>2. NewUser \in Account
  BY <1>1, Zenon DEF NewUser, Account
<1>. QED  BY <1>2 DEF NewUser

LEMMA CreateUserStep ==
  ASSUME IInv, NEW a \in Asks, CreateUser(a)
  PROVE  IInv'
<1>. USE DEF IInv, TypeOK, CreateUser, AskMoves, history, tries, visits
<1>1. PICK to \in {"count", "closed"} : askPc' = [askPc EXCEPT ![a] = to]
  OBVIOUS
<1>2. AsksTypeOK'
  BY <1>1 DEF AsksTypeOK
<1>3. CASE account.known
  <2>1. account' = account
    BY <1>3
  <2>2. account' \in Account
    BY <2>1 DEF StoredTypeOK
  <2>. QED  BY <1>1, <1>2, <2>1, <2>2, MovesOn, OnlyAsks
<1>4. CASE ~account.known
  <2>1. account' = NewUser /\ account' \in Account
    BY <1>4, NewUserIsAccount
  <2>2. /\ StoredTypeOK' /\ RowsAreAsked'
        /\ \A b \in Asks : askPc[b] \in Stored => askPc'[b] \in Stored
    BY <1>1, <1>2, <2>1, MovesOn
  <2>3. TriesTypeOK' /\ VisitsTypeOK' /\ SessionsAreBegun'
    BY DEF TriesTypeOK, VisitsTypeOK, SessionsAreBegun
  <2>4. KnownFirst'
    BY <2>1, NewUserIsAccount DEF KnownFirst
  <2>5. VisitsAreEntitled'
    BY <1>4 DEF VisitsAreEntitled, Entitled, KnownFirst
  <2>6. HeldIsRead' /\ TriedIsRefused'
    BY <2>2 DEF HeldIsRead, TriedIsRefused, TriesTypeOK, Rows
  <2>. QED  BY <1>2, <2>2, <2>3, <2>4, <2>5, <2>6
<1>. QED  BY <1>3, <1>4

\* Whoever comes when the letters of the window are out finds as many rows.
LEMMA BeyondIsOver ==
  ASSUME IInv, NEW n \in Int,
         Cardinality({b \in sent : askAt[b] >= n}) >= MaxCodeRequests
  PROVE  CountSince(n) >= MaxCodeRequests
<1>. DEFINE S == {b \in sent : askAt[b] >= n}
            R == {b \in Rows : codes[b].created >= n}
<1>1. S \subseteq R
  BY DEF IInv, RowsAreAsked
<1>2. IsFiniteSet(R)
  BY FS_Subset DEF IInv, RowsAreAsked
<1>3. Cardinality(S) <= Cardinality(R) /\ Cardinality(S) \in Nat /\ Cardinality(R) \in Nat
  BY <1>1, <1>2, FS_Subset, FS_CardinalityType
<1>. QED  BY <1>3, SignInAssumption DEF CountSince

LEMMA CountStep ==
  ASSUME IInv, NEW a \in Asks, Count(a)
  PROVE  IInv'
<1>. USE SignInAssumption DEF IInv, TypeOK, Count, AskMoves, history
<1>. DEFINE n    == clock - CodeRequestWindow
            over == CountSince(n) >= MaxCodeRequests
<1>1. n \in Int
  BY DEF StoredTypeOK, Times
<1>2. PICK to \in {"create", "closed"} :
        askPc' = [askPc EXCEPT ![a] = to] /\ (over => to = "closed")
  OBVIOUS
<1>3. \A b \in beyond' \ beyond : b = a /\ to = "closed"
  BY <1>1, <1>2, BeyondIsOver
<1>4. AsksTypeOK' /\ \A b \in Asks : b # a => askAt'[b] = askAt[b]
  BY <1>2 DEF AsksTypeOK, StoredTypeOK, Times
<1>5. account' \in Account
  BY DEF StoredTypeOK
<1>. QED  BY <1>2, <1>3, <1>4, <1>5, MovesOn, OnlyAsks

\* The row is stored, at the time the ask counted.
LEMMA Stores ==
  ASSUME IInv, NEW a \in Asks, NEW to \in {"send", "closed"}, AskMoves(a, "create", to), CreateCode(a),
         mislaid' = IF to = "closed" THEN mislaid \cup {a} ELSE mislaid,
         UNCHANGED <<clock, account, sessions, askAt, sent, beyond>>
  PROVE  StoredTypeOK' /\ AsksTypeOK' /\ RowsAreAsked'
<1>. USE DEF IInv, TypeOK, AskMoves, CreateCode
<1>1. askAt[a] \in Times
  BY DEF AsksTypeOK
<1>2. /\ codes'[a] = NewCode(askAt[a]) /\ codes'[a] \in Code /\ codes'[a] # NoRow
      /\ \A b \in Asks : b # a => codes'[b] = codes[b] /\ askPc'[b] = askPc[b]
  BY <1>1, NewCodeIsCode DEF StoredTypeOK, AsksTypeOK
<1>3. Rows' = Rows \cup {a} /\ a \notin sent
  BY <1>2 DEF Rows, RowsAreAsked
<1>4. IsFiniteSet(Rows')
  BY <1>3, FS_AddElement DEF RowsAreAsked
<1>5. StoredTypeOK' /\ AsksTypeOK'
  BY <1>1, <1>2, <1>3, NewCodeIsCode DEF StoredTypeOK, AsksTypeOK, Rows
<1>6. askPc'[a] = to
  BY DEF AsksTypeOK
<1>7. RowsAreAsked'
  BY <1>1, <1>2, <1>3, <1>4, <1>6, NewCodeIsCode DEF RowsAreAsked, AsksTypeOK, Stored, Rows
<1>. QED  BY <1>5, <1>7

LEMMA CreateStep ==
  ASSUME IInv, NEW a \in Asks, Create(a)
  PROVE  IInv'
<1>1. StoredTypeOK' /\ AsksTypeOK' /\ RowsAreAsked'
  BY Stores DEF Create, history
<1>2. /\ \A b \in Asks : codes'[b] \in {codes[b], NoRow} \/ askPc[b] = "create"
      /\ \A b \in Asks : askPc[b] \in Stored => askPc'[b] \in Stored
  BY DEF Create, AskMoves, CreateCode, Stored, IInv, TypeOK, StoredTypeOK, AsksTypeOK
<1>. QED  BY <1>1, <1>2, OnlyAsks DEF Create, history

\* The letter is out, or it is not and the row is to go.
LEMMA SendStep ==
  ASSUME IInv, NEW a \in Asks, SendCode(a) \/ SendFails(a)
  PROVE  IInv'
<1>. USE DEF IInv, TypeOK, SendCode, SendFails, AskMoves, history
<1>1. StoredTypeOK' /\ AsksTypeOK' /\ Rows' = Rows
  BY DEF StoredTypeOK, AsksTypeOK, Rows
<1>2. \A b \in Asks : askPc[b] \in Stored => askPc'[b] \in Stored
  BY DEF Stored, AsksTypeOK
<1>3. RowsAreAsked'
  BY <1>1 DEF RowsAreAsked, AsksTypeOK, Stored, Rows
<1>. QED  BY <1>1, <1>2, <1>3, OnlyAsks

LEMMA ForgetStep ==
  ASSUME IInv, NEW a \in Asks, Forget(a)
  PROVE  IInv'
<1>. USE DEF IInv, TypeOK, Forget, AskMoves, ForgetCode, history
<1>1. Rows' = Rows \ {a} /\ \A b \in Rows' : codes'[b] = codes[b]
  BY DEF Rows, StoredTypeOK
<1>2. IsFiniteSet(Rows')
  BY <1>1, FS_Subset DEF RowsAreAsked
<1>3. StoredTypeOK' /\ AsksTypeOK'
  BY <1>1, SignInAssumption DEF StoredTypeOK, AsksTypeOK, Times
<1>4. RowsAreAsked'
  BY <1>1, <1>2 DEF RowsAreAsked, AsksTypeOK, Rows
<1>5. /\ \A b \in Asks : askPc[b] \in Stored => askPc'[b] \in Stored
      /\ \A b \in Asks : codes'[b] \in {codes[b], NoRow}
  BY DEF Stored, AsksTypeOK, StoredTypeOK
<1>. QED  BY <1>3, <1>4, <1>5, OnlyAsks

LEMMA AskFailsStep ==
  ASSUME IInv, NEW a \in Asks, AskFails(a)
  PROVE  IInv'
<1>. USE DEF IInv, TypeOK, AskFails, history
<1>1. CASE /\ \E from \in {"make", "count", "create"} : AskMoves(a, from, "closed")
           /\ askAt' = [askAt EXCEPT ![a] = 0] /\ UNCHANGED <<codes, mislaid>>
  <2>1. AsksTypeOK' /\ \A b \in Asks : b # a => askAt'[b] = askAt[b]
    BY <1>1, SignInAssumption DEF AskMoves, AsksTypeOK, Times
  <2>2. account' \in Account
    BY DEF StoredTypeOK
  <2>. QED  BY <1>1, <2>1, <2>2, MovesOn, OnlyAsks DEF AskMoves
<1>2. CASE /\ AskMoves(a, "create", "closed") /\ CreateCode(a)
           /\ mislaid' = mislaid \cup {a} /\ UNCHANGED askAt
  <2>1. StoredTypeOK' /\ AsksTypeOK' /\ RowsAreAsked'
    BY <1>2, Stores
  <2>2. /\ \A b \in Asks : codes'[b] \in {codes[b], NoRow} \/ askPc[b] = "create"
        /\ \A b \in Asks : askPc[b] \in Stored => askPc'[b] \in Stored
    BY <1>2 DEF AskMoves, CreateCode, Stored, StoredTypeOK, AsksTypeOK
  <2>. QED  BY <2>1, <2>2, OnlyAsks
<1>3. CASE AskMoves(a, "forget", "closed") /\ mislaid' = mislaid \cup {a} /\ UNCHANGED <<codes, askAt>>
  <2>1. StoredTypeOK' /\ AsksTypeOK' /\ Rows' = Rows
    BY <1>3 DEF StoredTypeOK, AsksTypeOK, AskMoves, Rows
  <2>2. \A b \in Asks : askPc[b] \in Stored => askPc'[b] \in Stored
    BY <1>3 DEF Stored, AsksTypeOK, AskMoves
  <2>3. RowsAreAsked'
    BY <1>3, <2>1 DEF RowsAreAsked, AsksTypeOK, AskMoves, Stored, Rows
  <2>. QED  BY <1>3, <2>1, <2>2, <2>3, OnlyAsks
<1>. QED  BY <1>1, <1>2, <1>3

-----------------------------------------------------------------------------
(* Trying a code.                                                          *)

\* A step of a try that writes nothing.
LEMMA OnlyTries ==
  ASSUME IInv,
         UNCHANGED <<clock, account, codes, sessions, asks, visits, cookie, sent, mislaid,
                     tried, beyond, ended, entitled>>,
         TriesTypeOK', HeldIsRead', TriedIsRefused', KnownFirst',
         \A t \in Tries : tryPc[t] = "closed" => tryPc'[t] = "closed"
  PROVE  IInv'
<1>. USE DEF IInv, TypeOK, asks, visits
<1>1. StoredTypeOK' /\ AsksTypeOK' /\ VisitsTypeOK'
  BY DEF StoredTypeOK, AsksTypeOK, VisitsTypeOK, Rows
<1>2. RowsAreAsked'
  BY DEF RowsAreAsked, Rows
<1>3. SessionsAreBegun' /\ VisitsAreEntitled'
  BY DEF SessionsAreBegun, VisitsAreEntitled, Entitled
<1>. QED  BY <1>1, <1>2, <1>3

LEMMA ReadByEmailStep ==
  ASSUME IInv, NEW t \in Tries, ReadByEmail(t) \/ NoCode(t)
  PROVE  IInv'
<1>. USE DEF IInv, TypeOK, ReadByEmail, NoCode, TryMoves, asks, visits, history
<1>1. PICK to \in {"newest", "closed"} :
        tryPc' = [tryPc EXCEPT ![t] = to] /\ (to = "newest" => account.known)
        /\ tryPc[t] \in {"new", "newest"}
  OBVIOUS
<1>2. TriesTypeOK'
  BY <1>1 DEF TriesTypeOK
<1>3. HeldIsRead'
  BY <1>1 DEF HeldIsRead, TriesTypeOK, Rows, Judged
<1>4. TriedIsRefused'
  BY <1>1 DEF TriedIsRefused, TriesTypeOK, Rows, Judged
<1>5. KnownFirst'
  BY <1>1 DEF KnownFirst, TriesTypeOK
<1>6. \A u \in Tries : tryPc[u] = "closed" => tryPc'[u] = "closed"
  BY <1>1 DEF TriesTypeOK
<1>. QED  BY <1>2, <1>3, <1>4, <1>5, <1>6, OnlyTries

LEMMA ReadNewestStep ==
  ASSUME IInv, NEW t \in Tries, ReadNewest(t)
  PROVE  IInv'
<1>. USE DEF IInv, TypeOK, ReadNewest, TryMoves, asks, visits
<1>1. PICK a \in Asks :
        /\ Newest(a)
        /\ tryCode' = [tryCode EXCEPT ![t] = a]
        /\ held' = [held EXCEPT ![t] = codes[a]]
        /\ late' = IF a \in tried THEN late \cup {t} ELSE late
  OBVIOUS
<1>2. a \in Rows /\ codes[a] \in Code /\ Counts(codes[a]) /\ askPc[a] \in Stored
  BY <1>1 DEF Newest, Rows, StoredTypeOK, RowsAreAsked
<1>3. /\ tryPc'[t] = "check" /\ tryCode'[t] = a /\ held'[t] = codes[a]
      /\ \A u \in Tries : u # t => tryPc'[u] = tryPc[u] /\ tryCode'[u] = tryCode[u] /\ held'[u] = held[u]
  BY <1>1 DEF TriesTypeOK
<1>4. TriesTypeOK'
  BY <1>1, <1>2 DEF TriesTypeOK
<1>5. HeldIsRead'
  BY <1>2, <1>3 DEF HeldIsRead, Rows
<1>7. late' \subseteq late \cup {t} /\ (t \in late' => t \in late \/ a \in tried)
  BY <1>1
<1>8. t \notin late
  BY DEF TriedIsRefused
<1>9. TriedIsRefused'
  BY <1>2, <1>3, <1>7, <1>8 DEF TriedIsRefused, TriesTypeOK, Rows, Judged
<1>10. KnownFirst'
  BY <1>3 DEF KnownFirst
<1>11. \A u \in Tries : tryPc[u] = "closed" => tryPc'[u] = "closed"
  BY <1>3
<1>. QED  BY <1>4, <1>5, <1>9, <1>10, <1>11, OnlyTries

\* What was read is checked: what is held from then on would be refused.
LEMMA CheckCodeStep ==
  ASSUME IInv, NEW t \in Tries, NEW right \in BOOLEAN, CheckCode(t, right)
  PROVE  IInv'
<1>. USE DEF IInv, TypeOK, CheckCode, TryMoves, asks, visits, history
<1>. DEFINE c == Check(held[t], clock, right)
<1>1. /\ held[t] \in Code /\ Counts(held[t]) /\ clock \in Times
      /\ tryCode[t] \in Asks /\ askPc[tryCode[t]] \in Stored
      /\ tryCode[t] \in Rows => codes[tryCode[t]].created = held[t].created
  BY DEF HeldIsRead, StoredTypeOK
<1>2. c \in Code /\ Counts(c) /\ c.created = held[t].created /\ Refused(c, clock)
  BY <1>1, CheckSpends
<1>3. PICK to \in Judged : tryPc' = [tryPc EXCEPT ![t] = to] /\ (Refused(held[t], clock) => to = "refuse")
  BY DEF Judged
<1>4. held' = [held EXCEPT ![t] = c]
  BY DEF TriesTypeOK
<1>. HIDE DEF c
<1>5. /\ tryPc'[t] = to /\ held'[t] = c /\ tryPc[t] = "check"
      /\ \A u \in Tries : u # t => tryPc'[u] = tryPc[u] /\ held'[u] = held[u]
  BY <1>3, <1>4 DEF TriesTypeOK
<1>6. TriesTypeOK'
  BY <1>2, <1>3, <1>4 DEF TriesTypeOK, Judged
<1>7. HeldIsRead'
  BY <1>1, <1>2, <1>5 DEF HeldIsRead, Rows
<1>8. TriedIsRefused'
  BY <1>2, <1>3, <1>5 DEF TriedIsRefused, TriesTypeOK, Rows
<1>9. KnownFirst'
  BY <1>5 DEF KnownFirst
<1>10. \A u \in Tries : tryPc[u] = "closed" => tryPc'[u] = "closed"
  BY <1>5
<1>. QED  BY <1>6, <1>7, <1>8, <1>9, <1>10, OnlyTries

\* What a try that is over leaves.
LEMMA DropFrame ==
  ASSUME IInv, NEW t \in Tries, Drop(t)
  PROVE  /\ tryPc' \in [Tries -> {"new", "newest", "check", "admit", "miss", "refuse", "begin", "closed"}]
         /\ tryCode' \in [Tries -> Asks \cup {NoRow}] /\ held' \in [Tries -> Code \cup {NoRow}]
         /\ tryPc'[t] = "closed" /\ late' = late \ {t}
         /\ \A u \in Tries : u # t => tryPc'[u] = tryPc[u] /\ tryCode'[u] = tryCode[u] /\ held'[u] = held[u]
BY DEF IInv, TypeOK, TriesTypeOK, Drop

LEMMA TryFailsStep ==
  ASSUME IInv, NEW t \in Tries, TryFails(t)
  PROVE  IInv'
<1>. USE DEF IInv, TypeOK, TryFails, asks, visits
<1>1. /\ tryPc' \in [Tries -> {"new", "newest", "check", "admit", "miss", "refuse", "begin", "closed"}]
      /\ tryCode' \in [Tries -> Asks \cup {NoRow}] /\ held' \in [Tries -> Code \cup {NoRow}]
      /\ tryPc'[t] = "closed" /\ late' = late \ {t}
      /\ \A u \in Tries : u # t => tryPc'[u] = tryPc[u] /\ tryCode'[u] = tryCode[u] /\ held'[u] = held[u]
  BY DropFrame
<1>2. TriesTypeOK' /\ HeldIsRead'
  BY <1>1 DEF TriesTypeOK, HeldIsRead, Rows, Judged
<1>3. TriedIsRefused' /\ KnownFirst'
  BY <1>1 DEF TriedIsRefused, KnownFirst, TriesTypeOK, Rows, Judged
<1>4. \A u \in Tries : tryPc[u] = "closed" => tryPc'[u] = "closed"
  BY <1>1
<1>. QED  BY <1>2, <1>3, <1>4, OnlyTries

LEMMA SpendStep ==
  ASSUME IInv, NEW t \in Tries, Spend(t)
  PROVE  IInv'
<1>. USE DEF IInv, TypeOK, Spend, asks, visits
<1>. DEFINE a == tryCode[t]
            c == held[t]
<1>1. /\ a \in Asks /\ c \in Code /\ Counts(c) /\ askPc[a] \in Stored
      /\ a \in Rows => codes[a].created = c.created
      /\ clock \in Times /\ Refused(c, clock) /\ c # NoRow
  BY NoRowAssumption DEF HeldIsRead, StoredTypeOK, TriedIsRefused, Judged
<1>3. /\ Rows' = Rows
      /\ \A b \in Asks : codes'[b] = IF b = a /\ a \in Rows THEN c ELSE codes[b]
  BY <1>1 DEF Rows, SpendCode, StoredTypeOK
<1>4. StoredTypeOK'
  BY <1>1, <1>3 DEF StoredTypeOK, Rows, SpendCode
<1>5. RowsAreAsked' /\ AsksTypeOK'
  BY <1>1, <1>3 DEF RowsAreAsked, AsksTypeOK, Rows
<1>6. PICK to \in {"begin", "closed"} :
        /\ tryPc' \in [Tries -> {"new", "newest", "check", "admit", "miss", "refuse", "begin", "closed"}]
        /\ tryCode' \in [Tries -> Asks \cup {NoRow}] /\ held' \in [Tries -> Code \cup {NoRow}]
        /\ tryPc'[t] = to /\ late' \subseteq late \ {t} /\ tryPc[t] # "closed"
        /\ to = "begin" => UNCHANGED <<tryCode, held>>
        /\ \A u \in Tries : u # t => tryPc'[u] = tryPc[u] /\ tryCode'[u] = tryCode[u] /\ held'[u] = held[u]
  <2>1. CASE codes[a] # NoRow /\ tryPc[t] = "admit"
    <3>1. tryPc' = [tryPc EXCEPT ![t] = "begin"] /\ UNCHANGED <<tryCode, held, late>>
      BY <2>1
    <3>2. t \notin late
      BY <2>1 DEF TriedIsRefused
    <3>. QED  BY <2>1, <3>1, <3>2 DEF TriesTypeOK
  <2>2. CASE ~(codes[a] # NoRow /\ tryPc[t] = "admit")
    <3>1. Drop(t)
      BY <2>2
    <3>. QED  BY <3>1, DropFrame
  <2>. QED  BY <2>1, <2>2
<1>9. tried' \subseteq tried \cup {a} /\ tried \subseteq tried' /\ (a \in tried' => a \in tried \/ a \in Rows)
  BY <1>1 DEF Rows
<1>10. TriesTypeOK'
  BY <1>1, <1>6, <1>9 DEF TriesTypeOK
<1>11. HeldIsRead'
  BY <1>1, <1>3, <1>6 DEF HeldIsRead, Judged
<1>12. TriedIsRefused'
  <2>1. \A b \in tried' : askPc'[b] \in Stored
    BY <1>1, <1>9 DEF TriedIsRefused
  <2>2. \A b \in tried' \cap Rows' : Refused(codes'[b], clock)
    BY <1>1, <1>3, <1>9 DEF TriedIsRefused, TriesTypeOK
  <2>3. \A u \in late' : tryPc'[u] \in {"check", "refuse"} /\ Refused(held'[u], clock)
    BY <1>6 DEF TriedIsRefused, TriesTypeOK
  <2>4. \A u \in Tries : tryPc'[u] \in Judged => Refused(held'[u], clock)
    BY <1>6 DEF TriedIsRefused, Judged
  <2>. QED  BY <2>1, <2>2, <2>3, <2>4 DEF TriedIsRefused
<1>13. SessionsAreBegun' /\ KnownFirst'
  BY <1>6 DEF SessionsAreBegun, KnownFirst
<1>14. VisitsTypeOK' /\ VisitsAreEntitled'
  BY <1>6 DEF VisitsTypeOK, VisitsAreEntitled, Entitled
<1>. QED  BY <1>4, <1>5, <1>10, <1>11, <1>12, <1>13, <1>14

LEMMA BeginStep ==
  ASSUME IInv, NEW t \in Tries, Begin(t)
  PROVE  IInv'
<1>. USE DEF IInv, TypeOK, Begin, asks, visits
<1>1. NewSession(clock) \in Session
  BY DEF NewSession, Session, StoredTypeOK
<1>2. /\ tryPc' \in [Tries -> {"new", "newest", "check", "admit", "miss", "refuse", "begin", "closed"}]
      /\ tryCode' \in [Tries -> Asks \cup {NoRow}] /\ held' \in [Tries -> Code \cup {NoRow}]
      /\ tryPc'[t] = "closed" /\ late' = late \ {t} /\ tryPc[t] = "begin"
      /\ \A u \in Tries : u # t => /\ tryPc'[u] = tryPc[u] /\ tryCode'[u] = tryCode[u]
                                    /\ held'[u] = held[u] /\ sessions'[u] = sessions[u]
  BY DropFrame DEF StoredTypeOK
<1>3. StoredTypeOK' /\ AsksTypeOK'
  BY <1>1 DEF StoredTypeOK, AsksTypeOK, Rows
<1>4. TriesTypeOK' /\ VisitsTypeOK'
  BY <1>2 DEF TriesTypeOK, VisitsTypeOK
<1>5. RowsAreAsked' /\ HeldIsRead'
  BY <1>2 DEF RowsAreAsked, HeldIsRead, Rows, Judged
<1>6. TriedIsRefused'
  BY <1>2 DEF TriedIsRefused, TriesTypeOK, Rows, Judged
<1>7. SessionsAreBegun' /\ KnownFirst'
  BY <1>2 DEF SessionsAreBegun, KnownFirst, VisitsTypeOK
<1>8. VisitsAreEntitled'
  <2>. SUFFICES ASSUME NEW v \in Visits PROVE Entitled(v)'
    BY DEF VisitsAreEntitled
  <2>1. Entitled(v)
    BY DEF VisitsAreEntitled
  <2>2. visitPc[v] \in Reading => visitTo[v] # t
    BY <2>1 DEF Entitled
  <2>. QED  BY <1>2, <2>1, <2>2 DEF Entitled
<1>. QED  BY <1>3, <1>4, <1>5, <1>6, <1>7, <1>8

-----------------------------------------------------------------------------
(* Visits, and signing out.                                                *)

\* A step that at most touches or removes a session.
LEMMA OnlyVisits ==
  ASSUME IInv,
         UNCHANGED <<clock, account, codes, asks, tries, sent, mislaid, tried, late, beyond>>,
         VisitsTypeOK', SessionsAreBegun', VisitsAreEntitled',
         sessions' \in [Tries -> Session \cup {NoRow}],
         \A t \in Tries : sessions[t] = NoRow => sessions'[t] = NoRow,
         \A v \in Visits : visitPc'[v] = "user" => account.known
  PROVE  IInv'
<1>. USE DEF IInv, TypeOK, asks, tries
<1>1. StoredTypeOK' /\ AsksTypeOK' /\ TriesTypeOK'
  BY DEF StoredTypeOK, AsksTypeOK, TriesTypeOK, Rows
<1>2. RowsAreAsked' /\ HeldIsRead'
  BY DEF RowsAreAsked, HeldIsRead, Rows
<1>3. TriedIsRefused'
  BY DEF TriedIsRefused, Rows
<1>4. KnownFirst'
  BY DEF KnownFirst
<1>. QED  BY <1>1, <1>2, <1>3, <1>4

LEMMA ReadSessionStep ==
  ASSUME IInv, NEW v \in Visits, NEW t \in Tries, NEW ru \in Rules, ReadSession(v, t, ru)
  PROVE  IInv'
<1>. USE DEF IInv, TypeOK, ReadSession, tries
<1>1. account.known /\ tryPc[t] = "closed"
  BY DEF KnownFirst, SessionsAreBegun
<1>2. sessions[t] \in Session /\ clock \in Times /\ clock < sessions[t].created + SessionLifetime
  BY DEF StoredTypeOK, Valid
<1>3. VisitsTypeOK'
  BY <1>2 DEF VisitsTypeOK
<1>4. /\ visitPc'[v] = "user" /\ visitTo'[v] = t /\ visitAt'[v] = clock /\ rule'[v] = ru
      /\ \A w \in Visits : w # v => /\ visitPc'[w] = visitPc[w] /\ visitTo'[w] = visitTo[w]
                                    /\ visitAt'[w] = visitAt[w] /\ rule'[w] = rule[w]
  BY DEF VisitsTypeOK
<1>5. SessionsAreBegun'
  BY DEF SessionsAreBegun
<1>6. VisitsAreEntitled'
  <2>1. Entitled(v)'
    BY <1>1, <1>2, <1>4 DEF Entitled, Reading
  <2>2. ASSUME NEW w \in Visits, w # v PROVE Entitled(w)'
    <3>1. Entitled(w)
      BY DEF VisitsAreEntitled
    <3>2. w \in entitled => w \in entitled'
      OBVIOUS
    <3>. QED  BY <1>4, <2>2, <3>1, <3>2 DEF Entitled
  <2>. QED  BY <2>1, <2>2 DEF VisitsAreEntitled
<1>7. sessions' \in [Tries -> Session \cup {NoRow}]
  BY DEF StoredTypeOK
<1>8. \A w \in Visits : visitPc'[w] = "user" => account.known
  BY <1>1
<1>. QED  BY <1>3, <1>5, <1>6, <1>7, <1>8, OnlyVisits

\* The visit goes on or is answered: what it holds is kept or gone, and nobody
\* else's entitlement with it.
LEMMA VisitFrame ==
  ASSUME IInv, NEW v \in Visits, NEW to \in {"touch", "turn away", "served", "refused"},
         visitPc' = [visitPc EXCEPT ![v] = to],
         to = "touch" => v \in entitled',
         VisitsTypeOK',
         to \in Reading => visitPc[v] \in Reading /\ UNCHANGED <<visitTo, visitAt, rule>>,
         \A w \in Visits : w # v => /\ visitTo'[w] = visitTo[w] /\ visitAt'[w] = visitAt[w]
                                    /\ rule'[w] = rule[w]
                                    /\ w \in entitled => w \in entitled',
         UNCHANGED <<account, tryPc>>,
         \A t \in Tries : sessions'[t] # NoRow =>
           sessions[t] # NoRow /\ sessions'[t].created = sessions[t].created
  PROVE  VisitsAreEntitled' /\ \A w \in Visits : visitPc'[w] = "user" => account.known
<1>. USE DEF IInv, TypeOK
<1>1. visitPc'[v] = to /\ \A w \in Visits : w # v => visitPc'[w] = visitPc[w]
  BY DEF VisitsTypeOK
<1>2. VisitsAreEntitled'
  <2>1. Entitled(v)'
    <3>1. Entitled(v)
      BY DEF VisitsAreEntitled
    <3>2. CASE to \in Reading
      BY <1>1, <3>1, <3>2 DEF Entitled, Reading
    <3>3. CASE to \notin Reading
      BY <1>1, <3>3 DEF Entitled, Reading
    <3>. QED  BY <3>2, <3>3
  <2>2. ASSUME NEW w \in Visits, w # v PROVE Entitled(w)'
    <3>1. Entitled(w)
      BY DEF VisitsAreEntitled
    <3>. QED  BY <1>1, <2>2, <3>1 DEF Entitled, Reading
  <2>. QED  BY <2>1, <2>2 DEF VisitsAreEntitled
<1>3. \A w \in Visits : visitPc'[w] = "user" => account.known
  BY <1>1 DEF KnownFirst
<1>. QED  BY <1>2, <1>3

LEMMA NoSessionStep ==
  ASSUME IInv, NEW v \in Visits, NEW t \in Tries, NoSession(v, t)
  PROVE  IInv'
<1>. USE DEF IInv, TypeOK, NoSession, tries, history
<1>1. VisitsTypeOK' /\ SessionsAreBegun'
  BY DEF VisitsTypeOK, SessionsAreBegun
<1>2. VisitsAreEntitled' /\ \A w \in Visits : visitPc'[w] = "user" => account.known
  BY <1>1, VisitFrame DEF Reading
<1>3. sessions' \in [Tries -> Session \cup {NoRow}]
  BY DEF StoredTypeOK
<1>. QED  BY <1>1, <1>2, <1>3, OnlyVisits

LEMMA ReadUserStep ==
  ASSUME IInv, NEW v \in Visits, ReadUser(v)
  PROVE  IInv'
<1>. USE DEF IInv, TypeOK, ReadUser, VisitMoves, tries, history
<1>1. PICK to \in {"touch", "turn away"} :
        visitPc' = [visitPc EXCEPT ![v] = to] /\ (to = "touch" => Allows(rule[v], account))
  OBVIOUS
<1>2. to = "touch" => v \in entitled'
  BY <1>1 DEF VisitsAreEntitled, Entitled
<1>3. VisitsTypeOK' /\ SessionsAreBegun'
  BY <1>1 DEF VisitsTypeOK, SessionsAreBegun
<1>4. VisitsAreEntitled' /\ \A w \in Visits : visitPc'[w] = "user" => account.known
  BY <1>1, <1>2, <1>3, VisitFrame DEF Reading
<1>5. sessions' \in [Tries -> Session \cup {NoRow}]
  BY DEF StoredTypeOK
<1>. QED  BY <1>3, <1>4, <1>5, OnlyVisits

LEMMA AnswerFrame ==
  ASSUME IInv, NEW v \in Visits, NEW from, NEW to \in {"served", "refused"}, Answer(v, from, to),
         cookie' \subseteq cookie, UNCHANGED <<account, ended, tryPc>>,
         \A t \in Tries : sessions'[t] # NoRow =>
           sessions[t] # NoRow /\ sessions'[t].created = sessions[t].created
  PROVE  /\ VisitsTypeOK' /\ VisitsAreEntitled'
         /\ \A w \in Visits : visitPc'[w] = "user" => account.known
<1>. USE DEF IInv, TypeOK, Answer, VisitMoves
<1>1. VisitsTypeOK'
  <2>1. 0 \in Times /\ "anybody" \in Rules
    BY SignInAssumption DEF Times, Rules
  <2>. QED  BY <2>1 DEF VisitsTypeOK
<1>2. \A w \in Visits : w # v => /\ visitTo'[w] = visitTo[w] /\ visitAt'[w] = visitAt[w]
                                 /\ rule'[w] = rule[w]
                                 /\ w \in entitled => w \in entitled'
  BY DEF VisitsTypeOK
<1>. QED  BY <1>1, <1>2, VisitFrame DEF Reading

LEMMA TouchStep ==
  ASSUME IInv, NEW v \in Visits, Touch(v)
  PROVE  IInv'
<1>. USE DEF IInv, TypeOK, Touch, tries
<1>. DEFINE t == visitTo[v]
<1>1. PICK from \in {"touch", "turn away"}, to \in {"served", "refused"} : Answer(v, from, to)
  OBVIOUS
<1>2. t \in Tries /\ sessions[t] \in Session /\ visitAt[v] \in Times /\ tryPc[t] = "closed"
  BY <1>1 DEF Answer, VisitMoves, TouchSession, VisitsAreEntitled, Entitled, Reading, StoredTypeOK, VisitsTypeOK
<1>3. sessions' = [sessions EXCEPT ![t] = [sessions[t] EXCEPT !.seen = visitAt[v]]]
  BY <1>2 DEF TouchSession, StoredTypeOK
<1>4. [sessions[t] EXCEPT !.seen = visitAt[v]] \in Session
      /\ [sessions[t] EXCEPT !.seen = visitAt[v]].created = sessions[t].created
  BY <1>2 DEF Session
<1>5. /\ sessions' \in [Tries -> Session \cup {NoRow}]
      /\ \A u \in Tries : sessions[u] = NoRow => sessions'[u] = NoRow
      /\ \A u \in Tries : sessions'[u] # NoRow =>
           sessions[u] # NoRow /\ sessions'[u].created = sessions[u].created
  BY <1>2, <1>3, <1>4, NoRowAssumption DEF StoredTypeOK
<1>6. cookie' \subseteq cookie
  BY DEF Clear
<1>7. SessionsAreBegun'
  BY <1>5, <1>6 DEF SessionsAreBegun, VisitsTypeOK
<1>8. VisitsTypeOK' /\ VisitsAreEntitled' /\ \A w \in Visits : visitPc'[w] = "user" => account.known
  BY <1>1, <1>5, <1>6, AnswerFrame
<1>. QED  BY <1>5, <1>7, <1>8, OnlyVisits

LEMMA VisitFailsStep ==
  ASSUME IInv, NEW v \in Visits, VisitFails(v)
  PROVE  IInv'
<1>. USE DEF IInv, TypeOK, VisitFails, Clear, tries
<1>1. SessionsAreBegun'
  BY DEF SessionsAreBegun
<1>2. VisitsTypeOK' /\ VisitsAreEntitled' /\ \A w \in Visits : visitPc'[w] = "user" => account.known
  BY AnswerFrame
<1>3. sessions' \in [Tries -> Session \cup {NoRow}]
  BY DEF StoredTypeOK
<1>. QED  BY <1>1, <1>2, <1>3, OnlyVisits

LEMMA SignOutStep ==
  ASSUME IInv, NEW t \in Tries, SignOut(t)
  PROVE  IInv'
<1>. USE DEF IInv, TypeOK, SignOut, DeleteSession, visits, tries
<1>1. /\ sessions' \in [Tries -> Session \cup {NoRow}]
      /\ \A u \in Tries : sessions'[u] \in {sessions[u], NoRow}
      /\ t \in ended' => t \in ended \/ sessions'[t] = NoRow
  BY DEF StoredTypeOK
<1>2. VisitsTypeOK'
  BY DEF VisitsTypeOK
<1>3. SessionsAreBegun'
  BY <1>1 DEF SessionsAreBegun, VisitsTypeOK
<1>4. VisitsAreEntitled'
  BY <1>1 DEF VisitsAreEntitled, Entitled, Reading
<1>5. \A v \in Visits : visitPc'[v] = "user" => account.known
  BY DEF KnownFirst
<1>. QED  BY <1>1, <1>2, <1>3, <1>4, <1>5, OnlyVisits

LEMMA NextInv == IInv /\ [Next]_vars => IInv'
<1>. SUFFICES ASSUME IInv, [Next]_vars PROVE IInv'
  OBVIOUS
<1>1. CASE UNCHANGED vars
  <2>. USE <1>1 DEF vars, tries, visits, history, IInv, TypeOK
  <2>1. TriesTypeOK' /\ HeldIsRead' /\ TriedIsRefused' /\ KnownFirst'
    BY DEF TriesTypeOK, HeldIsRead, TriedIsRefused, KnownFirst, asks, Rows
  <2>. QED  BY <2>1, OnlyTries
<1>. QED
  BY <1>1, TickStep, GovernStep, FindStep, CreateUserStep, CountStep, CreateStep, SendStep,
     ForgetStep, AskFailsStep, ReadByEmailStep, ReadNewestStep, CheckCodeStep, SpendStep,
     BeginStep, TryFailsStep, SignOutStep, ReadSessionStep, NoSessionStep, ReadUserStep, TouchStep, VisitFailsStep DEF Next

LEMMA Inductive == Spec => []IInv
BY InitInv, NextInv, PTL DEF Spec

\* Only Touch serves a page, and it found the session there.
LEMMA NextServes == IInv /\ [Next]_vars => \A v \in Visits : Served(v)
<1>. SUFFICES ASSUME IInv, [Next]_vars, NEW v \in Visits,
                     visitPc[v] # "served", visitPc'[v] = "served"
              PROVE  /\ visitTo[v] \notin ended /\ v \in entitled
                     /\ visitAt[v] < sessions[visitTo[v]].created + SessionLifetime
  BY DEF Served
<1>. USE DEF IInv, TypeOK
<1>1. CASE UNCHANGED visitPc
  BY <1>1
<1>2. ASSUME NEW w \in Visits, Touch(w)
      PROVE  visitPc[v] = "touch" /\ sessions[visitTo[v]] # NoRow
  BY <1>2 DEF Touch, Answer, VisitMoves, TouchSession, VisitsTypeOK
<1>3. ASSUME visitPc[v] = "touch", sessions[visitTo[v]] # NoRow
      PROVE  /\ visitTo[v] \notin ended /\ v \in entitled
             /\ visitAt[v] < sessions[visitTo[v]].created + SessionLifetime
  BY <1>3 DEF VisitsAreEntitled, Entitled, SessionsAreBegun, Reading
<1>4. ASSUME NEW w \in Visits,
             \/ \E t \in Tries, ru \in Rules : ReadSession(w, t, ru)
             \/ \E t \in Tries : NoSession(w, t)
             \/ ReadUser(w) \/ VisitFails(w)
      PROVE  FALSE
  BY <1>4 DEF ReadSession, NoSession, ReadUser, VisitFails, Answer, VisitMoves, VisitsTypeOK
<1>5. ASSUME Tick \/ \E u \in Account : Govern(u)
      PROVE  UNCHANGED visitPc
  BY <1>5 DEF Tick, Govern, visits
<1>6. ASSUME NEW a \in Asks,
             \/ Find(a) \/ CreateUser(a) \/ Count(a) \/ Create(a)
             \/ SendCode(a) \/ SendFails(a) \/ Forget(a) \/ AskFails(a)
      PROVE  UNCHANGED visitPc
  BY <1>6 DEF Find, CreateUser, Count, Create, SendCode, SendFails, Forget, AskFails, visits
<1>7. ASSUME NEW t \in Tries,
             \/ ReadByEmail(t) \/ ReadNewest(t) \/ NoCode(t)
             \/ \E right \in BOOLEAN : CheckCode(t, right)
             \/ Spend(t) \/ Begin(t) \/ TryFails(t) \/ SignOut(t)
      PROVE  UNCHANGED visitPc
  BY <1>7 DEF ReadByEmail, ReadNewest, NoCode, CheckCode, Spend, Begin, TryFails, SignOut, visits
<1>8. CASE UNCHANGED vars
  BY <1>8 DEF vars, visits
<1>. QED  BY <1>1, <1>2, <1>3, <1>4, <1>5, <1>6, <1>7, <1>8 DEF Next

-----------------------------------------------------------------------------
\* Every variable of the sign-in has its type, and a stored code counts the one
\* attempt that used it.
THEOREM TypeCorrect == Spec => []TypeOK
BY Inductive, PTL DEF IInv

LEMMA SpentFollows == IInv => SpentStaysSpent
<1>. SUFFICES ASSUME IInv
              PROVE  /\ \A a \in tried \cap Rows : Refused(codes[a], clock)
                     /\ \A t \in late : tryPc[t] \notin {"admit", "miss", "begin"} /\ sessions[t] = NoRow
  BY DEF SpentStaysSpent
<1>. QED  BY DEF IInv, TypeOK, TriesTypeOK, TriedIsRefused, SessionsAreBegun

\* However many tries overlap, for every lifetime and every limit of guesses: a row at
\* which an attempt was recorded is refused for good, whatever stale copies are written
\* over it and however late, and whoever reads it from then on neither signs in nor
\* learns anything (LoginCode.Check, SpendCode, ReadNewest).
THEOREM SpentAlwaysStaysSpent == Spec => []SpentStaysSpent
BY Inductive, SpentFollows, PTL

LEMMA LimitFollows == IInv => LimitCountsLetters
BY DEF IInv, RowsAreAsked, LimitCountsLetters

\* For every window and every limit: a code that outlives its ask was sent unless
\* the database failed the bookkeeping, and no ask that came when the letters of its
\* window were out is sent another (Request: CountSince, Create, Forget).
THEOREM LimitAlwaysCountsLetters == Spec => []LimitCountsLetters
BY Inductive, LimitFollows, PTL

\* Whatever is signed out, switched off or demoted meanwhile: a page is served only
\* while its session is there and within its lifetime, to somebody who was entitled
\* to it during the visit (Whoami and the rule of the surface).
THEOREM OnlySignedInAreServed == Spec => LetInOnlyWhileSignedIn
BY Inductive, NextServes, PTL DEF Spec, LetInOnlyWhileSignedIn
=============================================================================
