---------------------------- MODULE IntakeProofs ----------------------------
(***************************************************************************)
(* Proofs about Intake, for any number of calls, attempts, sources, keys   *)
(* and recipients.                                                         *)
(***************************************************************************)
EXTENDS Intake, TLAPS

-----------------------------------------------------------------------------
(* The inductive invariant.                                                *)

\* A request that was not sent yet has not begun, so that none is begun twice.
UnsentIsUnborn ==
  \A r \in Requests : r[2] > attempt[r[1]] => pc[r] = "unborn"

\* What a request stored, it stored at its one write; and what it is publishing, it
\* stored.
Written == {"publish", "answer", "over"}

StoredByWriter ==
  /\ \A m \in messages \cup purged : pc[m] \in Written
  /\ \A r \in Requests : pc[r] = "publish" => r \in messages \cup purged

\* What was read and resolved before the write, of the request itself.
ReadBeforeWrite ==
  \A r \in Requests :
    /\ pc[r] \in {"admit", "check", "resolve", "write"} => toSubmitCommand(Form(r))
    /\ pc[r] = "write" => Form(r) # "no routes"

\* An answer is held by a request about to give it, and one that names a message
\* names a committed one of the same source and key.
AnswersReal ==
  \A r \in Requests :
    /\ (pc[r] = "answer") <=> (reply[r] # "none")
    /\ reply[r] \in {"accepted", "duplicate"} =>
         /\ named[r] \in messages \cup purged
         /\ Src(named[r]) = Src(r) /\ Key(named[r]) = Key(r)

\* The unique index over source and idempotency key.
OnePerKey ==
  \A m, n \in messages : Src(m) = Src(n) /\ Key(m) = Key(n) /\ Key(m) # NoKey => m = n

IInv ==
  /\ TypeOK /\ UnsentIsUnborn /\ StoredByWriter /\ ReadBeforeWrite
  /\ AnswersReal /\ OnePerKey /\ StoredWhole

-----------------------------------------------------------------------------
LEMMA RequestShape ==
  /\ \A r \in Requests : r = <<r[1], r[2]>> /\ r[1] \in Calls /\ r[2] \in 1..Attempts[r[1]]
  /\ \A c \in Calls : \A n \in 1..Attempts[c] : <<c, n>> \in Requests
  /\ NoMessage \notin Requests
BY CallAssumption DEF Requests

LEMMA InitInv == Init => IInv
<1>. SUFFICES ASSUME Init PROVE IInv
  OBVIOUS
<1>1. TypeOK
  BY CallAssumption DEF Init, TypeOK, TablesTypeOK, HandlersTypeOK, ClientsTypeOK, Labels, Replies, Results
<1>2. UnsentIsUnborn /\ StoredByWriter /\ ReadBeforeWrite /\ AnswersReal /\ OnePerKey
  BY DEF Init, UnsentIsUnborn, StoredByWriter, ReadBeforeWrite, AnswersReal, OnePerKey
<1>3. StoredWhole
  BY DEF Init, StoredWhole, HasReceipt
<1>. QED  BY <1>1, <1>2, <1>3 DEF IInv

-----------------------------------------------------------------------------
(* The steps of the gateway.                                               *)

\* A request goes on from one step before its write to the next.
LEMMA ContinueStep ==
  ASSUME IInv, NEW r \in Requests,
         NEW l \in {"read", "admit", "check", "resolve", "write", "raced"},
         pc[r] \in {"auth", "read", "admit", "check", "resolve", "write"},
         Continue(r, l),
         l \in {"admit", "check", "resolve", "write"} => toSubmitCommand(Form(r)),
         l = "write" => Form(r) # "no routes",
         UNCHANGED <<active, tables, events, clients>>
  PROVE  IInv'
<1>. USE DEF IInv, TypeOK, Continue, Goto, tables, clients, inputs
<1>1. TablesTypeOK' /\ HandlersTypeOK' /\ ClientsTypeOK'
  BY DEF TablesTypeOK, HandlersTypeOK, ClientsTypeOK, Labels
<1>2. UnsentIsUnborn' /\ StoredByWriter' /\ OnePerKey'
  <2>1. UnsentIsUnborn'
    BY DEF UnsentIsUnborn, HandlersTypeOK
  <2>2. StoredByWriter'
    BY DEF StoredByWriter, Written, HandlersTypeOK, TablesTypeOK
  <2>3. OnePerKey'
    BY DEF OnePerKey, Src, Key
  <2>. QED  BY <2>1, <2>2, <2>3
<1>3. ReadBeforeWrite' /\ StoredWhole'
  <2>1. ReadBeforeWrite'
    BY DEF ReadBeforeWrite, Form, HandlersTypeOK
  <2>2. StoredWhole'
    BY DEF StoredWhole, HasReceipt, Src, Key, Form, HandlersTypeOK
  <2>. QED  BY <2>1, <2>2
<1>4. AnswersReal'
  BY DEF HandlersTypeOK, AnswersReal, Src, Key
<1>. QED  BY <1>1, <1>2, <1>3, <1>4

\* A request that has not been answered yet is: with a message that is committed and
\* its own, if with any; with a refusal only before it wrote.
LEMMA AnswerStep ==
  ASSUME IInv, NEW r \in Requests, NEW a \in Replies \ {"none"},
         NEW m \in Requests \cup {NoMessage},
         pc[r] \in Running \ {"answer"},
         Answer(r, a, m),
         a = "refused" => pc[r] # "publish",
         a \in {"accepted", "duplicate"} =>
           m \in messages \cup purged /\ Src(m) = Src(r) /\ Key(m) = Key(r),
         UNCHANGED <<active, tables, events, clients>>
  PROVE  IInv'
<1>. USE DEF IInv, TypeOK, Answer, Goto, tables, clients, inputs
<1>1. TablesTypeOK' /\ HandlersTypeOK' /\ ClientsTypeOK'
  BY DEF TablesTypeOK, HandlersTypeOK, ClientsTypeOK, Labels
<1>2. UnsentIsUnborn' /\ StoredByWriter' /\ OnePerKey' /\ ReadBeforeWrite'
  <2>1. UnsentIsUnborn'
    BY DEF UnsentIsUnborn, HandlersTypeOK, Running
  <2>2. StoredByWriter'
    BY DEF StoredByWriter, Written, HandlersTypeOK, TablesTypeOK, Running
  <2>3. OnePerKey'
    BY DEF OnePerKey, Src, Key
  <2>4. ReadBeforeWrite'
    BY DEF ReadBeforeWrite, Form, HandlersTypeOK
  <2>. QED  BY <2>1, <2>2, <2>3, <2>4
<1>3. AnswersReal'
  BY DEF HandlersTypeOK, AnswersReal, Src, Key
<1>4. StoredWhole'
  <2>1. a = "refused" => r \notin messages
    BY DEF StoredByWriter, Written, Running
  <2>. QED  BY <2>1 DEF HandlersTypeOK, StoredWhole, HasReceipt, Src, Key, Form
<1>. QED  BY <1>1, <1>2, <1>3, <1>4

LEMMA BeforeWriteStep ==
  ASSUME IInv, NEW r \in Requests,
         Authenticate(r) \/ Submit(r) \/ Admit(r) \/ Resolve(r) \/ Refuse(r) \/ Fail(r)
  PROVE  IInv'
<1>1. ASSUME NEW a \in {"refused", "again"}, Answer(r, a, NoMessage),
             pc[r] \in {"auth", "read", "admit", "check", "resolve", "write"},
             UNCHANGED <<active, tables, events, clients>>
      PROVE  IInv'
  BY <1>1, AnswerStep DEF Replies, Running, Labels
<1>2. CASE Authenticate(r)
  BY <1>1, <1>2, ContinueStep DEF Authenticate
<1>3. CASE Submit(r)
  BY <1>1, <1>3, ContinueStep DEF Submit
<1>4. CASE Admit(r)
  <2>1. CASE active[Src(r)] /\ Continue(r, IF Key(r) # NoKey THEN "check" ELSE "resolve")
    BY <1>4, <2>1, ContinueStep DEF Admit, IInv, ReadBeforeWrite
  <2>. QED  BY <1>1, <1>4, <2>1 DEF Admit
<1>5. CASE Resolve(r)
  BY <1>5, ContinueStep DEF Resolve, IInv, ReadBeforeWrite
<1>6. CASE Refuse(r)
  BY <1>1, <1>6 DEF Refuse
<1>7. CASE Fail(r)
  BY <1>1, <1>7 DEF Fail
<1>. QED  BY <1>2, <1>3, <1>4, <1>5, <1>6, <1>7

\* The row of the same source and key is a message to name.
LEMMA DuplicateStep ==
  ASSUME IInv, NEW r \in Requests, Check(r) \/ Raced(r)
  PROVE  IInv'
<1>1. ASSUME NEW m \in SameKey(r), Answer(r, "duplicate", m)
      PROVE  IInv'
  <2>1. m \in messages /\ m \in Requests /\ Src(m) = Src(r) /\ Key(m) = Key(r)
    BY DEF SameKey, IInv, TypeOK, TablesTypeOK
  <2>. QED  BY <1>1, <2>1, AnswerStep DEF Check, Raced, Replies, Running, Labels
<1>2. CASE Answer(r, "refused", NoMessage) /\ Raced(r)
  BY <1>2, AnswerStep DEF Raced, Replies, Running, Labels
<1>3. CASE Continue(r, "resolve") /\ Check(r)
  BY <1>3, ContinueStep DEF Check, IInv, ReadBeforeWrite
<1>. QED  BY <1>1, <1>2, <1>3 DEF Check, Raced

\* The transaction of the write commits: a message that can be sent, all of its
\* deliveries, and no other of its source and key.
LEMMA StoreStep ==
  ASSUME IInv, NEW r \in Requests, NEW l \in {"publish", "answer"},
         NEW a \in {"none", "again"}, a = "again" <=> l = "answer",
         pc[r] = "write", New(Form(r)), NewSet(Form(r)), ~Conflict(r), Store(r),
         Goto(r, l), reply' = [reply EXCEPT ![r] = a], HandlersTypeOK',
         \A v \in Requests : v # r => named'[v] = named[v],
         UNCHANGED <<active, events, clients>>
  PROVE  IInv'
<1>. USE DEF IInv, TypeOK, Goto, Store, clients, inputs
<1>1. r \notin messages \cup purged
  BY DEF StoredByWriter, Written
<1>2. Form(r) = "plain"
  <2>1. r[1] \in Calls /\ Form(r) \in AllForms
    BY RequestShape, FormAssumption DEF Form, ClientsTypeOK
  <2>. QED  BY <2>1 DEF ReadBeforeWrite, toSubmitCommand, toPriority, toChannel, New, NewSet, AllForms
<1>3. TablesTypeOK' /\ ClientsTypeOK'
  BY <1>1 DEF TablesTypeOK, ClientsTypeOK
<1>4. UnsentIsUnborn' /\ StoredByWriter' /\ ReadBeforeWrite'
  <2>1. UnsentIsUnborn'
    BY DEF UnsentIsUnborn, HandlersTypeOK
  <2>2. StoredByWriter'
    BY DEF StoredByWriter, Written, HandlersTypeOK, TablesTypeOK
  <2>3. ReadBeforeWrite'
    BY DEF ReadBeforeWrite, Form, HandlersTypeOK
  <2>. QED  BY <2>1, <2>2, <2>3
<1>5. AnswersReal'
  BY DEF HandlersTypeOK, AnswersReal, Src, Key
<1>6. OnePerKey'
  BY DEF OnePerKey, Conflict, SameKey, Src, Key
<1>7. StoredWhole'
  <2>1. \A m \in messages' : {m} \X Recipients \subseteq deliveries' /\ Form(m)' = "plain"
    BY <1>2 DEF StoredWhole, Form
  <2>2. \A v \in Requests : reply'[v] = "refused" => v \notin messages'
    BY DEF StoredWhole, HandlersTypeOK
  <2>3. \A e \in events' : e[1] \in messages' \cup purged'
    BY DEF StoredWhole
  <2>4. \A c \in Calls : HasReceipt(c)' =>
          /\ receipt'[c] \in messages' \cup purged'
          /\ Src(receipt[c])' = source'[c]
          /\ Key(receipt[c])' = key'[c]
    BY DEF StoredWhole, HasReceipt, Src, Key
  <2>. QED  BY <2>1, <2>2, <2>3, <2>4 DEF StoredWhole
<1>. QED  BY <1>3, <1>4, <1>5, <1>6, <1>7

LEMMA CreateStep ==
  ASSUME IInv, NEW r \in Requests, Create(r) \/ CommitLost(r)
  PROVE  IInv'
<1>. USE DEF IInv, TypeOK
<1>1. CASE Create(r) /\ ~Conflict(r)
  <2>1. HandlersTypeOK' /\ reply' = [reply EXCEPT ![r] = "none"]
    BY <1>1 DEF Create, Goto, HandlersTypeOK, Labels, AnswersReal
  <2>2. NewSet(Form(r)) /\ Store(r) /\ Goto(r, "publish") /\ named' = named
    BY <1>1 DEF Create
  <2>. QED  BY <1>1, <2>1, <2>2, StoreStep DEF Create
<1>2. CASE CommitLost(r)
  <2>1. HandlersTypeOK'
    BY <1>2 DEF CommitLost, Answer, Goto, HandlersTypeOK, Labels, Replies
  <2>2. \A v \in Requests : v # r => named'[v] = named[v]
    BY <1>2 DEF CommitLost, Answer, HandlersTypeOK
  <2>. QED  BY <1>2, <2>1, <2>2, StoreStep DEF CommitLost, Answer
<1>3. CASE Create(r) /\ Conflict(r)
  BY <1>3, ContinueStep DEF Create
<1>. QED  BY <1>1, <1>2, <1>3

LEMMA PublishStep ==
  ASSUME IInv, NEW r \in Requests,
         Published(r) \/ \E x \in Recipients : Publish(r, x)
  PROVE  IInv'
<1>. USE DEF IInv, TypeOK
<1>1. CASE Published(r)
  BY <1>1, AnswerStep DEF Published, StoredByWriter, Replies, Running, Labels
<1>2. ASSUME NEW x \in Recipients, Publish(r, x)
      PROVE  IInv'
  <2>. USE <1>2 DEF Publish, tables, clients, inputs
  <2>1. TablesTypeOK' /\ HandlersTypeOK' /\ ClientsTypeOK'
    BY DEF TablesTypeOK, HandlersTypeOK, ClientsTypeOK
  <2>2. UnsentIsUnborn' /\ StoredByWriter' /\ ReadBeforeWrite' /\ AnswersReal' /\ OnePerKey'
    <3>1. UnsentIsUnborn'
      BY DEF UnsentIsUnborn
    <3>2. StoredByWriter'
      BY DEF StoredByWriter, Written
    <3>3. ReadBeforeWrite'
      BY DEF ReadBeforeWrite, Form
    <3>4. AnswersReal'
      BY DEF AnswersReal, Src, Key
    <3>5. OnePerKey'
      BY DEF OnePerKey, Src, Key
    <3>. QED  BY <3>1, <3>2, <3>3, <3>4, <3>5
  <2>3. \A e \in events' : e[1] \in messages \cup purged
    BY DEF StoredWhole, StoredByWriter
  <2>4. StoredWhole'
    BY <2>3 DEF StoredWhole, HasReceipt, Src, Key, Form
  <2>. QED  BY <2>1, <2>2, <2>4
<1>. QED  BY <1>1, <1>2

\* Requests are over, however many: what was stored stays, and nothing is answered.
LEMMA OverStep ==
  ASSUME IInv, NEW R \in SUBSET Requests,
         \A r \in R : pc[r] \in Running,
         pc' = [r \in Requests |-> IF r \in R THEN "over" ELSE pc[r]],
         End(R),
         UNCHANGED <<active, tables, events, inputs, attempt>>,
         ClientsTypeOK',
         \A c \in Calls : HasReceipt(c)' =>
           /\ receipt'[c] \in messages \cup purged
           /\ Src(receipt'[c]) = source[c]
           /\ Key(receipt'[c]) = key[c]
  PROVE  IInv'
<1>. USE DEF IInv, TypeOK, End, tables, inputs
<1>1. TablesTypeOK' /\ HandlersTypeOK'
  BY DEF TablesTypeOK, HandlersTypeOK, Labels, Replies
<1>2. UnsentIsUnborn' /\ ReadBeforeWrite' /\ OnePerKey'
  <2>1. UnsentIsUnborn'
    BY DEF UnsentIsUnborn, Running
  <2>2. ReadBeforeWrite'
    BY DEF ReadBeforeWrite, Form
  <2>3. OnePerKey'
    BY DEF OnePerKey, Src, Key
  <2>. QED  BY <2>1, <2>2, <2>3
<1>3. StoredByWriter'
  BY DEF StoredByWriter, Written, TablesTypeOK
<1>4. AnswersReal'
  BY DEF AnswersReal, Src, Key
<1>5. StoredWhole'
  BY DEF StoredWhole, Src, Key, Form
<1>. QED  BY <1>1, <1>2, <1>3, <1>4, <1>5

LEMMA CrashStep ==
  ASSUME IInv, Crash
  PROVE  IInv'
<1>. DEFINE lost == {r \in Requests : pc[r] \in Running}
<1>1. ClientsTypeOK'
  BY DEF IInv, TypeOK, ClientsTypeOK, Crash, clients, inputs
<1>2. \A c \in Calls : HasReceipt(c)' =>
           /\ receipt'[c] \in messages \cup purged
           /\ Src(receipt'[c]) = source[c]
           /\ Key(receipt'[c]) = key[c]
  BY DEF IInv, StoredWhole, HasReceipt, Crash, clients, inputs
<1>. QED  BY <1>1, <1>2, OverStep DEF Crash, clients

-----------------------------------------------------------------------------
(* The steps of the client, and beside the gateway.                        *)

\* An attempt is sent: the next one of its call, which has not begun.
LEMMA SentStep ==
  ASSUME IInv, NEW c \in Calls, attempt[c] < Attempts[c],
         Begin(c, attempt[c] + 1), Goto(<<c, attempt[c] + 1>>, "auth"),
         UNCHANGED <<active, tables, events, left, reply, named>>
  PROVE  IInv'
<1>. DEFINE n == <<c, attempt[c] + 1>>
<1>. USE DEF IInv, TypeOK, Begin, Goto, tables, inputs
<1>1. attempt[c] \in Nat /\ Attempts[c] \in Nat
  BY CallAssumption DEF ClientsTypeOK
<1>2. n \in Requests /\ n[1] = c /\ n[2] = attempt[c] + 1
  BY <1>1, RequestShape
<1>3. pc[n] = "unborn"
  BY <1>1, <1>2 DEF UnsentIsUnborn
<1>4. TablesTypeOK' /\ HandlersTypeOK'
  BY DEF TablesTypeOK, HandlersTypeOK, Labels
<1>5. ClientsTypeOK'
  BY <1>1, CallAssumption DEF ClientsTypeOK
<1>6. UnsentIsUnborn'
  <2>. SUFFICES ASSUME NEW r \in Requests, r[2] > attempt'[r[1]] PROVE pc'[r] = "unborn"
    BY DEF UnsentIsUnborn
  <2>1. r[1] \in Calls /\ r[2] \in Nat
    BY RequestShape, CallAssumption
  <2>2. r # n
    BY <1>1, <1>2, <2>1 DEF ClientsTypeOK
  <2>3. r[2] > attempt[r[1]]
    BY <1>1, <2>1 DEF ClientsTypeOK
  <2>. QED  BY <2>2, <2>3 DEF UnsentIsUnborn, HandlersTypeOK
<1>7. StoredByWriter' /\ ReadBeforeWrite' /\ OnePerKey'
  <2>1. StoredByWriter'
    BY <1>2, <1>3 DEF StoredByWriter, Written, HandlersTypeOK, TablesTypeOK
  <2>2. ReadBeforeWrite'
    BY <1>2, <1>3 DEF ReadBeforeWrite, Form, HandlersTypeOK
  <2>3. OnePerKey'
    BY <1>2, <1>3 DEF OnePerKey, Src, Key
  <2>. QED  BY <2>1, <2>2, <2>3
<1>8. AnswersReal' /\ StoredWhole'
  <2>1. AnswersReal'
    BY <1>2, <1>3 DEF AnswersReal, Src, Key, HandlersTypeOK
  <2>2. StoredWhole'
    BY <1>2, <1>3 DEF StoredWhole, HasReceipt, Src, Key, Form
  <2>. QED  BY <2>1, <2>2
<1>. QED  BY <1>4, <1>5, <1>6, <1>7, <1>8

LEMMA CallStep ==
  ASSUME IInv, NEW c \in Calls, Call(c) \/ Lost(c)
  PROVE  IInv'
<1>. USE DEF IInv, TypeOK
<1>1. CASE Call(c)
  BY <1>1, SentStep, CallAssumption DEF Call
<1>2. CASE Lost(c) /\ UNCHANGED pc /\ Told(c, "failed", NoMessage)
  <2>. USE <1>2 DEF Lost, Told, tables, inputs
  <2>1. TablesTypeOK' /\ HandlersTypeOK'
    BY DEF TablesTypeOK, HandlersTypeOK
  <2>2. ClientsTypeOK'
    BY DEF ClientsTypeOK, Results
  <2>3. UnsentIsUnborn' /\ StoredByWriter' /\ ReadBeforeWrite' /\ AnswersReal' /\ OnePerKey'
    <3>1. UnsentIsUnborn'
      BY DEF UnsentIsUnborn
    <3>2. StoredByWriter'
      BY DEF StoredByWriter, Written
    <3>3. ReadBeforeWrite'
      BY DEF ReadBeforeWrite, Form
    <3>4. AnswersReal'
      BY DEF AnswersReal, Src, Key
    <3>5. OnePerKey'
      BY DEF OnePerKey, Src, Key
    <3>. QED  BY <3>1, <3>2, <3>3, <3>4, <3>5
  <2>4. StoredWhole'
    BY DEF StoredWhole, HasReceipt, Src, Key, Form, ClientsTypeOK
  <2>. QED  BY <2>1, <2>2, <2>3, <2>4
<1>3. CASE Lost(c) /\ MayRepeat(c) /\ Begin(c, attempt[c] + 1) /\ Goto(<<c, attempt[c] + 1>>, "auth")
  BY <1>3, SentStep DEF Lost, MayRepeat
<1>. QED  BY <1>1, <1>2, <1>3 DEF Lost

\* The client is told what the request answered, or of no message.
LEMMA ToldStep ==
  ASSUME IInv, NEW r \in Requests, pc[r] = "answer",
         Told(r[1], "failed", NoMessage)
           \/ (reply[r] # "again" /\ Told(r[1], reply[r], named[r]))
           \/ UNCHANGED clients,
         Goto(r, "over"), End({r}), UNCHANGED <<active, tables, events>>
  PROVE  IInv'
<1>. USE DEF IInv, TypeOK, Told, clients, inputs
<1>1. r[1] \in Calls
  BY RequestShape
<1>2. ClientsTypeOK'
  BY <1>1 DEF ClientsTypeOK, HandlersTypeOK, Results, Replies, AnswersReal
<1>3. \A c \in Calls : HasReceipt(c)' =>
           /\ receipt'[c] \in messages \cup purged
           /\ Src(receipt'[c]) = source[c]
           /\ Key(receipt'[c]) = key[c]
  BY <1>1 DEF StoredWhole, HasReceipt, AnswersReal, ClientsTypeOK, Src, Key
<1>4. pc' = [v \in Requests |-> IF v \in {r} THEN "over" ELSE pc[v]]
  BY DEF Goto, HandlersTypeOK
<1>. QED  BY <1>2, <1>3, <1>4, OverStep DEF Running, Labels

\* A request answers and, in the same step, the client sends the one after it.
LEMMA RepeatStep ==
  ASSUME IInv, NEW r \in Requests, pc[r] = "answer", reply[r] = "again",
         attempt[r[1]] = r[2], MayRepeat(r[1]), Begin(r[1], r[2] + 1),
         pc' = [pc EXCEPT ![r] = "over", ![<<r[1], r[2] + 1>>] = "auth"],
         End({r}), UNCHANGED <<active, tables, events>>
  PROVE  IInv'
<1>. DEFINE c == r[1]
            n == <<c, r[2] + 1>>
<1>. USE DEF IInv, TypeOK, Begin, MayRepeat, End, tables, inputs
<1>1. c \in Calls /\ attempt[c] \in Nat /\ Attempts[c] \in Nat
  BY RequestShape, CallAssumption DEF ClientsTypeOK
<1>2. n \in Requests /\ n[1] = c /\ n[2] = attempt[c] + 1 /\ n # r
  BY <1>1, RequestShape
<1>3. pc[n] = "unborn"
  BY <1>1, <1>2 DEF UnsentIsUnborn
<1>4. /\ pc' \in [Requests -> Labels]
      /\ pc'[r] = "over" /\ pc'[n] = "auth"
      /\ \A v \in Requests \ {r, n} : pc'[v] = pc[v]
  BY <1>2 DEF HandlersTypeOK, Labels
<1>5. TablesTypeOK' /\ HandlersTypeOK'
  BY <1>4 DEF TablesTypeOK, HandlersTypeOK, Replies
<1>6. ClientsTypeOK'
  BY <1>1, CallAssumption DEF ClientsTypeOK
<1>7. UnsentIsUnborn'
  <2>. SUFFICES ASSUME NEW v \in Requests, v[2] > attempt'[v[1]] PROVE pc'[v] = "unborn"
    BY DEF UnsentIsUnborn
  <2>1. v[1] \in Calls /\ v[2] \in Nat
    BY RequestShape, CallAssumption
  <2>2. v # n /\ v # r
    BY <1>1, <1>2, <2>1 DEF ClientsTypeOK
  <2>3. v[2] > attempt[v[1]]
    BY <1>1, <2>1 DEF ClientsTypeOK
  <2>. QED  BY <1>4, <2>2, <2>3 DEF UnsentIsUnborn
<1>8. StoredByWriter' /\ OnePerKey'
  <2>1. StoredByWriter'
    BY <1>2, <1>3, <1>4 DEF StoredByWriter, Written, TablesTypeOK
  <2>2. OnePerKey'
    BY <1>2, <1>3, <1>4 DEF OnePerKey, Src, Key
  <2>. QED  BY <2>1, <2>2
<1>9. AnswersReal' /\ ReadBeforeWrite'
  <2>1. AnswersReal'
    BY <1>2, <1>3, <1>4 DEF AnswersReal, Src, Key
  <2>2. ReadBeforeWrite'
    BY <1>2, <1>3, <1>4 DEF ReadBeforeWrite, Form
  <2>. QED  BY <2>1, <2>2
<1>10. StoredWhole'
  BY <1>2, <1>3, <1>4 DEF StoredWhole, HasReceipt, Src, Key, Form
<1>. QED  BY <1>5, <1>6, <1>7, <1>8, <1>9, <1>10

LEMMA ReplyStep ==
  ASSUME IInv, NEW r \in Requests, Reply(r)
  PROVE  IInv'
BY RepeatStep, ToldStep DEF Reply

LEMMA ReviewStep ==
  ASSUME IInv, NEW s \in Sources, Review(s)
  PROVE  IInv'
<1>. USE DEF IInv, TypeOK, Review, tables, handlers, clients, inputs
<1>1. active' \in [Sources -> BOOLEAN]
  BY Zenon DEF TablesTypeOK
<1>2. TablesTypeOK' /\ HandlersTypeOK' /\ ClientsTypeOK'
  BY <1>1 DEF TablesTypeOK, HandlersTypeOK, ClientsTypeOK
<1>3. UnsentIsUnborn' /\ StoredByWriter' /\ ReadBeforeWrite' /\ AnswersReal' /\ OnePerKey'
  <2>1. UnsentIsUnborn'
    BY DEF UnsentIsUnborn
  <2>2. StoredByWriter'
    BY DEF StoredByWriter, Written
  <2>3. ReadBeforeWrite'
    BY DEF ReadBeforeWrite, Form
  <2>4. AnswersReal'
    BY DEF AnswersReal, Src, Key
  <2>5. OnePerKey'
    BY DEF OnePerKey, Src, Key
  <2>. QED  BY <2>1, <2>2, <2>3, <2>4, <2>5
<1>4. StoredWhole'
  BY DEF StoredWhole, HasReceipt, Src, Key, Form
<1>. QED  BY <1>2, <1>3, <1>4

LEMMA PurgeStep ==
  ASSUME IInv, NEW m \in Requests, Purge(m)
  PROVE  IInv'
<1>. USE DEF IInv, TypeOK, Purge, handlers, clients, inputs
<1>1. TablesTypeOK' /\ HandlersTypeOK' /\ ClientsTypeOK'
  BY DEF TablesTypeOK, HandlersTypeOK, ClientsTypeOK
<1>2. messages' \cup purged' = messages \cup purged
  OBVIOUS
<1>3. UnsentIsUnborn' /\ ReadBeforeWrite' /\ OnePerKey'
  <2>1. UnsentIsUnborn'
    BY DEF UnsentIsUnborn
  <2>2. ReadBeforeWrite'
    BY DEF ReadBeforeWrite, Form
  <2>3. OnePerKey'
    BY DEF OnePerKey, Src, Key
  <2>. QED  BY <2>1, <2>2, <2>3
<1>4. StoredByWriter' /\ AnswersReal'
  <2>1. StoredByWriter'
    BY <1>2 DEF StoredByWriter, Written
  <2>2. AnswersReal'
    BY <1>2 DEF AnswersReal, Src, Key
  <2>. QED  BY <2>1, <2>2
<1>5. StoredWhole'
  BY <1>2 DEF StoredWhole, HasReceipt, Src, Key, Form
<1>. QED  BY <1>1, <1>3, <1>4, <1>5

LEMMA NextInv == IInv /\ [Next]_vars => IInv'
<1>. SUFFICES ASSUME IInv, [Next]_vars PROVE IInv'
  OBVIOUS
<1>1. CASE UNCHANGED vars
  <2>1. UNCHANGED <<active, events, messages, purged, deliveries, pc, left, reply, named,
                    source, key, form, attempt, result, receipt>>
    BY <1>1 DEF vars, tables, handlers, clients, inputs
  <2>2. TypeOK'
    BY <2>1 DEF IInv, TypeOK, TablesTypeOK, HandlersTypeOK, ClientsTypeOK
  <2>3. UnsentIsUnborn' /\ StoredByWriter' /\ ReadBeforeWrite' /\ AnswersReal' /\ OnePerKey'
    <3>1. UnsentIsUnborn'
      BY <2>1 DEF UnsentIsUnborn, IInv
    <3>2. StoredByWriter'
      BY <2>1 DEF StoredByWriter, Written, IInv
    <3>3. ReadBeforeWrite'
      BY <2>1 DEF ReadBeforeWrite, Form, IInv
    <3>4. AnswersReal'
      BY <2>1 DEF AnswersReal, Src, Key, IInv
    <3>5. OnePerKey'
      BY <2>1 DEF OnePerKey, Src, Key, IInv
    <3>. QED  BY <3>1, <3>2, <3>3, <3>4, <3>5
  <2>4. StoredWhole'
    BY <2>1 DEF IInv, StoredWhole, HasReceipt, Src, Key, Form
  <2>. QED  BY <2>2, <2>3, <2>4 DEF IInv
<1>2. ASSUME NEW r \in Requests, Handle(r)
      PROVE  IInv'
  BY <1>2, BeforeWriteStep, DuplicateStep, CreateStep, PublishStep, ReplyStep DEF Handle
<1>. QED
  BY <1>1, <1>2, CallStep, ReviewStep, PurgeStep, CrashStep DEF Next

LEMMA Inductive == Spec => []IInv
BY InitInv, NextInv, PTL DEF Spec

-----------------------------------------------------------------------------
\* Every variable of the gateway's tables, its requests and their callers has its
\* type; no client makes more attempts than it was told to; and a message is stored
\* or purged, never both.
THEOREM TypeCorrect == Spec => []TypeOK
BY Inductive, PTL DEF IInv

\* However many requests, retries and crashes interleave: a message is stored with
\* all of its deliveries or not at all, a refused request left nothing behind,
\* events are of committed rows, and a receipt names a committed message of the
\* caller's own source and key (Submitter.Submit, write, duplicateOf, raced).
THEOREM StoredIsWhole == Spec => []StoredWhole
BY Inductive, PTL DEF IInv

LEMMA AgreementFollows == IInv => ReceiptsAgree
<1>. SUFFICES ASSUME IInv, NEW c \in Calls, NEW d \in Calls,
                     HasReceipt(c), HasReceipt(d),
                     source[c] = source[d], key[c] = key[d], key[c] # NoKey,
                     {receipt[c], receipt[d]} \cap purged = {}
              PROVE  receipt[c] = receipt[d]
  BY DEF ReceiptsAgree
<1>1. receipt[c] \in messages /\ receipt[d] \in messages
  BY DEF IInv, StoredWhole
<1>. QED  BY <1>1 DEF IInv, StoredWhole, OnePerKey

\* However often its clients repeat it, over whatever attempts, one idempotency key
\* of one source names one message in every receipt, until retention deletes it
\* (the check, ON CONFLICT, and the read of the message the write lost to).
THEOREM ReceiptsAlwaysAgree == Spec => []ReceiptsAgree
BY Inductive, AgreementFollows, PTL

-----------------------------------------------------------------------------
(* What remains of it for the caller and the dispatcher.                   *)

\* A call without a key is attempted once.
OneTry == \A c \in Calls : key[c] = NoKey => attempt[c] <= 1

\* Who waits was told of nothing; only a request with a key looks for another's
\* message; and an answer names one only if it is a receipt, of the caller's own.
TellsItsOwn ==
  /\ \A c \in Calls : result[c] = "waiting" => receipt[c] = NoMessage
  /\ \A r \in Requests :
       /\ pc[r] \in {"check", "raced"} => Key(r) # NoKey
       /\ named[r] # NoMessage => reply[r] \in {"accepted", "duplicate"}
       /\ named[r] # NoMessage => named[r][1] = r[1] \/ Key(r) # NoKey

CallerInv == IInv /\ OneTry /\ TellsItsOwn

\* Nobody has been told of anything at the start.
LEMMA InitCaller == Init => CallerInv
<1>1. Init => OneTry /\ TellsItsOwn
  BY DEF Init, OneTry, TellsItsOwn
<1>. QED  BY <1>1, InitInv DEF CallerInv

\* A request is answered with no message, or with one of its caller's own.
LEMMA CallerAnswers ==
  ASSUME CallerInv, NEW r \in Requests, NEW a \in Replies, NEW m \in Requests \cup {NoMessage},
         Answer(r, a, m), UNCHANGED clients,
         m # NoMessage => a \in {"accepted", "duplicate"} /\ (m[1] = r[1] \/ Key(r) # NoKey)
  PROVE  (OneTry /\ TellsItsOwn)'
BY DEF CallerInv, IInv, TypeOK, HandlersTypeOK, OneTry, TellsItsOwn, Answer, Goto, clients, inputs, Key

\* A request goes on, and looks for a message by its key only if it has one.
LEMMA CallerContinues ==
  ASSUME CallerInv, NEW r \in Requests, NEW l, Goto(r, l), UNCHANGED <<reply, named, clients>>,
         l \in {"check", "raced"} => Key(r) # NoKey
  PROVE  (OneTry /\ TellsItsOwn)'
BY DEF CallerInv, IInv, TypeOK, HandlersTypeOK, OneTry, TellsItsOwn, Goto, clients, inputs, Key

\* The steps of the gateway.
LEMMA CallerHandles ==
  ASSUME CallerInv, NEW r \in Requests, Handle(r), ~Reply(r)
  PROVE  (OneTry /\ TellsItsOwn)'
<1>. USE DEF Replies
<1>1. CASE Authenticate(r)
  BY <1>1, CallerAnswers, CallerContinues DEF Authenticate, Continue
<1>2. CASE Submit(r)
  BY <1>2, CallerAnswers, CallerContinues DEF Submit, Continue
<1>3. CASE Admit(r)
  <2>1. CASE active[Src(r)] /\ Continue(r, IF Key(r) # NoKey THEN "check" ELSE "resolve")
    BY <1>3, <2>1, CallerContinues DEF Admit, Continue
  <2>. QED  BY <1>3, <2>1, CallerAnswers DEF Admit
<1>4. CASE Check(r)
  <2>1. ASSUME NEW m \in SameKey(r), Answer(r, "duplicate", m)
        PROVE  (OneTry /\ TellsItsOwn)'
    <3>1. m \in Requests
      BY DEF SameKey, CallerInv, IInv, TypeOK, TablesTypeOK
    <3>2. Key(r) # NoKey
      BY <1>4 DEF Check, CallerInv, TellsItsOwn
    <3>. QED  BY <1>4, <2>1, <3>1, <3>2, CallerAnswers DEF Check
  <2>. QED  BY <1>4, <2>1, CallerContinues DEF Check, Continue
<1>5. CASE Resolve(r)
  BY <1>5, CallerContinues DEF Resolve, Continue
<1>6. CASE Refuse(r)
  BY <1>6, CallerAnswers DEF Refuse
<1>7. CASE Fail(r)
  BY <1>7, CallerAnswers DEF Fail
<1>8. CASE Create(r)
  BY <1>8, CallerContinues DEF Create, Continue, Conflict
<1>9. CASE CommitLost(r)
  BY <1>9, CallerAnswers DEF CommitLost
<1>10. CASE Raced(r)
  <2>1. ASSUME NEW m \in SameKey(r), Answer(r, "duplicate", m)
        PROVE  (OneTry /\ TellsItsOwn)'
    <3>1. m \in Requests
      BY DEF SameKey, CallerInv, IInv, TypeOK, TablesTypeOK
    <3>2. Key(r) # NoKey
      BY <1>10 DEF Raced, CallerInv, TellsItsOwn
    <3>. QED  BY <1>10, <2>1, <3>1, <3>2, CallerAnswers DEF Raced
  <2>. QED  BY <1>10, <2>1, CallerAnswers DEF Raced
<1>11. ASSUME NEW x \in Recipients, Publish(r, x)
       PROVE  (OneTry /\ TellsItsOwn)'
  BY <1>11 DEF Publish, CallerInv, OneTry, TellsItsOwn, clients, inputs, Key
<1>12. CASE Published(r)
  BY <1>12, CallerAnswers DEF Published
<1>. QED  BY <1>1, <1>2, <1>3, <1>4, <1>5, <1>6, <1>7, <1>8, <1>9, <1>10, <1>11, <1>12 DEF Handle

\* Requests are over, and their callers wait, give up or are told.
LEMMA CallerOver ==
  ASSUME CallerInv, NEW R \in SUBSET Requests, End(R),
         \A r \in Requests : pc'[r] \in {pc[r], "over", "auth"},
         UNCHANGED inputs, OneTry',
         \A c \in Calls : result'[c] = "waiting" => receipt'[c] = NoMessage
  PROVE  (OneTry /\ TellsItsOwn)'
BY DEF CallerInv, TellsItsOwn, End, inputs, Key

\* A client that is told waited, and one without a key is not repeated.
LEMMA CallerReplies ==
  ASSUME CallerInv, NEW r \in Requests, Reply(r)
  PROVE  (OneTry /\ TellsItsOwn)'
<1>. DEFINE c == r[1]
<1>. USE DEF CallerInv, IInv, TypeOK
<1>1. c \in Calls /\ r[2] \in Nat
  BY RequestShape, CallAssumption
<1>2. End({r}) /\ pc[r] = "answer"
  BY DEF Reply
<1>3. \A v \in Requests : pc'[v] \in {pc[v], "over", "auth"}
  BY DEF Reply, Goto, HandlersTypeOK
<1>4. CASE UNCHANGED clients
  BY <1>2, <1>3, <1>4, CallerOver DEF clients, OneTry, TellsItsOwn, inputs
<1>5. ASSUME NEW o, NEW m, o # "waiting", Told(c, o, m)
      PROVE  (OneTry /\ TellsItsOwn)'
  <2>1. OneTry' /\ UNCHANGED inputs
    BY <1>5 DEF Told, OneTry, inputs
  <2>2. \A d \in Calls : result'[d] = "waiting" => receipt'[d] = NoMessage
    BY <1>1, <1>5 DEF Told, TellsItsOwn, ClientsTypeOK
  <2>. QED  BY <1>2, <1>3, <2>1, <2>2, CallerOver
<1>6. CASE MayRepeat(c) /\ Begin(c, r[2] + 1)
  <2>1. OneTry' /\ UNCHANGED inputs
    BY <1>6 DEF MayRepeat, Begin, OneTry, inputs, ClientsTypeOK
  <2>2. \A d \in Calls : result'[d] = "waiting" => receipt'[d] = NoMessage
    BY <1>6 DEF Begin, TellsItsOwn
  <2>. QED  BY <1>2, <1>3, <2>1, <2>2, CallerOver
<1>7. reply[r] # "waiting"
  BY DEF HandlersTypeOK, Replies
<1>. QED  BY <1>4, <1>5, <1>6, <1>7 DEF Reply

\* A call is made, or its answer lost.
LEMMA CallerCalls ==
  ASSUME CallerInv, NEW c \in Calls, Call(c) \/ Lost(c)
  PROVE  (OneTry /\ TellsItsOwn)'
<1>. USE DEF CallerInv, IInv, TypeOK
<1>1. UNCHANGED <<inputs, source, key, reply, named>>
  BY DEF Call, Lost, Begin, Told, inputs
<1>2. \A r \in Requests : pc'[r] \in {pc[r], "auth"}
  BY DEF Call, Lost, Goto, HandlersTypeOK
<1>3. OneTry'
  <2>1. CASE Call(c)
    BY <1>1, <2>1 DEF Call, Begin, OneTry, ClientsTypeOK
  <2>2. CASE Lost(c)
    BY <1>1, <2>2 DEF Lost, Begin, Told, MayRepeat, OneTry, ClientsTypeOK
  <2>. QED  BY <2>1, <2>2
<1>4. \A d \in Calls : result'[d] = "waiting" => receipt'[d] = NoMessage
  BY DEF Call, Lost, Begin, Told, TellsItsOwn, ClientsTypeOK
<1>. QED  BY <1>1, <1>2, <1>3, <1>4 DEF TellsItsOwn, Key

\* Every step.
LEMMA CallerStep == CallerInv /\ [Next]_vars => CallerInv'
<1>. SUFFICES ASSUME CallerInv, [Next]_vars PROVE (OneTry /\ TellsItsOwn)'
  BY NextInv DEF CallerInv
<1>1. CASE UNCHANGED <<handlers, clients>>
  BY <1>1 DEF CallerInv, handlers, clients, inputs, OneTry, TellsItsOwn, Key
<1>2. ASSUME NEW r \in Requests, Handle(r)
      PROVE  (OneTry /\ TellsItsOwn)'
  BY <1>2, CallerHandles, CallerReplies
<1>3. CASE Crash
  <2>. DEFINE lost == {r \in Requests : pc[r] \in Running}
  <2>1. End(lost) /\ UNCHANGED <<clients, inputs, attempt, result, receipt, key>>
    BY <1>3 DEF Crash, clients, inputs
  <2>2. \A r \in Requests : pc'[r] \in {pc[r], "over", "auth"}
    BY <1>3 DEF Crash
  <2>3. OneTry' /\ \A c \in Calls : result'[c] = "waiting" => receipt'[c] = NoMessage
    BY <2>1 DEF CallerInv, OneTry, TellsItsOwn
  <2>. QED  BY <2>1, <2>2, <2>3, CallerOver
<1>. QED  BY <1>1, <1>2, <1>3, CallerCalls DEF Next, Review, Purge, vars

\* The one write of a request is the acceptance of its message.
LEMMA StoreAccepts ==
  ASSUME CallerInv, NEW r \in Requests, pc[r] = "write", ~Conflict(r), Store(r),
         UNCHANGED <<source, key, events, receipt>>
  PROVE  Promise!Next
<1>. USE DEF CallerInv, IInv, TypeOK
<1>1. r \notin messages \cup purged
  BY DEF StoredByWriter, Written
<1>2. ASSUME NEW n \in messages, Promise!OneCaller(r[1], n[1])
      PROVE  FALSE
  <2>1. n \in Requests /\ n[1] \in Calls /\ r[1] \in Calls
    BY RequestShape DEF TablesTypeOK
  <2>2. Src(n) = Src(r) /\ Key(n) = Key(r)
    BY <1>2 DEF Promise!OneCaller, Src, Key
  <2>3. Key(r) = NoKey
    BY <2>2 DEF Conflict, SameKey
  <2>4. n[1] = r[1] /\ attempt[r[1]] <= 1
    BY <1>2, <2>1, <2>3 DEF Promise!OneCaller, OneTry, Key
  <2>5. pc[n] # "unborn"
    BY DEF StoredByWriter, Written
  <2>6. ASSUME NEW v \in {n, r}
        PROVE  v[2] = 1
    <3>1. v \in Requests /\ v[2] \in Nat /\ v[2] >= 1 /\ v[1] = r[1] /\ pc[v] # "unborn"
      BY <2>1, <2>4, <2>5, RequestShape, CallAssumption
    <3>2. ~(v[2] > attempt[r[1]]) /\ attempt[r[1]] \in Nat
      BY <2>1, <3>1 DEF UnsentIsUnborn, ClientsTypeOK
    <3>. QED  BY <2>4, <3>1, <3>2
  <2>7. n = r
    BY <2>1, <2>4, <2>6, RequestShape
  <2>. QED  BY <1>1, <2>7
<1>3. Promise!Accept(r)
  BY <1>2 DEF Promise!Accept, Store
<1>. QED  BY <1>1, <1>3 DEF Promise!Next, Promise!Known

\* Each step of Intake is a step of Acceptance, or changes nothing in it.
LEMMA StepPromise == CallerInv /\ [Next]_vars => [Promise!Next]_(Promise!promised)
<1>. SUFFICES ASSUME CallerInv, [Next]_vars
              PROVE  Promise!Next \/ UNCHANGED Promise!promised
  OBVIOUS
<1>. USE DEF CallerInv, IInv, TypeOK
<1>1. CASE UNCHANGED <<tables, events, inputs, receipt>>
  BY <1>1 DEF Promise!promised, tables, inputs
<1>2. ASSUME NEW r \in Requests, Create(r) \/ CommitLost(r)
      PROVE  Promise!Next \/ UNCHANGED Promise!promised
  <2>1. UNCHANGED <<source, key, events, receipt>>
    BY <1>2 DEF Create, CommitLost, clients, inputs
  <2>2. CASE ~Conflict(r) /\ Store(r)
    BY <1>2, <2>1, <2>2, StoreAccepts DEF Create, CommitLost
  <2>3. CASE UNCHANGED tables
    BY <2>1, <2>3 DEF Promise!promised, tables
  <2>. QED  BY <1>2, <2>2, <2>3 DEF Create, CommitLost
<1>3. ASSUME NEW r \in Requests, NEW x \in Recipients, Publish(r, x)
      PROVE  Promise!Next \/ UNCHANGED Promise!promised
  <2>1. UNCHANGED <<source, key, messages, purged, deliveries, receipt>>
    BY <1>3 DEF Publish, tables, clients, inputs
  <2>2. CASE events' = events
    BY <2>1, <2>2 DEF Promise!promised
  <2>3. CASE events' = events \cup {<<r, x>>}
    <3>1. r \in messages \cup purged
      BY <1>3 DEF Publish, StoredByWriter
    <3>2. Promise!Publish(r, x)
      BY <2>1, <2>3 DEF Promise!Publish
    <3>. QED  BY <3>1, <3>2 DEF Promise!Next, Promise!Known
  <2>. QED  BY <1>3, <2>2, <2>3 DEF Publish
<1>4. ASSUME NEW r \in Requests, Reply(r)
      PROVE  Promise!Next \/ UNCHANGED Promise!promised
  <2>1. UNCHANGED <<source, key, messages, purged, deliveries, events>>
    BY <1>4 DEF Reply, Begin, Told, tables, clients, inputs
  <2>2. r[1] \in Calls
    BY RequestShape
  <2>3. CASE receipt' = receipt
    BY <2>1, <2>3 DEF Promise!promised
  <2>4. ASSUME NEW o, NEW m \in {named[r], NoMessage}, result[r[1]] = "waiting", Told(r[1], o, m)
        PROVE  Promise!Next \/ UNCHANGED Promise!promised
    <3>1. receipt[r[1]] = NoMessage /\ receipt' = [receipt EXCEPT ![r[1]] = m]
      BY <2>2, <2>4 DEF Told, TellsItsOwn
    <3>2. CASE m = NoMessage
      <4>1. receipt' = receipt
        BY <3>1, <3>2 DEF ClientsTypeOK
      <4>. QED  BY <2>1, <4>1 DEF Promise!promised
    <3>3. CASE m # NoMessage
      <4>1. /\ m \in messages \cup purged
            /\ Src(m) = Src(r) /\ Key(m) = Key(r) /\ (m[1] = r[1] \/ Key(r) # NoKey)
        BY <2>4, <3>3 DEF TellsItsOwn, AnswersReal
      <4>2. Promise!OneCaller(r[1], m[1])
        BY <4>1 DEF Promise!OneCaller, Src, Key
      <4>3. Promise!Tell(r[1], m)
        BY <2>1, <3>1, <4>2 DEF Promise!Tell
      <4>. QED  BY <2>2, <4>1, <4>3 DEF Promise!Next, Promise!Known
    <3>. QED  BY <3>2, <3>3
  <2>. QED  BY <1>4, <2>3, <2>4 DEF Reply, Begin, clients
<1>5. ASSUME NEW c \in Calls, Call(c) \/ Lost(c)
      PROVE  Promise!Next \/ UNCHANGED Promise!promised
  <2>1. UNCHANGED <<source, key, messages, purged, deliveries, events>>
    BY <1>5 DEF Call, Lost, Begin, Told, tables, inputs
  <2>2. receipt' = receipt
    BY <1>5 DEF Call, Lost, Begin, Told, Waits, TellsItsOwn, ClientsTypeOK
  <2>. QED  BY <2>1, <2>2 DEF Promise!promised
<1>6. ASSUME NEW m \in Requests, Purge(m)
      PROVE  Promise!Next
  <2>1. Promise!Forget(m) /\ m \in messages
    BY <1>6 DEF Purge, Promise!Forget, clients, inputs
  <2>. QED  BY <2>1 DEF Promise!Next
<1>7. ASSUME NEW r \in Requests, Handle(r)
      PROVE  Promise!Next \/ UNCHANGED Promise!promised
  <2>1. CASE \/ Authenticate(r) \/ Submit(r) \/ Admit(r) \/ Check(r) \/ Resolve(r)
             \/ Refuse(r) \/ Fail(r) \/ Raced(r) \/ Published(r)
    <3>1. UNCHANGED <<tables, events, inputs, receipt>>
      BY <2>1 DEF Authenticate, Submit, Admit, Check, Resolve, Refuse, Fail, Raced, Published, clients
    <3>. QED  BY <1>1, <3>1
  <2>. QED  BY <1>2, <1>3, <1>4, <1>7, <2>1 DEF Handle
<1>8. CASE Crash \/ UNCHANGED vars \/ \E s \in Sources : Review(s)
  <2>1. UNCHANGED <<tables, events, inputs, receipt>>
    BY <1>8 DEF Crash, Review, vars, clients
  <2>. QED  BY <1>1, <2>1
<1>. QED  BY <1>5, <1>6, <1>7, <1>8 DEF Next

\* Intake implements Acceptance, with any number of calls, attempts and recipients:
\* whatever is checked, raced, retried, lost or repeated on the way, a message is
\* accepted whole and once, only accepted messages are published, and a caller is
\* told of its own message (Submitter.Submit, write, raced, publish).
THEOREM Refinement == Spec => ImplementsAcceptance
<1>1. Init => Promise!Init
  BY DEF Init, Promise!Init
<1>. QED
  BY <1>1, InitCaller, CallerStep, StepPromise, PTL DEF Spec, ImplementsAcceptance, Promise!Spec
=============================================================================
