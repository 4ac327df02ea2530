-------------------------- MODULE CredentialProofs --------------------------
(***************************************************************************)
(* Proofs about Credential, for any number of sources, identities,         *)
(* requests and messages under way.                                        *)
(***************************************************************************)
EXTENDS Credential, FiniteSetTheorems, TLAPS

-----------------------------------------------------------------------------
(* The inductive invariant.                                                *)

\* What a request works on: a row of its own source, or one that is not there yet
\* and that nobody else is about to write.
JobsAreOwn ==
  \A c \in Callers : pc[c] # "idle" =>
    /\ op[c] = "set" => job[c] \in RowsOf(c)
    /\ op[c] # "set" => /\ job[c] \in Ids \ registered /\ asking[c] \in Names
                        /\ \A d \in Callers \ {c} : job[d] # job[c]

\* The flag is cleared on rows of the request's own source, and nowhere else.
ClearsItsOwn ==
  \A c \in Callers :
    /\ cleared[c] \subseteq RowsOf(c)
    /\ pc[c] = "lock" => target[c] \in RowsOf(c)

\* The two unique indexes, and that a default is switched on.
Indexes ==
  /\ \A i, j \in registered : owner[i] = owner[j] /\ name[i] = name[j] => i = j
  /\ \A i, j \in default : owner[i] = owner[j] => i = j
  /\ default \subseteq active

\* What a message has settled on stays true of it: rows are never deleted, and
\* material only grows.
SendsAreOwn ==
  \A s \in Senders :
    /\ began[s] => RowsOf(s) # {}
    /\ trial[s] # None => trial[s] \in RowsOf(s) /\ name[trial[s]] = wanted[s]
    /\ at[s] = "ours" => ~began[s] /\ wanted[s] = NoName
    /\ at[s] \in {"open", "build"} => chosen[s] # None
    /\ chosen[s] # None => /\ chosen[s] \in RowsOf(s)
                           /\ wanted[s] # NoName => name[chosen[s]] = wanted[s]
                           /\ trial[s] \in {None, chosen[s]}
    /\ sentAs[s] \in {None, Ours, chosen[s]}
    /\ sentAs[s] = Ours => ~began[s] /\ wanted[s] = NoName

NoneIsStale ==
  \A s \in Senders :
    /\ \A i \in Ids : stood[s][i] <= material[i]
    /\ at[s] = "build" \/ sentAs[s] \in Ids => opened[s] >= stood[s][chosen[s]]

UnsentYet == \A s \in Senders : at[s] # "done" => sentAs[s] = None

IInv ==
  /\ TypeOK /\ JobsAreOwn /\ ClearsItsOwn /\ Indexes
  /\ SendsAreOwn /\ NoneIsStale /\ UnsentYet

LEMMA InitInv == Init => IInv
<1>. SUFFICES ASSUME Init PROVE IInv
  OBVIOUS
<1>. USE CredentialAssumption DEF Init
<1>1. TableTypeOK
  BY DEF TableTypeOK
<1>2. RequestsTypeOK
  BY DEF RequestsTypeOK
<1>3. SendsTypeOK
  BY DEF SendsTypeOK
<1>4. JobsAreOwn /\ ClearsItsOwn /\ Indexes
  BY DEF JobsAreOwn, ClearsItsOwn, Indexes
<1>5. SendsAreOwn /\ NoneIsStale /\ UnsentYet
  BY DEF SendsAreOwn, NoneIsStale, UnsentYet
<1>. QED  BY <1>1, <1>2, <1>3, <1>4, <1>5 DEF IInv, TypeOK

-----------------------------------------------------------------------------
(* Requests, up to the statement that decides.                             *)

\* A step of a request that writes nothing.
LEMMA OnlyRequests ==
  ASSUME IInv, UNCHANGED <<source, table, sends>>,
         RequestsTypeOK', JobsAreOwn', ClearsItsOwn'
  PROVE  IInv'
<1>. USE DEF IInv, TypeOK, table, sends
<1>1. TableTypeOK' /\ SendsTypeOK'
  BY DEF TableTypeOK, SendsTypeOK
<1>2. Indexes'
  BY DEF Indexes
<1>3. SendsAreOwn' /\ NoneIsStale' /\ UnsentYet'
  BY DEF SendsAreOwn, NoneIsStale, UnsentYet, RowsOf
<1>. QED  BY <1>1, <1>2, <1>3

\* A request that is over holds nothing, and the others what they held.
LEMMA EndFrame ==
  ASSUME RequestsTypeOK, NEW c \in Callers, End(c)
  PROVE  /\ RequestsTypeOK'
         /\ pc'[c] = "idle" /\ job'[c] = None /\ cleared'[c] = {}
         /\ \A d \in Callers \ {c} :
              /\ pc'[d] = pc[d] /\ op'[d] = op[d] /\ job'[d] = job[d] /\ asking'[d] = asking[d]
              /\ target'[d] = target[d] /\ cleared'[d] = cleared[d]
<1>. USE DEF End
<1>1. wasActive' \in [Callers -> BOOLEAN]
  BY Zenon DEF RequestsTypeOK
<1>. QED  BY <1>1 DEF RequestsTypeOK

LEMMA RollbackStep ==
  ASSUME IInv, NEW c \in Callers, Refused(c) \/ Fails(c)
  PROVE  IInv'
<1>. USE DEF IInv, TypeOK
<1>1. End(c) /\ UNCHANGED <<source, table, sends>>
  BY DEF Refused, Fails, Rollback
<1>2. RequestsTypeOK' /\ JobsAreOwn'
  BY <1>1, EndFrame, CredentialAssumption DEF JobsAreOwn, RowsOf, table
<1>3. ClearsItsOwn'
  BY <1>1, EndFrame DEF ClearsItsOwn, RowsOf, table
<1>. QED  BY <1>1, <1>2, <1>3, OnlyRequests

LEMMA RegisterStep ==
  ASSUME IInv, NEW c \in Callers, NEW i \in Ids, NEW n \in Names \cup {NoName}, NEW b \in BOOLEAN,
         Register(c, i, n, b)
  PROVE  IInv'
<1>. USE DEF IInv, TypeOK, Register, table
<1>1. RequestsTypeOK'
  BY DEF RequestsTypeOK
<1>2. JobsAreOwn'
  BY DEF RequestsTypeOK, JobsAreOwn, RowsOf, validateName
<1>3. ClearsItsOwn'
  BY DEF RequestsTypeOK, ClearsItsOwn, RowsOf
<1>. QED  BY <1>1, <1>2, <1>3, OnlyRequests

LEMMA SetDefaultStep ==
  ASSUME IInv, NEW c \in Callers, NEW i \in Ids, SetDefault(c, i)
  PROVE  IInv'
<1>. USE DEF IInv, TypeOK, SetDefault, table
<1>1. wasActive' \in [Callers -> BOOLEAN]
  BY DEF RequestsTypeOK
<1>2. RequestsTypeOK'
  BY <1>1 DEF RequestsTypeOK
<1>3. JobsAreOwn'
  BY DEF RequestsTypeOK, JobsAreOwn, RowsOf
<1>4. ClearsItsOwn'
  BY DEF RequestsTypeOK, ClearsItsOwn, RowsOf
<1>. QED  BY <1>2, <1>3, <1>4, OnlyRequests

LEMMA ClearStep ==
  ASSUME IInv, NEW c \in Callers, ClearDefault(c) \/ LockDefault(c)
  PROVE  IInv'
<1>. USE DEF IInv, TypeOK, ClearDefault, LockDefault, table
<1>1. RequestsTypeOK'
  BY DEF RequestsTypeOK, TableTypeOK
<1>2. JobsAreOwn'
  BY DEF RequestsTypeOK, JobsAreOwn, RowsOf
<1>3. ClearsItsOwn'
  BY DEF RequestsTypeOK, ClearsItsOwn, RowsOf
<1>. QED  BY <1>1, <1>2, <1>3, OnlyRequests

-----------------------------------------------------------------------------
(* The statements that write the table.                                    *)

\* Rows are kept with their owner and name, and material grows: what messages have
\* settled on stands.
LEMMA OnlyTable ==
  ASSUME IInv, UNCHANGED <<source, sends>>,
         TableTypeOK', RequestsTypeOK', JobsAreOwn', ClearsItsOwn', Indexes',
         registered \subseteq registered',
         \A i \in registered : owner'[i] = owner[i] /\ name'[i] = name[i],
         \A i \in Ids : material[i] <= material'[i]
  PROVE  IInv'
<1>. USE DEF IInv, TypeOK, sends
<1>1. SendsTypeOK'
  BY DEF SendsTypeOK
<1>2. \A s \in Senders : RowsOf(s) \subseteq RowsOf(s)'
  BY DEF RowsOf
<1>3. \A s \in Senders : \A i \in RowsOf(s) : name'[i] = name[i]
  BY DEF RowsOf
<1>4. SendsAreOwn'
  BY <1>2, <1>3 DEF SendsAreOwn, SendsTypeOK
<1>5. NoneIsStale' /\ UnsentYet'
  BY DEF NoneIsStale, UnsentYet, SendsTypeOK, TableTypeOK
<1>. QED  BY <1>1, <1>4, <1>5

LEMMA SwitchStep ==
  ASSUME IInv, NEW c \in Callers, NEW i \in Ids, Deactivate(c, i) \/ Activate(c, i)
  PROVE  IInv'
<1>. USE DEF IInv, TypeOK, Deactivate, Activate, Get, requests
<1>1. TableTypeOK' /\ \A j \in Ids : material[j] <= material'[j]
  BY CredentialAssumption DEF TableTypeOK, RowsOf
<1>2. RequestsTypeOK' /\ JobsAreOwn' /\ ClearsItsOwn'
  BY DEF RequestsTypeOK, JobsAreOwn, ClearsItsOwn, RowsOf
<1>3. Indexes'
  BY DEF Indexes
<1>. QED  BY <1>1, <1>2, <1>3, OnlyTable

LEMMA ReplaceStep ==
  ASSUME IInv, NEW c \in Callers, NEW i \in Ids, Rotate(c, i) \/ Update(c, i)
  PROVE  IInv'
<1>. USE DEF IInv, TypeOK, Rotate, Update, Replace, requests
<1>1. TableTypeOK' /\ \A j \in Ids : material[j] <= material'[j]
  BY CredentialAssumption DEF TableTypeOK
<1>2. RequestsTypeOK' /\ JobsAreOwn' /\ ClearsItsOwn'
  BY DEF RequestsTypeOK, JobsAreOwn, ClearsItsOwn, RowsOf
<1>3. Indexes'
  BY DEF Indexes
<1>. QED  BY <1>1, <1>2, <1>3, OnlyTable

LEMMA TakeOverStep ==
  ASSUME IInv, NEW c \in Callers, TakeOver(c)
  PROVE  IInv'
<1>. USE DEF IInv, TypeOK, TakeOver
<1>1. job[c] \in active /\ job[c] \in RowsOf(c) /\ cleared[c] \subseteq RowsOf(c)
  BY DEF MakeDefault, JobsAreOwn, ClearsItsOwn
<1>2. TableTypeOK' /\ \A j \in Ids : material[j] <= material'[j]
  BY <1>1, CredentialAssumption DEF TableTypeOK
<1>3. RequestsTypeOK' /\ JobsAreOwn'
  BY EndFrame, CredentialAssumption DEF JobsAreOwn, RowsOf
<1>4. ClearsItsOwn'
  BY EndFrame DEF ClearsItsOwn, RowsOf
<1>5. Indexes'
  BY <1>1 DEF Indexes, OtherDefault, RowsOf, TableTypeOK
<1>. QED  BY <1>2, <1>3, <1>4, <1>5, OnlyTable

LEMMA CreateStep ==
  ASSUME IInv, NEW c \in Callers, Create(c)
  PROVE  IInv'
<1>. USE DEF IInv, TypeOK, Create
<1>. DEFINE i == job[c]
<1>1. /\ i \in Ids \ registered /\ asking[c] \in Names
      /\ \A d \in Callers \ {c} : job[d] # i
      /\ source[c] \in Sources
  BY DEF JobsAreOwn, TableTypeOK
<1>2. /\ owner'[i] = source[c] /\ name'[i] = asking[c]
      /\ \A j \in registered : owner'[j] = owner[j] /\ name'[j] = name[j]
  BY <1>1 DEF TableTypeOK
<1>3. TableTypeOK' /\ \A j \in Ids : material[j] <= material'[j]
  BY <1>1, CredentialAssumption DEF TableTypeOK
<1>4. \A d \in Callers : RowsOf(d) \subseteq RowsOf(d)' /\ \A x \in Ids \ registered : x # i => x \notin registered'
  BY <1>2 DEF RowsOf
<1>5. RequestsTypeOK' /\ JobsAreOwn'
  BY <1>1, <1>4, EndFrame, CredentialAssumption DEF JobsAreOwn
<1>6. ClearsItsOwn'
  BY <1>4, EndFrame DEF ClearsItsOwn
<1>7. \A j, k \in registered' : owner'[j] = owner'[k] /\ name'[j] = name'[k] => j = k
  BY <1>1, <1>2 DEF Indexes, NameTaken, RowsOf
<1>8. (\A j, k \in default' : owner'[j] = owner'[k] => j = k) /\ default' \subseteq active'
  <2>1. CASE op[c] = "createDefault"
    BY <1>1, <1>2, <2>1 DEF Indexes, OtherDefault, RowsOf, TableTypeOK
  <2>2. CASE op[c] # "createDefault"
    BY <1>1, <1>2, <2>2 DEF Indexes, TableTypeOK
  <2>. QED  BY <2>1, <2>2
<1>9. Indexes'
  BY <1>7, <1>8 DEF Indexes
<1>. QED  BY <1>2, <1>3, <1>5, <1>6, <1>9, OnlyTable

-----------------------------------------------------------------------------
(* Messages.                                                               *)

LEMMA OnlySends ==
  ASSUME IInv, UNCHANGED <<source, table, requests>>,
         SendsTypeOK', SendsAreOwn', NoneIsStale', UnsentYet'
  PROVE  IInv'
<1>. USE DEF IInv, TypeOK, table, requests
<1>1. TableTypeOK' /\ RequestsTypeOK'
  BY DEF TableTypeOK, RequestsTypeOK
<1>2. JobsAreOwn' /\ ClearsItsOwn' /\ Indexes'
  BY DEF JobsAreOwn, ClearsItsOwn, Indexes, RowsOf
<1>. QED  BY <1>1, <1>2

\* What is picked is a row of the source, and of the name asked for.
LEMMA PickIsOwn ==
  ASSUME NEW s, NEW n
  PROVE  \/ Pick(s, n) = None
         \/ Pick(s, n) \in RowsOf(s) /\ (n # NoName => name[Pick(s, n)] = n)
<1>. DEFINE usable == IF n = NoName THEN default \cap active \cap RowsOf(s)
                      ELSE {i \in RowsOf(s) : name[i] = n} \cap active
<1>1. CASE usable = {}
  BY <1>1 DEF Pick
<1>2. CASE usable # {}
  <2>1. Pick(s, n) = CHOOSE i \in usable : TRUE
    BY <1>2 DEF Pick
  <2>2. Pick(s, n) \in usable
    BY <1>2, <2>1
  <2>. QED  BY <2>2
<1>. QED  BY <1>1, <1>2

LEMMA BeginStep ==
  ASSUME IInv, NEW s \in Senders, NEW n \in Names \cup {NoName}, NEW i \in Ids \cup {None},
         i # None => i \in RowsOf(s) /\ name[i] = n,
         Begin(s, n, i)
  PROVE  IInv'
<1>. USE CredentialAssumption DEF IInv, TypeOK, Begin, table
<1>1. began' \in [Senders -> BOOLEAN] /\ (began'[s] => RowsOf(s) # {})
      /\ \A v \in Senders \ {s} : began'[v] = began[v]
  BY DEF SendsTypeOK
<1>2. SendsTypeOK'
  BY <1>1 DEF SendsTypeOK, TableTypeOK
<1>3. /\ at'[s] = "resolve" /\ wanted'[s] = n /\ trial'[s] = i /\ chosen'[s] = None
      /\ sentAs'[s] = None /\ stood'[s] = material /\ opened'[s] = 0
      /\ \A v \in Senders \ {s} :
           /\ at'[v] = at[v] /\ wanted'[v] = wanted[v] /\ trial'[v] = trial[v]
           /\ chosen'[v] = chosen[v] /\ sentAs'[v] = sentAs[v] /\ stood'[v] = stood[v]
           /\ opened'[v] = opened[v]
  BY DEF SendsTypeOK
<1>4. SendsAreOwn'
  BY <1>1, <1>3 DEF SendsAreOwn, RowsOf
<1>5. NoneIsStale' /\ UnsentYet'
  BY <1>3 DEF NoneIsStale, UnsentYet, TableTypeOK
<1>. QED  BY <1>2, <1>4, <1>5, OnlySends

LEMMA ResolveStep ==
  ASSUME IInv, NEW s \in Senders, Resolve(s)
  PROVE  IInv'
<1>. USE CredentialAssumption DEF IInv, TypeOK, Resolve, table
<1>. DEFINE n == wanted[s]
            p == Pick(s, n)
<1>1. p = None \/ (p \in RowsOf(s) /\ (n # NoName => name[p] = n))
  BY PickIsOwn
<1>2. p \in Ids \cup {None}
  BY <1>1 DEF RowsOf, TableTypeOK
<1>3. p # None /\ trial[s] # None => p = trial[s]
  <2>. SUFFICES ASSUME p # None, trial[s] # None PROVE p = trial[s]
    OBVIOUS
  <2>1. trial[s] \in RowsOf(s) /\ name[trial[s]] = n
    BY DEF SendsAreOwn
  <2>2. n # NoName
    BY <2>1 DEF RowsOf, TableTypeOK
  <2>. QED  BY <1>1, <2>1, <2>2 DEF Indexes, RowsOf
<1>4. /\ chosen'[s] = p
      /\ at'[s] \in {"ours", "done", "open"}
      /\ at'[s] = "ours" => StandsIn(s, n)
      /\ at'[s] = "open" => p # None
      /\ \A v \in Senders \ {s} : chosen'[v] = chosen[v] /\ at'[v] = at[v]
  BY DEF SendsTypeOK
<1>5. SendsTypeOK'
  BY <1>2 DEF SendsTypeOK
<1>. HIDE DEF p
<1>6. sentAs[s] = None
  BY DEF UnsentYet
<1>7. SendsAreOwn'
  BY <1>1, <1>3, <1>4, <1>6 DEF SendsAreOwn, SendsTypeOK, RowsOf, StandsIn
<1>8. NoneIsStale' /\ UnsentYet'
  BY <1>4, <1>6 DEF NoneIsStale, UnsentYet
<1>. QED  BY <1>5, <1>7, <1>8, OnlySends

LEMMA MaterialStep ==
  ASSUME IInv, NEW s \in Senders, Material(s)
  PROVE  IInv'
<1>. USE CredentialAssumption DEF IInv, TypeOK, Material, Finish, table
<1>1. chosen[s] \in Ids /\ sentAs[s] = None /\ material[chosen[s]] \in 0..MaxChanges
      /\ stood[s][chosen[s]] <= material[chosen[s]]
  BY DEF SendsAreOwn, UnsentYet, NoneIsStale, SendsTypeOK, TableTypeOK
<1>2. SendsTypeOK'
  BY <1>1 DEF SendsTypeOK
<1>3. SendsAreOwn' /\ UnsentYet'
  BY <1>1 DEF SendsAreOwn, UnsentYet, SendsTypeOK, RowsOf
<1>4. NoneIsStale'
  BY <1>1 DEF NoneIsStale, SendsTypeOK, TableTypeOK
<1>. QED  BY <1>2, <1>3, <1>4, OnlySends

\* The message goes out as w, or as nobody.
LEMMA FinishStep ==
  ASSUME IInv, NEW s \in Senders, NEW w \in {Ours, None, chosen[s]},
         at[s] = (IF w = Ours THEN "ours" ELSE "build") \/ (at[s] \in {"ours", "build"} /\ w = None),
         Finish(s, w),
         UNCHANGED <<source, table, requests, wanted, chosen, began, trial, stood, opened>>
  PROVE  IInv'
<1>. USE CredentialAssumption DEF IInv, TypeOK, table
<1>1. w \in Ids \cup {None, Ours} /\ chosen[s] # Ours
  BY DEF SendsTypeOK
<1>2. /\ sentAs' \in [Senders -> Ids \cup {None, Ours}] /\ sentAs'[s] = w
      /\ at' \in [Senders -> {"idle", "resolve", "ours", "open", "build", "done"}] /\ at'[s] = "done"
      /\ \A v \in Senders \ {s} : sentAs'[v] = sentAs[v] /\ at'[v] = at[v]
  BY <1>1 DEF Finish, SendsTypeOK
<1>3. SendsTypeOK'
  BY <1>2 DEF SendsTypeOK
<1>4. SendsAreOwn'
  BY <1>1, <1>2 DEF SendsAreOwn, RowsOf
<1>5. NoneIsStale' /\ UnsentYet'
  BY <1>1, <1>2 DEF NoneIsStale, UnsentYet
<1>. QED  BY <1>3, <1>4, <1>5, OnlySends

LEMMA SentStep ==
  ASSUME IInv, NEW s \in Senders, ours(s) \/ build(s)
  PROVE  IInv'
<1>1. chosen[s] # Ours
  BY CredentialAssumption DEF IInv, TypeOK, SendsTypeOK
<1>. QED  BY <1>1, FinishStep, CredentialAssumption DEF ours, build

LEMMA NextInv == IInv /\ [Next]_vars => IInv'
<1>. SUFFICES ASSUME IInv, [Next]_vars PROVE IInv'
  OBVIOUS
<1>1. CASE UNCHANGED vars
  <2>1. SendsTypeOK' /\ SendsAreOwn' /\ NoneIsStale' /\ UnsentYet'
    BY <1>1 DEF vars, table, sends, IInv, TypeOK, SendsTypeOK, SendsAreOwn, NoneIsStale, UnsentYet, RowsOf
  <2>. QED  BY <1>1, <2>1, OnlySends DEF vars
<1>2. ASSUME NEW s \in Senders, NEW n \in Names \cup {NoName}, For(s, n)
      PROVE  IInv'
  BY <1>2, BeginStep DEF For
<1>3. ASSUME NEW s \in Senders, NEW i \in Ids, Trial(s, i)
      PROVE  IInv'
  BY <1>3, BeginStep DEF Trial, Get, RowsOf, IInv, TypeOK, TableTypeOK
<1>. QED
  BY <1>1, <1>2, <1>3, RegisterStep, SetDefaultStep, ClearStep, CreateStep, TakeOverStep,
     RollbackStep, SwitchStep, ReplaceStep, ResolveStep, MaterialStep, SentStep DEF Next

LEMMA Inductive == Spec => []IInv
BY InitInv, NextInv, PTL DEF Spec

-----------------------------------------------------------------------------
(* The default, from one step to the next.                                 *)

LEMMA AtMostOne ==
  ASSUME NEW S, \A i, j \in S : i = j
  PROVE  Cardinality(S) <= 1
<1>1. CASE S = {}
  BY <1>1, FS_EmptySet
<1>2. CASE S # {}
  <2>. PICK x \in S : TRUE
    BY <1>2
  <2>1. S = {x}
    OBVIOUS
  <2>. QED  BY <2>1, FS_Singleton
<1>. QED  BY <1>1, <1>2

\* A source with a default keeps it, or has it switched off.
LEMMA DefaultMoves ==
  ASSUME IInv, NEW o \in Sources, [Next]_vars, NEW i \in default, owner[i] = o, i \in active'
  PROVE  \E j \in default' : owner'[j] = o
<1>. USE DEF IInv, TypeOK
<1>1. i \in registered
  BY DEF TableTypeOK
<1>2. CASE UNCHANGED <<default, owner>>
  BY <1>2
<1>3. ASSUME NEW c \in Callers, Create(c)
      PROVE  \E j \in default' : owner'[j] = o
  <2>1. job[c] \in Ids \ registered /\ cleared[c] \subseteq RowsOf(c)
    BY <1>3 DEF Create, JobsAreOwn, ClearsItsOwn
  <2>2. owner'[i] = o /\ owner'[job[c]] = source[c]
    BY <1>1, <1>3, <2>1 DEF Create, TableTypeOK
  <2>3. i \in default' \/ (source[c] = o /\ job[c] \in default')
    BY <1>3, <2>1 DEF Create, RowsOf
  <2>. QED  BY <2>2, <2>3
<1>4. ASSUME NEW c \in Callers, TakeOver(c)
      PROVE  \E j \in default' : owner'[j] = o
  <2>1. job[c] \in RowsOf(c) /\ cleared[c] \subseteq RowsOf(c)
    BY <1>4 DEF TakeOver, JobsAreOwn, ClearsItsOwn
  <2>. QED  BY <1>4, <2>1 DEF TakeOver, RowsOf
<1>5. ASSUME NEW c \in Callers, NEW k \in Ids, Deactivate(c, k)
      PROVE  \E j \in default' : owner'[j] = o
  BY <1>5 DEF Deactivate
<1>6. ASSUME NEW c \in Callers, NEW k \in Ids, Activate(c, k) \/ Rotate(c, k) \/ Update(c, k)
      PROVE  UNCHANGED <<default, owner>>
  BY <1>6 DEF Activate, Rotate, Update, Replace
<1>7. ASSUME NEW c \in Callers,
             \/ \E k \in Ids, n \in Names \cup {NoName}, d \in BOOLEAN : Register(c, k, n, d)
             \/ \E k \in Ids : SetDefault(c, k)
             \/ ClearDefault(c) \/ LockDefault(c) \/ Refused(c) \/ Fails(c)
      PROVE  UNCHANGED <<default, owner>>
  BY <1>7 DEF Register, SetDefault, ClearDefault, LockDefault, Refused, Fails, Rollback, table
<1>8. ASSUME NEW s \in Senders,
             \/ \E n \in Names \cup {NoName} : For(s, n)
             \/ \E k \in Ids : Trial(s, k)
             \/ Resolve(s) \/ ours(s) \/ Material(s) \/ build(s)
      PROVE  UNCHANGED <<default, owner>>
  BY <1>8 DEF For, Trial, Begin, Resolve, ours, Material, build, table
<1>9. CASE UNCHANGED vars
  BY <1>2, <1>9 DEF vars, table
<1>. QED  BY <1>2, <1>3, <1>4, <1>5, <1>6, <1>7, <1>8, <1>9 DEF Next

LEMMA DefaultKept == IInv /\ [Next]_vars => \A o \in Sources : DefaultOf(o)
<1>. SUFFICES ASSUME IInv, [Next]_vars, NEW o \in Sources PROVE DefaultOf(o)
  OBVIOUS
<1>. DEFINE now  == {i \in default : owner[i] = o}
            then == {i \in default' : owner'[i] = o}
<1>1. Indexes'
  BY NextInv DEF IInv
<1>2. then \subseteq active' /\ \A i, j \in then : i = j
  BY <1>1 DEF Indexes
<1>3. Cardinality(then) <= 1
  BY <1>2, AtMostOne
<1>4. now # {} /\ then = {} => now \cap active' = {}
  BY DefaultMoves
<1>. QED  BY <1>2, <1>3, <1>4 DEF DefaultOf

-----------------------------------------------------------------------------
\* The table of identities, the requests and the messages have their types.
THEOREM TypeCorrect == Spec => []TypeOK
BY Inductive, PTL DEF IInv

\* However many moves of the default overlap, fail half way or are refused: no
\* channel of a source has two defaults or one that is switched off, and a source
\* loses its default only by switching it off (ClearDefaultCredential,
\* SetCredentialDefault and the unique index).
THEOREM DefaultAlwaysStands == Spec => DefaultStands
BY Inductive, DefaultKept, PTL DEF Spec, DefaultStands

LEMMA OwnFollows == IInv => NeverStandsIn
<1>. SUFFICES ASSUME IInv, NEW s \in Senders
              PROVE  /\ sentAs[s] = Ours => ~began[s] /\ wanted[s] = NoName
                     /\ sentAs[s] \in Ids =>
                          /\ owner[sentAs[s]] = source[s]
                          /\ wanted[s] # NoName => name[sentAs[s]] = wanted[s]
                          /\ trial[s] \in {None, sentAs[s]}
                          /\ opened[s] >= stood[s][sentAs[s]]
  BY DEF NeverStandsIn
<1>1. sentAs[s] \in Ids => sentAs[s] = chosen[s] /\ chosen[s] # None
  BY CredentialAssumption DEF IInv, SendsAreOwn
<1>. QED  BY <1>1 DEF IInv, SendsAreOwn, NoneIsStale, RowsOf

\* However identities are registered, switched and replaced while messages are being
\* sent: a message goes out as the service's own identity only for a source that had
\* registered nothing, under a name only as the identity of that name, always as one
\* of the source's own, and never with material replaced before it was begun
\* (Registry.For, credential.Pick, Trials.Run).
THEOREM SenderNeverStandsIn == Spec => []NeverStandsIn
BY Inductive, OwnFollows, PTL
=============================================================================
