---------------------------- MODULE ReviewProofs ----------------------------
(***************************************************************************)
(* Proofs about Review, for any number of people, sources, keys and        *)
(* requests under way at a time.                                           *)
(***************************************************************************)
EXTENDS Review, FiniteSetTheorems, TLAPS

-----------------------------------------------------------------------------
(* The inductive invariant.                                                *)

Names  == Sources \cup People \cup ApiKeys \cup {Nothing}
Drafts == Row \cup Account \cup ApiKey

LocalsTotal == target \in [Requests -> Names] /\ draft \in [Requests -> Drafts]

\* The gate makes no change before the attempt is recorded.
Recorded ==
  \A r \in Requests :
    /\ pc[r] \in {"write", "tell"} => r \in audit
    /\ pc[r] = "tell" => r \in done

\* What a request was let through for still holds when its statement runs, whatever
\* others wrote meanwhile: the actor was entitled, and what it was about is still
\* the actor's.
Grounds(r, v, t, d) ==
  /\ v \in Decisions => IsOperator(grade[r]) /\ Bare(d) \in {Queued, Approved, Suspended, Refused}
  /\ v \in {"role", "active"} => Governs(r, t)
  /\ v = "create" => t \notin made /\ Owner[t] = actor[r] /\ Bare(d) = Queued
  /\ v = "issue"  => keyOf[t] = Nothing /\ d.source \in Mine(actor[r])
  /\ v = "revoke" => keyOf[t] # Nothing /\ Owner[keyOf[t]] = actor[r]

Pending(r) == pc[r] \in {"record", "write"}

Entitled == \A r \in Requests : Pending(r) => Grounds(r, verb[r], target[r], draft[r])

\* Ids and keys are new: nobody else is about to write the same.
NamesAreNew ==
  \A r, q \in Requests :
    Pending(r) /\ verb[r] \in {"create", "issue"} /\ q # r => target[q] # target[r]

UnmadeIsQueued == \A s \in Sources \ made : Decided(s) = Queued

\* A registration under way counts as the source it may become.
Registering(p) == {r \in Requests : Pending(r) /\ verb[r] = "create" /\ actor[r] = p}

Counted ==
  /\ IsFiniteSet(Open) /\ Cardinality(Open) <= MaxOpen
  /\ IsFiniteSet(made)
  /\ \A p \in People :
       Cardinality(Mine(p)) + Cardinality(Registering(p)) <= MaxSources + MaxOpen - 1

IInv ==
  /\ TypeOK /\ LocalsTotal /\ Recorded /\ Entitled /\ NamesAreNew /\ UnmadeIsQueued /\ Counted

-----------------------------------------------------------------------------
(* The review columns.                                                     *)

States == {Queued, Approved, Suspended, Refused}

LEMMA StatesAre ==
  /\ Queued    = [on |-> FALSE, approved |-> FALSE, reviewed |-> FALSE, note |-> FALSE]
  /\ Approved  = [on |-> TRUE,  approved |-> TRUE,  reviewed |-> TRUE,  note |-> FALSE]
  /\ Suspended = [on |-> FALSE, approved |-> TRUE,  reviewed |-> TRUE,  note |-> FALSE]
  /\ Refused   = [on |-> FALSE, approved |-> FALSE, reviewed |-> TRUE,  note |-> TRUE]
BY DEF Queued, Approved, Suspended, Refused, Bare, LetOut, Fresh

LEMMA FreshIsRow ==
  ASSUME NEW a \in BOOLEAN
  PROVE  Fresh(a) \in Row /\ Bare(Fresh(a)) = Queued
BY DEF Fresh, Row, Bare, Queued

\* What an operator decides about a row in one of the four states is one of them.
LEMMA DecisionsStayInStates ==
  ASSUME NEW x \in Row, Bare(x) \in States
  PROVE  /\ LetOut(x) \in Row /\ Bare(LetOut(x)) = Approved
         /\ ~x.approved => LET y == [x EXCEPT !.reviewed = TRUE, !.note = TRUE, !.on = FALSE]
                           IN  y \in Row /\ Bare(y) = Refused
         /\ x.approved => LET y == [x EXCEPT !.reviewed = TRUE, !.on = FALSE]
                          IN  y \in Row /\ Bare(y) = Suspended
BY StatesAre DEF LetOut, Row, Bare, States

\* The customer's columns are not the operators'.
LEMMA AddressIsNotDecided ==
  ASSUME NEW x \in Row, NEW a \in BOOLEAN
  PROVE  [x EXCEPT !.address = a] \in Row /\ Bare([x EXCEPT !.address = a]) = Bare(x)
BY DEF Row, Bare

LEMMA InitInv == Init => IInv
<1>. SUFFICES ASSUME Init PROVE IInv
  OBVIOUS
<1>. USE ReviewAssumption DEF Init
<1>1. Fresh(FALSE) \in Row /\ Bare(Fresh(FALSE)) = Queued
  BY FreshIsRow
<1>2. DatabaseTypeOK /\ KeysTypeOK /\ RecordsTypeOK
  BY <1>1 DEF DatabaseTypeOK, KeysTypeOK, RecordsTypeOK
<1>3. ReviewTypeOK /\ UnmadeIsQueued
  BY <1>1 DEF ReviewTypeOK, UnmadeIsQueued, Decided
<1>4. RequestsTypeOK /\ SubjectsTypeOK /\ LocalsTotal
  BY <1>1 DEF RequestsTypeOK, SubjectsTypeOK, Subject, LocalsTotal, Names, Drafts, Roles, Verbs, Decisions
<1>5. Recorded /\ Entitled /\ NamesAreNew
  BY DEF Recorded, Entitled, NamesAreNew, Pending
<1>6. Counted
  <2>1. Open = {} /\ made = {} /\ \A p \in People : Mine(p) = {} /\ Registering(p) = {}
    BY DEF Open, Mine, Registering, Pending
  <2>2. IsFiniteSet(Open) /\ IsFiniteSet(made) /\ Cardinality(Open) = 0
    BY <2>1, FS_EmptySet
  <2>3. \A p \in People : Cardinality(Mine(p)) = 0 /\ Cardinality(Registering(p)) = 0
    BY <2>1, FS_EmptySet
  <2>. QED  BY <2>2, <2>3 DEF Counted
<1>. QED  BY <1>2, <1>3, <1>4, <1>5, <1>6 DEF IInv, TypeOK

-----------------------------------------------------------------------------
(* Counting.                                                               *)

\* Nothing is registered or begun: no more is counted than before.
LEMMA CountedStays ==
  ASSUME Counted, UNCHANGED made, Open' \subseteq Open,
         \A p \in People : Registering(p)' \subseteq Registering(p)
  PROVE  Counted'
<1>. USE ReviewAssumption DEF Counted
<1>1. IsFiniteSet(Open') /\ Cardinality(Open') <= Cardinality(Open)
      /\ Cardinality(Open) \in Nat /\ Cardinality(Open') \in Nat
  BY FS_Subset, FS_CardinalityType
<1>2. IsFiniteSet(Open)' /\ Cardinality(Open)' <= MaxOpen /\ IsFiniteSet(made)'
  BY <1>1
<1>3. ASSUME NEW p \in People
      PROVE  Cardinality(Mine(p))' + Cardinality(Registering(p))' <= MaxSources + MaxOpen - 1
  <2>1. Mine(p)' = Mine(p) /\ IsFiniteSet(Mine(p)) /\ Cardinality(Mine(p)) \in Nat
    BY FS_Subset, FS_CardinalityType DEF Mine
  <2>2. IsFiniteSet(Registering(p))
    BY FS_Subset DEF Registering, Open, Pending
  <2>3. Cardinality(Registering(p)') <= Cardinality(Registering(p))
        /\ Cardinality(Registering(p)') \in Nat /\ Cardinality(Registering(p)) \in Nat
    BY <2>2, FS_Subset, FS_CardinalityType
  <2>. QED  BY <2>1, <2>3
<1>. QED  BY <1>2, <1>3

\* Sets that are finite, and the registrations of an account, which are open.
LEMMA CountedFinite ==
  ASSUME Counted
  PROVE  /\ Cardinality(Open) \in Nat
         /\ \A p \in People :
              /\ IsFiniteSet(Mine(p)) /\ Cardinality(Mine(p)) \in Nat
              /\ IsFiniteSet(Registering(p)) /\ Cardinality(Registering(p)) \in Nat
              /\ Cardinality(Registering(p)) <= Cardinality(Open)
<1>. USE DEF Counted
<1>1. Cardinality(Open) \in Nat
  BY FS_CardinalityType
<1>2. ASSUME NEW p \in People
      PROVE  IsFiniteSet(Mine(p)) /\ Cardinality(Mine(p)) \in Nat
  BY FS_Subset, FS_CardinalityType DEF Mine
<1>3. ASSUME NEW p \in People
      PROVE  /\ IsFiniteSet(Registering(p)) /\ Cardinality(Registering(p)) \in Nat
             /\ Cardinality(Registering(p)) <= Cardinality(Open)
  <2>1. Registering(p) \subseteq Open
    BY DEF Registering, Open, Pending
  <2>. QED  BY <2>1, FS_Subset, FS_CardinalityType
<1>. QED  BY <1>1, <1>2, <1>3

-----------------------------------------------------------------------------
(* The steps.                                                              *)

LEMMA ArriveStep ==
  ASSUME IInv, NEW r \in Requests, NEW p \in People, Arrive(r, p)
  PROVE  IInv'
<1>. USE DEF IInv, TypeOK, Arrive, data, keys, records
<1>1. DatabaseTypeOK' /\ KeysTypeOK' /\ ReviewTypeOK' /\ RecordsTypeOK' /\ UnmadeIsQueued'
  BY DEF DatabaseTypeOK, KeysTypeOK, ReviewTypeOK, RecordsTypeOK, UnmadeIsQueued, Decided
<1>2. RequestsTypeOK' /\ Recorded'
  BY DEF RequestsTypeOK, Recorded, DatabaseTypeOK
<1>3. SubjectsTypeOK' /\ LocalsTotal'
  BY DEF SubjectsTypeOK, Subject, LocalsTotal
<1>4. \A q \in Requests : (Pending(q)' <=> Pending(q)) /\ (q # r => grade'[q] = grade[q] /\ actor'[q] = actor[q])
      /\ ~Pending(r)
  BY DEF Pending, RequestsTypeOK
<1>5. Entitled' /\ NamesAreNew'
  BY <1>4 DEF Entitled, NamesAreNew, Grounds, Governs, Mine
<1>6. Counted'
  <2>1. Open' = Open \cup {r} /\ r \notin Open
    BY DEF Open, RequestsTypeOK
  <2>2. Cardinality(Open') = Cardinality(Open) + 1 /\ IsFiniteSet(Open')
    BY <2>1, FS_AddElement DEF Counted
  <2>3. Cardinality(Open') <= MaxOpen
    BY <2>2, CountedFinite, ReviewAssumption DEF Counted
  <2>4. \A v \in People : Mine(v)' = Mine(v) /\ Registering(v)' = Registering(v)
    BY <1>4 DEF Mine, Registering
  <2>. QED  BY <2>2, <2>3, <2>4 DEF Counted
<1>. QED  BY <1>1, <1>2, <1>3, <1>5, <1>6

\* What Close does to the other requests (nothing) and to its own.
LEMMA CloseFrame ==
  ASSUME IInv, NEW r \in Requests, Close(r)
  PROVE  /\ RequestsTypeOK' /\ LocalsTotal'
         /\ pc'[r] = "closed" /\ verb'[r] = "none" /\ target'[r] = Nothing
         /\ \A q \in Requests \ {r} :
              /\ pc'[q] = pc[q] /\ actor'[q] = actor[q] /\ grade'[q] = grade[q]
              /\ verb'[q] = verb[q] /\ target'[q] = target[q] /\ draft'[q] = draft[q]
<1>. USE DEF IInv, TypeOK, Close
<1>1. RequestsTypeOK'
  BY DEF RequestsTypeOK, Roles, Verbs
<1>2. LocalsTotal'
  BY FreshIsRow DEF LocalsTotal, Names, Drafts
<1>3. pc'[r] = "closed" /\ verb'[r] = "none" /\ target'[r] = Nothing
  BY DEF RequestsTypeOK, LocalsTotal
<1>4. ASSUME NEW q \in Requests \ {r}
      PROVE  /\ pc'[q] = pc[q] /\ actor'[q] = actor[q] /\ grade'[q] = grade[q]
             /\ verb'[q] = verb[q] /\ target'[q] = target[q] /\ draft'[q] = draft[q]
  BY <1>4 DEF RequestsTypeOK, LocalsTotal
<1>. QED  BY <1>1, <1>2, <1>3, <1>4

\* A request is answered and the database stays as it is.
LEMMA CloseStep ==
  ASSUME IInv, NEW r \in Requests, Close(r), UNCHANGED <<data, audit, done>>,
         RecordsTypeOK'
  PROVE  IInv'
<1>. USE CloseFrame DEF IInv, TypeOK, data, keys
<1>1. DatabaseTypeOK' /\ KeysTypeOK' /\ ReviewTypeOK' /\ UnmadeIsQueued'
  BY DEF DatabaseTypeOK, KeysTypeOK, ReviewTypeOK, UnmadeIsQueued, Decided
<1>2. SubjectsTypeOK' /\ Recorded'
  BY DEF SubjectsTypeOK, Subject, Recorded, Decisions
<1>3. Entitled'
  BY DEF Entitled, Grounds, Governs, Mine, Pending
<1>4. NamesAreNew'
  BY ReviewAssumption DEF NamesAreNew, Pending, SubjectsTypeOK, Subject
<1>5. Counted'
  BY CountedStays DEF Open, Registering, Pending
<1>. QED  BY <1>1, <1>2, <1>3, <1>4, <1>5

LEMMA AnsweredStep ==
  ASSUME IInv, NEW r \in Requests, TurnAway(r) \/ RecordFails(r) \/ Tell(r)
  PROVE  IInv'
<1>1. RecordsTypeOK'
  BY DEF IInv, TypeOK, RecordsTypeOK, Recorded, TurnAway, RecordFails, Tell, records
<1>. QED  BY <1>1, CloseStep DEF TurnAway, RecordFails, Tell, records

LEMMA RecordStep ==
  ASSUME IInv, NEW r \in Requests, Record(r)
  PROVE  IInv'
<1>. USE DEF IInv, TypeOK, Record, data, keys
<1>1. DatabaseTypeOK' /\ KeysTypeOK' /\ ReviewTypeOK' /\ UnmadeIsQueued'
  BY DEF DatabaseTypeOK, KeysTypeOK, ReviewTypeOK, UnmadeIsQueued, Decided
<1>2. RecordsTypeOK' /\ RequestsTypeOK' /\ Recorded'
  BY DEF RecordsTypeOK, RequestsTypeOK, Recorded
<1>3. SubjectsTypeOK' /\ LocalsTotal'
  BY DEF SubjectsTypeOK, Subject, LocalsTotal
<1>4. \A q \in Requests : Pending(q)' <=> Pending(q)
  BY DEF Pending, RequestsTypeOK
<1>5. Entitled' /\ NamesAreNew'
  BY <1>4 DEF Entitled, NamesAreNew, Grounds, Governs, Mine
<1>6. Counted'
  <2>1. Open' \subseteq Open /\ \A p \in People : Registering(p)' \subseteq Registering(p)
    BY <1>4 DEF Open, Registering, RequestsTypeOK
  <2>. QED  BY <2>1, CountedStays
<1>. QED  BY <1>1, <1>2, <1>3, <1>5, <1>6

\* A request is let through, with its grounds.
LEMMA IntendStep ==
  ASSUME IInv, NEW r \in Requests, NEW v \in Verbs \ {"none"}, NEW t \in Names, NEW d \in Drafts,
         Intend(r, v, t, d), Subject(v, t, d), Grounds(r, v, t, d),
         v \in {"create", "issue"} => \A q \in Requests : target[q] # t,
         \A q \in Requests : Pending(q) /\ verb[q] \in {"create", "issue"} => target[q] # t,
         v = "create" => BelowLimit(actor[r])
  PROVE  IInv'
<1>. USE DEF IInv, TypeOK, Intend, data, keys, records
<1>1. DatabaseTypeOK' /\ KeysTypeOK' /\ ReviewTypeOK' /\ RecordsTypeOK' /\ UnmadeIsQueued'
  BY DEF DatabaseTypeOK, KeysTypeOK, ReviewTypeOK, RecordsTypeOK, UnmadeIsQueued, Decided
<1>2. RequestsTypeOK' /\ LocalsTotal'
  BY DEF RequestsTypeOK, LocalsTotal
<1>3. /\ pc'[r] = "record" /\ verb'[r] = v /\ target'[r] = t /\ draft'[r] = d
      /\ \A q \in Requests \ {r} :
           pc'[q] = pc[q] /\ verb'[q] = verb[q] /\ target'[q] = target[q] /\ draft'[q] = draft[q]
  BY DEF RequestsTypeOK, LocalsTotal
<1>4. SubjectsTypeOK' /\ Recorded'
  BY <1>3 DEF SubjectsTypeOK, Subject, Recorded
<1>5. Entitled'
  BY <1>3 DEF Entitled, Grounds, Governs, Mine, Pending
<1>6. NamesAreNew'
  BY <1>3 DEF NamesAreNew, Pending
<1>7. Counted'
  <2>1. Open' = Open
    BY <1>3 DEF Open
  <2>2. CASE v # "create"
    <3>1. \A p \in People : Registering(p)' \subseteq Registering(p)
      BY <1>3, <2>2 DEF Registering, Pending
    <3>. QED  BY <2>1, <3>1, CountedStays
  <2>3. CASE v = "create"
    <3>1. IsFiniteSet(Open)' /\ Cardinality(Open)' <= MaxOpen /\ IsFiniteSet(made)'
      BY <2>1 DEF Counted
    <3>2. \A p \in People : IsFiniteSet(Registering(p)')
                          /\ Cardinality(Registering(p)') \in Nat
                          /\ Cardinality(Registering(p)') <= Cardinality(Open)
      <4>1. ASSUME NEW p \in People PROVE Registering(p)' \subseteq Open
        BY <1>3 DEF Registering, Open, Pending
      <4>. QED  BY <4>1, FS_Subset, FS_CardinalityType DEF Counted
    <3>3. ASSUME NEW p \in People
          PROVE  Cardinality(Mine(p))' + Cardinality(Registering(p))' <= MaxSources + MaxOpen - 1
      <4>1. Mine(p)' = Mine(p)
        BY DEF Mine
      <4>2. CASE p = actor[r]
        BY <2>3, <3>2, <4>1, <4>2, CountedFinite, ReviewAssumption DEF BelowLimit, Counted
      <4>3. CASE p # actor[r]
        <5>1. Registering(p)' = Registering(p)
          BY <1>3, <4>3 DEF Registering, Pending
        <5>. QED  BY <4>1, <5>1 DEF Counted
      <4>. QED  BY <4>2, <4>3
    <3>. QED  BY <3>1, <3>3 DEF Counted
  <2>. QED  BY <2>2, <2>3
<1>. QED  BY <1>1, <1>2, <1>4, <1>5, <1>6, <1>7

LEMMA PortalStep ==
  ASSUME IInv, NEW r \in Requests, Portal(r)
  PROVE  IInv'
<1>. USE ReviewAssumption DEF IInv, TypeOK
<1>1. \A q \in Requests :
        /\ Pending(q) /\ verb[q] = "create" => target[q] \in Sources \ made
        /\ Pending(q) /\ verb[q] = "issue" => target[q] \in ApiKeys /\ keyOf[target[q]] = Nothing
  BY DEF Entitled, Grounds, SubjectsTypeOK, Subject
<1>2. ASSUME NEW s \in Sources, NEW a \in BOOLEAN, Register(r, s, a)
      PROVE  IInv'
  <2>1. Subject("create", s, Fresh(a)) /\ Grounds(r, "create", s, Fresh(a))
    BY <1>2, FreshIsRow DEF Register, Subject, Grounds, Decisions
  <2>2. "create" \in Verbs \ {"none"} /\ s \in Names /\ Fresh(a) \in Drafts
    BY FreshIsRow DEF Verbs, Names, Drafts
  <2>3. Intend(r, "create", s, Fresh(a)) /\ BelowLimit(actor[r]) /\ \A q \in Requests : target[q] # s
    BY <1>2 DEF Register
  <2>. QED  BY <2>1, <2>2, <2>3, IntendStep
<1>3. ASSUME NEW s \in Sources, NEW a \in BOOLEAN, Update(r, s, a)
      PROVE  IInv'
  <2>. DEFINE d == [row[s] EXCEPT !.address = a]
  <2>1. s \in made /\ d \in Row
    BY <1>3, AddressIsNotDecided DEF Update, Mine, DatabaseTypeOK
  <2>2. Subject("update", s, d) /\ Grounds(r, "update", s, d)
    BY <2>1 DEF Subject, Grounds, Decisions
  <2>3. "update" \in Verbs \ {"none"} /\ s \in Names /\ d \in Drafts
    BY <2>1 DEF Verbs, Names, Drafts
  <2>4. Intend(r, "update", s, d)
    BY <1>3 DEF Update
  <2>5. \A q \in Requests : Pending(q) /\ verb[q] \in {"create", "issue"} => target[q] # s
    BY <1>1, <2>1
  <2>. HIDE DEF d
  <2>. QED  BY <2>2, <2>3, <2>4, <2>5, IntendStep
<1>4. ASSUME NEW s \in Sources, NEW k \in ApiKeys, NEW v \in {"issue", "revoke"},
             s \in Mine(actor[r]), Intend(r, v, k, [source |-> s]),
             v = "issue" => Minted(k), v = "revoke" => Holds(s, k)
      PROVE  IInv'
  <2>. DEFINE d == [source |-> s]
  <2>1. d \in ApiKey /\ d.source = s /\ s \in made /\ Owner[s] = actor[r]
    BY <1>4 DEF ApiKey, Mine
  <2>2. Subject(v, k, d)
    BY <2>1 DEF Subject, Decisions
  <2>3. v \in Verbs \ {"none"} /\ k \in Names /\ d \in Drafts
    BY <2>1 DEF Verbs, Names, Drafts
  <2>. HIDE DEF d
  <2>4. v = "issue" => keyOf[k] = Nothing /\ \A q \in Requests : target[q] # k
    BY <1>4 DEF Minted
  <2>5. v = "revoke" => keyOf[k] = s /\ s # Nothing
    BY <1>4 DEF Holds, KeysOf
  <2>6. Grounds(r, v, k, d)
    BY <1>4, <2>1, <2>4, <2>5 DEF Grounds, Decisions
  <2>7. \A q \in Requests : Pending(q) /\ verb[q] \in {"create", "issue"} => target[q] # k
    BY <1>1, <2>4, <2>5
  <2>8. Intend(r, v, k, d)
    BY <1>4 DEF d
  <2>. QED  BY <2>2, <2>3, <2>4, <2>6, <2>7, <2>8, IntendStep
<1>5. CASE IssueForm(r)
  BY <1>4, <1>5 DEF IssueForm, Issue
<1>6. CASE RevokeForm(r)
  BY <1>4, <1>6 DEF RevokeForm, RevokeKey
<1>. QED  BY <1>2, <1>3, <1>5, <1>6 DEF Portal, RegisterForm, UpdateForm

LEMMA DecideStep ==
  ASSUME IInv, NEW r \in Requests, DecideForm(r)
  PROVE  IInv'
<1>. USE ReviewAssumption DEF IInv, TypeOK
<1>. PICK s \in Sources : Decide(r, s)
  BY DEF DecideForm
<1>1. s \in made /\ IsOperator(grade[r]) /\ row[s] \in Row /\ Bare(row[s]) \in States
  BY DEF Decide, DatabaseTypeOK, ReviewTypeOK, Decided, States
<1>2. ASSUME NEW v \in Decisions, NEW d \in Row, Bare(d) \in States, Intend(r, v, s, d)
      PROVE  IInv'
  <2>1. Subject(v, s, d) /\ Grounds(r, v, s, d)
    BY <1>1, <1>2 DEF Subject, Grounds, Decisions, States
  <2>2. v \in Verbs \ {"none"} /\ s \in Names /\ d \in Drafts /\ v \notin {"create", "issue"}
    BY DEF Verbs, Names, Drafts, Decisions
  <2>3. \A q \in Requests : Pending(q) /\ verb[q] \in {"create", "issue"} => target[q] # s
    BY <1>1 DEF Entitled, Grounds, SubjectsTypeOK, Subject
  <2>. QED  BY <1>2, <2>1, <2>2, <2>3, IntendStep
<1>3. CASE Approve(r, s) \/ Restore(r, s)
  <2>1. LetOut(row[s]) \in Row /\ Bare(LetOut(row[s])) \in States
    BY <1>1, DecisionsStayInStates DEF States
  <2>. QED  BY <1>2, <1>3, <2>1 DEF Approve, Restore, Decisions
<1>4. CASE Refuse(r, s)
  <2>. DEFINE d == [row[s] EXCEPT !.reviewed = TRUE, !.note = TRUE, !.on = FALSE]
  <2>1. d \in Row /\ Bare(d) \in States
    BY <1>1, <1>4, DecisionsStayInStates DEF Refuse, States
  <2>. QED  BY <1>2, <1>4, <2>1 DEF Refuse, Decisions
<1>5. CASE Suspend(r, s)
  <2>. DEFINE d == [row[s] EXCEPT !.reviewed = TRUE, !.on = FALSE]
  <2>1. d \in Row /\ Bare(d) \in States
    BY <1>1, <1>5, DecisionsStayInStates DEF Suspend, States
  <2>. QED  BY <1>2, <1>5, <2>1 DEF Suspend, Decisions
<1>. QED  BY <1>3, <1>4, <1>5 DEF Decide

LEMMA PeopleStep ==
  ASSUME IInv, NEW r \in Requests, RoleForm(r) \/ ActiveForm(r)
  PROVE  IInv'
<1>. USE ReviewAssumption DEF IInv, TypeOK
<1>1. ASSUME NEW v \in {"role", "active"}, NEW p \in People, NEW d \in Account,
             Govern(r, p), Intend(r, v, p, d)
      PROVE  IInv'
  <2>1. Subject(v, p, d) /\ Grounds(r, v, p, d)
    BY <1>1 DEF Subject, Grounds, Decisions, Govern, Governs
  <2>2. v \in Verbs \ {"none"} /\ p \in Names /\ d \in Drafts
    BY DEF Verbs, Names, Drafts
  <2>3. \A q \in Requests : Pending(q) /\ verb[q] \in {"create", "issue"} => target[q] # p
    BY DEF SubjectsTypeOK, Subject
  <2>. QED  BY <1>1, <2>1, <2>2, <2>3, IntendStep
<1>2. CASE RoleForm(r)
  <2>. PICK p \in People, ro \in Roles : SetRole(r, p, ro)
    BY <1>2 DEF RoleForm
  <2>. DEFINE d == [role |-> ro, enabled |-> enabled[p]]
  <2>1. d \in Account
    BY DEF Account, DatabaseTypeOK
  <2>2. Govern(r, p) /\ Intend(r, "role", p, d)
    BY DEF SetRole
  <2>. HIDE DEF d
  <2>. QED  BY <1>1, <2>1, <2>2
<1>3. CASE ActiveForm(r)
  <2>. PICK p \in People, on \in BOOLEAN : SetPersonActive(r, p, on)
    BY <1>3 DEF ActiveForm
  <2>. DEFINE d == [role |-> role[p], enabled |-> on]
  <2>1. d \in Account
    BY DEF Account, DatabaseTypeOK
  <2>2. Govern(r, p) /\ Intend(r, "active", p, d)
    BY DEF SetPersonActive
  <2>. HIDE DEF d
  <2>. QED  BY <1>1, <2>1, <2>2
<1>. QED  BY <1>2, <1>3

LEMMA GatewayStep ==
  ASSUME IInv, NEW k \in ApiKeys, Authenticate(k) \/ RecordUse(k)
  PROVE  IInv'
<1>. USE DEF IInv, TypeOK
<1>1. UNCHANGED <<made, row, role, enabled, keyOf, revoked, requests, records>>
  BY DEF Authenticate, RecordUse, keys
<1>2. KeysTypeOK'
  <2>1. used' \subseteq used \cup calling /\ calling' \subseteq calling \cup {k}
        /\ (k \in calling' => keyOf[k] # Nothing)
    BY DEF Authenticate, RecordUse, LiveKey, keys, KeysTypeOK
  <2>. QED  BY <1>1, <2>1 DEF KeysTypeOK
<1>. USE <1>1 DEF requests, records
<1>3. DatabaseTypeOK' /\ ReviewTypeOK' /\ RecordsTypeOK' /\ UnmadeIsQueued'
  BY DEF DatabaseTypeOK, ReviewTypeOK, RecordsTypeOK, UnmadeIsQueued, Decided
<1>4. RequestsTypeOK' /\ SubjectsTypeOK' /\ LocalsTotal' /\ Recorded'
  BY DEF RequestsTypeOK, SubjectsTypeOK, Subject, LocalsTotal, Recorded
<1>5. Entitled' /\ NamesAreNew'
  BY DEF Entitled, NamesAreNew, Grounds, Governs, Mine, Pending
<1>6. Counted'
  BY CountedStays DEF Open, Registering, Pending
<1>. QED  BY <1>2, <1>3, <1>4, <1>5, <1>6

-----------------------------------------------------------------------------
(* The statement of a request.                                             *)

\* The request goes on to tell of its change, or its answer was lost.
Settles(r) ==
  \/ pc' = [pc EXCEPT ![r] = "tell"] /\ UNCHANGED <<actor, grade, verb, target, draft>>
  \/ Close(r)

LEMMA SettleFrame ==
  ASSUME IInv, NEW r \in Requests, pc[r] = "write", Settles(r)
  PROVE  /\ RequestsTypeOK' /\ LocalsTotal'
         /\ pc'[r] \in {"tell", "closed"}
         /\ \/ verb'[r] = "none" /\ target'[r] = Nothing
            \/ verb'[r] = verb[r] /\ target'[r] = target[r] /\ draft'[r] = draft[r]
         /\ \A q \in Requests \ {r} :
              /\ pc'[q] = pc[q] /\ actor'[q] = actor[q] /\ grade'[q] = grade[q]
              /\ verb'[q] = verb[q] /\ target'[q] = target[q] /\ draft'[q] = draft[q]
<1>1. CASE Close(r)
  BY <1>1, CloseFrame
<1>2. CASE pc' = [pc EXCEPT ![r] = "tell"] /\ UNCHANGED <<actor, grade, verb, target, draft>>
  BY <1>2 DEF IInv, TypeOK, RequestsTypeOK, LocalsTotal
<1>. QED  BY <1>1, <1>2 DEF Settles

\* A registration that is written stops being one under way.
LEMMA CountedMoves ==
  ASSUME IInv, NEW r \in Requests, pc[r] = "write", Settles(r), verb[r] = "create",
         made' = made \cup {target[r]}
  PROVE  Counted'
<1>. USE ReviewAssumption DEF IInv, TypeOK
<1>. DEFINE t == target[r]
<1>1. t \in Sources \ made /\ Owner[t] = actor[r] /\ actor[r] \in People
  BY DEF Entitled, Grounds, Pending, SubjectsTypeOK, Subject, RequestsTypeOK
<1>2. Open' \subseteq Open
  BY SettleFrame DEF Open
<1>3. IsFiniteSet(Open') /\ Cardinality(Open') <= MaxOpen
  <2>1. IsFiniteSet(Open') /\ Cardinality(Open') <= Cardinality(Open)
        /\ Cardinality(Open) \in Nat /\ Cardinality(Open') \in Nat
    BY <1>2, FS_Subset, FS_CardinalityType DEF Counted
  <2>. QED  BY <2>1 DEF Counted
<1>4. IsFiniteSet(made')
  BY FS_AddElement DEF Counted
<1>5. ASSUME NEW p \in People
      PROVE  Cardinality(Mine(p)') + Cardinality(Registering(p)') <= MaxSources + MaxOpen - 1
  <2>1. CASE p = actor[r]
    <3>1. Mine(p)' = Mine(p) \cup {t} /\ t \notin Mine(p)
      BY <1>1, <2>1 DEF Mine
    <3>2. Registering(p)' = Registering(p) \ {r} /\ r \in Registering(p)
      BY <2>1, SettleFrame DEF Registering, Pending
    <3>3. Cardinality(Mine(p)') = Cardinality(Mine(p)) + 1
      BY <3>1, CountedFinite, FS_AddElement
    <3>4. Cardinality(Registering(p)') = Cardinality(Registering(p)) - 1
      <4>1. IsFiniteSet(Registering(p))
        BY CountedFinite
      <4>2. Cardinality(Registering(p) \ {r}) = Cardinality(Registering(p)) - 1
        BY <3>2, <4>1, FS_RemoveElement
      <4>. QED  BY <3>2, <4>2
    <3>5. Cardinality(Mine(p)) \in Nat /\ Cardinality(Registering(p)) \in Nat
      BY CountedFinite
    <3>6. Cardinality(Mine(p)) + Cardinality(Registering(p)) <= MaxSources + MaxOpen - 1
      BY DEF Counted
    <3>7. Cardinality(Mine(p)') + Cardinality(Registering(p)')
            = Cardinality(Mine(p)) + Cardinality(Registering(p))
      BY <3>3, <3>4, <3>5
    <3>. QED  BY <3>6, <3>7
  <2>2. CASE p # actor[r]
    <3>1. Mine(p)' = Mine(p) /\ Registering(p)' = Registering(p)
      BY <1>1, <2>2, SettleFrame DEF Mine, Registering, Pending
    <3>. QED  BY <3>1 DEF Counted
  <2>. QED  BY <2>1, <2>2
<1>. QED  BY <1>3, <1>4, <1>5 DEF Counted

\* What a statement leaves alone keeps the grounds of the others.
LEMMA SettleStep ==
  ASSUME IInv, NEW r \in Requests, pc[r] = "write", Settles(r),
         done' = done \cup {r}, UNCHANGED <<audit, told>>,
         DatabaseTypeOK', KeysTypeOK', ReviewTypeOK', UnmadeIsQueued',
         made' = IF verb[r] = "create" THEN made \cup {target[r]} ELSE made,
         \A k \in ApiKeys : keyOf'[k] # keyOf[k] => verb[r] = "issue" /\ k = target[r]
  PROVE  IInv'
<1>. USE SettleFrame DEF IInv, TypeOK
<1>1. RecordsTypeOK' /\ Recorded'
  BY DEF RecordsTypeOK, Recorded
<1>2. SubjectsTypeOK'
  BY DEF SubjectsTypeOK, Subject, Decisions
<1>3. NamesAreNew'
  BY ReviewAssumption DEF NamesAreNew, Pending, SubjectsTypeOK, Subject
<1>4. Entitled'
  <2>. SUFFICES ASSUME NEW q \in Requests, Pending(q)'
                PROVE  Grounds(q, verb[q], target[q], draft[q])'
    BY DEF Entitled
  <2>1. /\ q # r /\ Pending(q) /\ verb'[q] = verb[q] /\ target'[q] = target[q] /\ draft'[q] = draft[q]
        /\ grade'[q] = grade[q] /\ actor'[q] = actor[q]
    BY DEF Pending
  <2>2. Grounds(q, verb[q], target[q], draft[q])
    BY <2>1 DEF Entitled
  <2>3. verb[q] = "create" => target[q] \notin made'
    BY <2>1, <2>2 DEF Grounds, NamesAreNew
  <2>4. verb[q] \in {"issue", "revoke"} => keyOf'[target[q]] = keyOf[target[q]]
    <3>. SUFFICES ASSUME verb[q] \in {"issue", "revoke"}, keyOf'[target[q]] # keyOf[target[q]] PROVE FALSE
      OBVIOUS
    <3>1. target[q] \in ApiKeys
      BY DEF SubjectsTypeOK, Subject
    <3>2. verb[r] = "issue" /\ target[q] = target[r] /\ Pending(r)
      BY <3>1 DEF Pending
    <3>. QED  BY <2>1, <3>2 DEF NamesAreNew
  <2>5. Mine(actor[q]) \subseteq Mine(actor[q])'
    BY <2>1 DEF Mine
  <2>. QED  BY <2>1, <2>2, <2>3, <2>4, <2>5 DEF Grounds, Governs
<1>5. Counted'
  <2>1. CASE verb[r] = "create"
    BY <2>1, CountedMoves
  <2>2. CASE verb[r] # "create"
    <3>1. Open' \subseteq Open /\ \A p \in People : Registering(p)' \subseteq Registering(p)
      BY DEF Open, Registering, Pending
    <3>. QED  BY <2>2, <3>1, CountedStays
  <2>. QED  BY <2>1, <2>2
<1>. QED  BY <1>1, <1>2, <1>3, <1>4, <1>5

\* What a statement does to the rows, by what it is for.
LEMMA ChangeKeepsTypes ==
  ASSUME IInv, NEW r \in Requests, pc[r] = "write", Change(r)
  PROVE  /\ DatabaseTypeOK' /\ KeysTypeOK' /\ ReviewTypeOK' /\ UnmadeIsQueued'
         /\ made' = IF verb[r] = "create" THEN made \cup {target[r]} ELSE made
         /\ \A k \in ApiKeys : keyOf'[k] # keyOf[k] => verb[r] = "issue" /\ k = target[r]
<1>. DEFINE t == target[r]
            d == draft[r]
<1>. USE ReviewAssumption DEF IInv, TypeOK, keys
<1>1. Subject(verb[r], t, d) /\ Grounds(r, verb[r], t, d)
  BY DEF SubjectsTypeOK, Entitled, Pending
<1>2. CASE verb[r] = "create" /\ CreateSource(t, d)
  <2>. USE <1>1, <1>2 DEF CreateSource, Subject, Grounds
  <2>1. row' = [row EXCEPT ![t] = d] /\ t \in Sources /\ d \in Row /\ Bare(d) = Queued
    OBVIOUS
  <2>2. DatabaseTypeOK' /\ KeysTypeOK'
    BY <2>1 DEF DatabaseTypeOK, KeysTypeOK
  <2>3. ReviewTypeOK' /\ UnmadeIsQueued'
    BY <2>1 DEF ReviewTypeOK, UnmadeIsQueued, Decided, DatabaseTypeOK
  <2>. QED  BY <2>2, <2>3
<1>3. CASE verb[r] = "update" /\ UpdateSettings(t, d)
  <2>. USE <1>1, <1>3 DEF UpdateSettings, Subject, Decisions
  <2>1. t \in Sources /\ t \in made /\ d.address \in BOOLEAN /\ row[t] \in Row
    BY DEF Row, DatabaseTypeOK
  <2>2. row' = [row EXCEPT ![t] = [row[t] EXCEPT !.address = d.address]]
    BY <2>1 DEF DatabaseTypeOK
  <2>3. DatabaseTypeOK' /\ \A s \in Sources : Decided(s)' = Decided(s)
    BY <2>1, <2>2, AddressIsNotDecided DEF DatabaseTypeOK, Decided
  <2>4. ReviewTypeOK' /\ UnmadeIsQueued' /\ KeysTypeOK'
    BY <2>3 DEF ReviewTypeOK, UnmadeIsQueued, KeysTypeOK
  <2>. QED  BY <2>3, <2>4
<1>4. CASE verb[r] \in Decisions /\ UpdateReview(t, d)
  <2>. USE <1>1, <1>4 DEF UpdateReview, Subject, Grounds
  <2>1. t \in Sources /\ t \in made /\ d \in Row /\ Bare(d) \in States /\ row[t].address \in BOOLEAN
    BY DEF Row, DatabaseTypeOK, States
  <2>2. row' = [row EXCEPT ![t] = [d EXCEPT !.address = row[t].address]]
    OBVIOUS
  <2>3. [d EXCEPT !.address = row[t].address] \in Row /\ Bare([d EXCEPT !.address = row[t].address]) = Bare(d)
    BY <2>1, AddressIsNotDecided
  <2>4. DatabaseTypeOK' /\ KeysTypeOK'
    BY <2>1, <2>2, <2>3 DEF DatabaseTypeOK, KeysTypeOK
  <2>5. ReviewTypeOK' /\ UnmadeIsQueued'
    BY <2>1, <2>2, <2>3 DEF ReviewTypeOK, UnmadeIsQueued, Decided, DatabaseTypeOK, States
  <2>. QED  BY <2>4, <2>5 DEF Decisions
<1>5. CASE \/ verb[r] = "role" /\ UpdateRole(t, d)
           \/ verb[r] = "active" /\ SetActive(t, d)
  <2>. USE <1>1, <1>5 DEF UpdateRole, SetActive, Subject, Account
  <2>1. DatabaseTypeOK'
    BY DEF DatabaseTypeOK
  <2>2. ReviewTypeOK' /\ UnmadeIsQueued' /\ KeysTypeOK'
    BY DEF ReviewTypeOK, UnmadeIsQueued, Decided, KeysTypeOK
  <2>. QED  BY <2>1, <2>2
<1>6. CASE \/ verb[r] = "issue" /\ CreateAPIKey(t, d)
           \/ verb[r] = "revoke" /\ RevokeAPIKey(t)
  <2>. USE <1>1, <1>6 DEF CreateAPIKey, RevokeAPIKey, Subject, Grounds
  <2>1. KeysTypeOK'
    BY DEF KeysTypeOK, Mine
  <2>2. DatabaseTypeOK' /\ ReviewTypeOK' /\ UnmadeIsQueued'
    BY DEF DatabaseTypeOK, ReviewTypeOK, UnmadeIsQueued, Decided
  <2>3. \A k \in ApiKeys : keyOf'[k] # keyOf[k] => verb[r] = "issue" /\ k = t
    BY DEF KeysTypeOK
  <2>. QED  BY <2>1, <2>2, <2>3
<1>. QED  BY <1>2, <1>3, <1>4, <1>5, <1>6 DEF Change

LEMMA WriteStep ==
  ASSUME IInv, NEW r \in Requests, Write(r) \/ WriteFails(r)
  PROVE  IInv'
<1>1. CASE Change(r) /\ done' = done \cup {r}
  BY <1>1, ChangeKeepsTypes, SettleStep DEF Write, WriteFails, Settles
<1>2. CASE UNCHANGED <<data, done>> /\ WriteFails(r)
  <2>1. RecordsTypeOK'
    BY <1>2 DEF WriteFails, IInv, TypeOK, RecordsTypeOK
  <2>. QED  BY <1>2, <2>1, CloseStep DEF WriteFails
<1>. QED  BY <1>1, <1>2 DEF Write, WriteFails

LEMMA NextInv == IInv /\ [Next]_vars => IInv'
<1>. SUFFICES ASSUME IInv, [Next]_vars PROVE IInv'
  OBVIOUS
<1>1. CASE UNCHANGED vars
  <2>. USE <1>1 DEF vars, data, keys, requests, records, IInv, TypeOK
  <2>1. DatabaseTypeOK' /\ KeysTypeOK' /\ ReviewTypeOK' /\ RecordsTypeOK' /\ UnmadeIsQueued'
    BY DEF DatabaseTypeOK, KeysTypeOK, ReviewTypeOK, RecordsTypeOK, UnmadeIsQueued, Decided
  <2>2. RequestsTypeOK' /\ SubjectsTypeOK' /\ LocalsTotal' /\ Recorded'
    BY DEF RequestsTypeOK, SubjectsTypeOK, Subject, LocalsTotal, Recorded
  <2>3. Entitled' /\ NamesAreNew'
    BY DEF Entitled, NamesAreNew, Grounds, Governs, Mine, Pending
  <2>4. Counted'
    BY CountedStays DEF Open, Registering, Pending
  <2>. QED  BY <2>1, <2>2, <2>3, <2>4
<1>. QED
  BY <1>1, ArriveStep, AnsweredStep, PortalStep, DecideStep, PeopleStep, RecordStep, WriteStep,
     GatewayStep DEF Next, Admin, Gate

LEMMA Inductive == Spec => []IInv
BY InitInv, NextInv, PTL DEF Spec

-----------------------------------------------------------------------------
(* Who may change what.                                                    *)

LEMMA ChangeIsEntitled ==
  ASSUME IInv, NEW r \in Requests, pc[r] = "write", pc'[r] # "write", Change(r)
  PROVE  DecisionsByTheEntitled /\ KeysByTheEntitled
<1>. DEFINE t == target[r]
            d == draft[r]
<1>. USE ReviewAssumption DEF IInv, TypeOK, keys
<1>1. Subject(verb[r], t, d) /\ Grounds(r, verb[r], t, d) /\ r \in audit
  BY DEF SubjectsTypeOK, Entitled, Pending, Recorded
<1>2. ASSUME NEW s \in Sources, Decided(s)' # Decided(s)
      PROVE  By(r, s, Decisions) /\ IsOperator(grade[r])
  <2>1. CASE verb[r] = "create" /\ CreateSource(t, d)
    <3>1. t \in Sources \ made /\ Bare(d) = Queued /\ row' = [row EXCEPT ![t] = d]
      BY <1>1, <2>1 DEF Subject, Grounds, CreateSource
    <3>2. Decided(t) = Queued
      BY <3>1 DEF UnmadeIsQueued
    <3>. QED  BY <1>2, <3>1, <3>2 DEF Decided, DatabaseTypeOK
  <2>2. CASE verb[r] = "update" /\ UpdateSettings(t, d)
    <3>1. t \in Sources /\ d.address \in BOOLEAN /\ row[t] \in Row
      BY <1>1, <2>2 DEF Subject, Row, DatabaseTypeOK
    <3>2. row' = [row EXCEPT ![t] = [row[t] EXCEPT !.address = d.address]]
      BY <2>2, <3>1 DEF UpdateSettings, DatabaseTypeOK
    <3>. QED  BY <1>2, <3>1, <3>2, AddressIsNotDecided DEF Decided, DatabaseTypeOK
  <2>3. CASE verb[r] \in Decisions /\ UpdateReview(t, d)
    <3>1. s = t
      BY <1>2, <2>3 DEF UpdateReview, Decided, DatabaseTypeOK
    <3>. QED  BY <1>1, <2>3, <3>1 DEF By, Grounds
  <2>4. CASE UNCHANGED row
    BY <1>2, <2>4 DEF Decided
  <2>. QED
    BY <2>1, <2>2, <2>3, <2>4 DEF Change, UpdateRole, SetActive, CreateAPIKey, RevokeAPIKey
<1>3. ASSUME NEW p \in People, role'[p] # role[p]
      PROVE  By(r, p, {"role"}) /\ Governs(r, p)
  <2>1. verb[r] = "role" /\ role' = [role EXCEPT ![t] = d.role]
    BY <1>3 DEF Change, CreateSource, UpdateSettings, UpdateReview, UpdateRole, SetActive,
                CreateAPIKey, RevokeAPIKey
  <2>2. p = t
    BY <1>3, <2>1 DEF DatabaseTypeOK
  <2>. QED  BY <1>1, <2>1, <2>2 DEF By, Grounds
<1>7. ASSUME NEW p \in People, enabled'[p] # enabled[p]
      PROVE  By(r, p, {"active"}) /\ Governs(r, p)
  <2>1. verb[r] = "active" /\ enabled' = [enabled EXCEPT ![t] = d.enabled]
    BY <1>7 DEF Change, CreateSource, UpdateSettings, UpdateReview, UpdateRole, SetActive,
                CreateAPIKey, RevokeAPIKey
  <2>2. p = t
    BY <1>7, <2>1 DEF DatabaseTypeOK
  <2>. QED  BY <1>1, <2>1, <2>2 DEF By, Grounds
<1>4. ASSUME NEW k \in ApiKeys
      PROVE  /\ k \in revoked' \ revoked => By(r, k, {"revoke"}) /\ actor[r] = Owner[keyOf[k]]
             /\ keyOf'[k] # keyOf[k] => By(r, k, {"issue"}) /\ actor[r] = Owner[keyOf'[k]]
             /\ k \in revoked => k \in revoked'
             /\ calling' = calling
  <2>1. CASE verb[r] = "issue" /\ CreateAPIKey(t, d)
    BY <1>1, <2>1 DEF CreateAPIKey, By, Grounds, Mine, KeysTypeOK
  <2>2. CASE verb[r] = "revoke" /\ RevokeAPIKey(t)
    BY <1>1, <2>2 DEF RevokeAPIKey, By, Grounds
  <2>3. CASE UNCHANGED <<keyOf, revoked, calling>>
    BY <2>3
  <2>. QED
    BY <2>1, <2>2, <2>3 DEF Change, CreateSource, UpdateSettings, UpdateReview, UpdateRole, SetActive
<1>5. DecisionsByTheEntitled
  BY <1>2, <1>3, <1>7 DEF DecisionsByTheEntitled
<1>6. KeysByTheEntitled
  BY <1>4 DEF KeysByTheEntitled
<1>. QED  BY <1>5, <1>6

LEMMA NextIsEntitled == IInv /\ [Next]_vars => DecisionsByTheEntitled /\ KeysByTheEntitled
<1>. SUFFICES ASSUME IInv, [Next]_vars PROVE DecisionsByTheEntitled /\ KeysByTheEntitled
  OBVIOUS
<1>1. CASE UNCHANGED <<row, role, enabled, keyOf, revoked, calling>>
  BY <1>1 DEF DecisionsByTheEntitled, KeysByTheEntitled, Decided
<1>2. ASSUME NEW k \in ApiKeys, Authenticate(k) \/ RecordUse(k)
      PROVE  DecisionsByTheEntitled /\ KeysByTheEntitled
  <2>1. UNCHANGED <<row, role, enabled, keyOf, revoked>>
        /\ \A j \in ApiKeys : j \in revoked /\ j \in calling' => j \in calling
    BY <1>2 DEF Authenticate, RecordUse, LiveKey, keys
  <2>. QED  BY <2>1 DEF DecisionsByTheEntitled, KeysByTheEntitled, Decided
<1>3. ASSUME NEW r \in Requests, Write(r) \/ WriteFails(r), Change(r)
      PROVE  DecisionsByTheEntitled /\ KeysByTheEntitled
  <2>1. pc'[r] # "write"
    BY <1>3 DEF Write, WriteFails, Close, IInv, TypeOK, RequestsTypeOK
  <2>. QED  BY <1>3, <2>1, ChangeIsEntitled DEF Write, WriteFails
<1>4. ASSUME NEW r \in Requests,
             \/ \E p \in People : Arrive(r, p)
             \/ TurnAway(r) \/ Record(r) \/ RecordFails(r) \/ Tell(r)
             \/ WriteFails(r) /\ UNCHANGED data
      PROVE  UNCHANGED <<row, role, enabled, keyOf, revoked, calling>>
  BY <1>4 DEF Arrive, TurnAway, Record, RecordFails, Tell, data, keys
<1>5. ASSUME NEW r \in Requests, Portal(r) \/ Admin(r)
      PROVE  UNCHANGED <<row, role, enabled, keyOf, revoked, calling>>
  <2>1. \A v, x, y : Intend(r, v, x, y) => UNCHANGED <<row, role, enabled, keyOf, revoked, calling>>
    BY DEF Intend, data, keys
  <2>. QED
    BY <1>5, <2>1 DEF Portal, Admin, RegisterForm, Register, UpdateForm, Update, IssueForm, Issue,
         RevokeForm, RevokeKey, DecideForm, Decide, Approve, Refuse, Suspend, Restore, RoleForm,
         SetRole, ActiveForm, SetPersonActive
<1>6. CASE UNCHANGED vars
  BY <1>1, <1>6 DEF vars, data, keys
<1>7. ASSUME NEW r \in Requests, WriteFails(r)
      PROVE  Change(r) \/ UNCHANGED data
  BY <1>7 DEF WriteFails
<1>. QED
  BY <1>1, <1>2, <1>3, <1>4, <1>5, <1>6, <1>7 DEF Next, Gate, Write

-----------------------------------------------------------------------------
\* Every variable of the console has its type, and every source is in one of the
\* four states the pages know, whatever decisions race (inState, UpdateReview).
THEOREM TypeCorrect == Spec => []TypeOK
BY Inductive, PTL DEF IInv

\* However many forms overlap: whether a source may send, a role, who may sign in and
\* a key change only by the statement of a recorded request whose actor was entitled to
\* it when it was let through, and never about themselves where that is ruled out; and
\* a revoked key lets nobody in any more (gate.go, holds, mayGovernPeople, and the
\* columns each statement writes).
THEOREM OnlyTheEntitledChange == Spec => ChangedOnlyByTheEntitled
BY Inductive, NextIsEntitled, PTL DEF Spec, ChangedOnlyByTheEntitled

LEMMA LimitFollows == IInv => OwnedWithinLimit
<1>. SUFFICES ASSUME IInv, NEW p \in People
              PROVE  Cardinality(Mine(p)) <= MaxSources + MaxOpen - 1
  BY DEF OwnedWithinLimit
<1>. QED  BY CountedFinite, ReviewAssumption DEF IInv, Counted

\* For every limit and every number of forms under way: an account exceeds its limit
\* of sources by fewer than the forms that count at the same time
\* (Sources.Register counts, then creates, without a lock).
THEOREM OwnedAlwaysWithinLimit == Spec => []OwnedWithinLimit
BY Inductive, LimitFollows, PTL
=============================================================================
