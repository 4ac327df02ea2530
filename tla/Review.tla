------------------------------- MODULE Review -------------------------------
(***************************************************************************)
(* The console: customers register and change their sources and the API    *)
(* keys of them, operators decide about sources, and super_admins about    *)
(* people (internal/core/usecase/source.go, key.go, operator.go,           *)
(* operator_people.go).  Beside it the gateway looks keys up.              *)
(* Every change goes through the gate, which records the attempt, makes    *)
(* the change and then tells whoever is listening (gate.go).               *)
(*                                                                         *)
(* A request is one form posted to the console.  It reads who is asking,   *)
(* reads what it is about and computes the row it wants, records the       *)
(* attempt, and writes: four statements, with other requests between any   *)
(* two of them.  No statement checks that the row is still the one read.   *)
(***************************************************************************)
EXTENDS Integers, FiniteSets

CONSTANTS
  People,
  Sources,      \* ids of sources that may be registered
  Owner,        \* who registers each
  ApiKeys,      \* keys that may be minted
  FirstRole,    \* roles at the start: the first operator is written by hand
  Requests,     \* forms that may be posted
  Nobody,
  Nothing,
  MaxSources,   \* MaxSourcesPerUser
  MaxOpen       \* bound: requests under way at a time

Roles == {"customer", "admin", "super_admin"}

ASSUME ReviewAssumption ==
  /\ Owner \in [Sources -> People]
  /\ FirstRole \in [People -> Roles]
  /\ Nobody \notin People
  /\ Nothing \notin Sources \cup People \cup ApiKeys
  /\ Sources \cap People = {} /\ ApiKeys \cap (Sources \cup People) = {}
  /\ MaxSources \in Nat
  /\ MaxOpen \in Nat \ {0}

VARIABLES
  \* the database
  made,      \* sources registered
  row,       \* what the operators and the owner wrote about each
  role, enabled,
  keyOf,     \* by key: the source it was issued for
  revoked,   \* keys with a revoked_at
  used,      \* keys with a last_used_at
  \* the gateway
  calling,   \* keys let in whose use is not written down yet
  audit,     \* attempts recorded, by request
  \* the requests
  pc, actor,
  grade,     \* the actor's role as the guard read it
  verb, target,
  draft,     \* the entity about to be written
  \* the world outside
  done,      \* requests whose change was made
  told       \* alerts sent, by request

keys     == <<keyOf, revoked, used>>
data     == <<made, row, role, enabled, keys, calling>>
requests == <<pc, actor, grade, verb, target, draft>>
records  == <<audit, done, told>>
vars     == <<data, requests, records>>

IsOperator(g) == g \in {"admin", "super_admin"}
Decisions     == {"approve", "refuse", "suspend", "restore"}
Verbs         == Decisions \cup {"none", "create", "update", "role", "active", "issue", "revoke"}

\* The columns of a source that anybody decides about.  allow_custom_address is
\* false for every source and nothing writes it.
Row == [on : BOOLEAN, approved : BOOLEAN, reviewed : BOOLEAN, note : BOOLEAN, address : BOOLEAN]

Account == [role : Roles, enabled : BOOLEAN]

ApiKey == [source : Sources]

\* source.New: switched off and never looked at.
Fresh(a) == [on |-> FALSE, approved |-> FALSE, reviewed |-> FALSE, note |-> FALSE, address |-> a]

Init ==
  /\ made = {}
  /\ row = [s \in Sources |-> Fresh(FALSE)]
  /\ role = FirstRole
  /\ enabled = [p \in People |-> TRUE]
  /\ keyOf = [k \in ApiKeys |-> Nothing] /\ revoked = {} /\ used = {} /\ calling = {}
  /\ audit = {} /\ done = {} /\ told = {}
  /\ pc = [r \in Requests |-> "new"]
  /\ actor = [r \in Requests |-> Nobody]
  /\ grade = [r \in Requests |-> "customer"]
  /\ verb = [r \in Requests |-> "none"]
  /\ target = [r \in Requests |-> Nothing]
  /\ draft = [r \in Requests |-> Fresh(FALSE)]

-----------------------------------------------------------------------------
(* Arriving.                                                               *)

Open == {r \in Requests : pc[r] \notin {"new", "closed"}}

\* The guard reads the person's row, and lets through who may sign in.
Arrive(r, p) ==
  /\ pc[r] = "new"
  /\ Cardinality(Open) < MaxOpen
  /\ enabled[p]
  /\ pc' = [pc EXCEPT ![r] = "asked"]
  /\ actor' = [actor EXCEPT ![r] = p]
  /\ grade' = [grade EXCEPT ![r] = role[p]]
  /\ UNCHANGED <<data, verb, target, draft, records>>

\* The answer is sent and the request's locals are gone.
Close(r) ==
  /\ pc' = [pc EXCEPT ![r] = "closed"]
  /\ actor' = [actor EXCEPT ![r] = Nobody]
  /\ grade' = [grade EXCEPT ![r] = "customer"]
  /\ verb' = [verb EXCEPT ![r] = "none"]
  /\ target' = [target EXCEPT ![r] = Nothing]
  /\ draft' = [draft EXCEPT ![r] = Fresh(FALSE)]

\* Refused by a rule, by a validation, or by a read that failed or found nothing.
TurnAway(r) ==
  /\ pc[r] = "asked"
  /\ Close(r)
  /\ UNCHANGED <<data, records>>

\* What a use case hands to the gate.
Intend(r, v, t, d) ==
  /\ pc[r] = "asked"
  /\ pc' = [pc EXCEPT ![r] = "record"]
  /\ verb' = [verb EXCEPT ![r] = v]
  /\ target' = [target EXCEPT ![r] = t]
  /\ draft' = [draft EXCEPT ![r] = d]
  /\ UNCHANGED <<data, actor, grade, records>>

-----------------------------------------------------------------------------
(* What an operator decides: internal/core/domain/source/entity.go.        *)

LetOut(x) ==
  [x EXCEPT !.approved = TRUE, !.reviewed = TRUE, !.note = FALSE, !.on = TRUE]

Approve(r, s) == row[s].address /\ Intend(r, "approve", s, LetOut(row[s]))

Refuse(r, s) ==
  /\ ~row[s].approved
  /\ Intend(r, "refuse", s, [row[s] EXCEPT !.reviewed = TRUE, !.note = TRUE, !.on = FALSE])

SuspendAnybody(r, s) ==   \* mutant: also a source nobody approved
  Intend(r, "suspend", s, [row[s] EXCEPT !.reviewed = TRUE, !.on = FALSE])

Suspend(r, s) ==
  /\ row[s].approved
  /\ Intend(r, "suspend", s, [row[s] EXCEPT !.reviewed = TRUE, !.on = FALSE])

Restore(r, s) ==
  /\ row[s].reviewed /\ row[s].address
  /\ Intend(r, "restore", s, LetOut(row[s]))

\* forDecision: an operator, and a source that exists.
Decide(r, s) ==
  /\ IsOperator(grade[r])
  /\ s \in made
  /\ Approve(r, s) \/ Refuse(r, s) \/ Suspend(r, s) \/ Restore(r, s)

-----------------------------------------------------------------------------
(* What a customer does.                                                   *)

Mine(p) == {s \in made : Owner[s] = p}

BelowLimitOffByOne(p) == Cardinality(Mine(p)) <= MaxSources   \* mutant

\* len(mine) >= MaxSourcesPerUser refuses.
BelowLimit(p) == Cardinality(Mine(p)) < MaxSources

\* Sources.Register.  The id is new.
Register(r, s, a) ==
  /\ Owner[s] = actor[r]
  /\ BelowLimit(actor[r])
  /\ s \notin made
  /\ \A q \in Requests : target[q] # s
  /\ Intend(r, "create", s, Fresh(a))

\* Sources.Update, with an address set or the last one removed.
Update(r, s, a) ==
  /\ s \in Mine(actor[r])
  /\ Intend(r, "update", s, [row[s] EXCEPT !.address = a])

\* Mint: random, so the hash of no other.
Minted(k) == keyOf[k] = Nothing /\ \A q \in Requests : target[q] # k

\* Keys.Issue, for a source of the actor's.
Issue(r, s, k) ==
  /\ s \in Mine(actor[r])
  /\ Minted(k)
  /\ Intend(r, "issue", k, [source |-> s])

\* ListBySourceID: also the revoked ones.
KeysOf(s) == {k \in ApiKeys : keyOf[k] = s}

HoldsAny(s, k) == s \in made /\ keyOf[k] # Nothing   \* mutant: the caller's word is taken

\* holds: the key named in the form is one of the source named in it.
Holds(s, k) == k \in KeysOf(s)

RevokeKey(r, s, k) ==
  /\ s \in Mine(actor[r])
  /\ Holds(s, k)
  /\ Intend(r, "revoke", k, [source |-> s])

-----------------------------------------------------------------------------
(* What a super_admin decides about people.                                *)

\* mayGovernPeople, and nobody does it to their own account.
Govern(r, p) ==
  /\ grade[r] = "super_admin"
  /\ p # actor[r]

SetRole(r, p, ro) ==
  /\ Govern(r, p)
  /\ Intend(r, "role", p, [role |-> ro, enabled |-> enabled[p]])

SetPersonActive(r, p, on) ==
  /\ Govern(r, p)
  /\ Intend(r, "active", p, [role |-> role[p], enabled |-> on])

-----------------------------------------------------------------------------
(* The gate.                                                               *)

Record(r) ==
  /\ pc[r] = "record"
  /\ pc' = [pc EXCEPT ![r] = "write"]
  /\ audit' = audit \cup {r}
  /\ UNCHANGED <<data, actor, grade, verb, target, draft, done, told>>

\* No record, no change.
RecordFails(r) ==
  /\ pc[r] = "record"
  /\ Close(r)
  /\ UNCHANGED <<data, records>>

CreateSource(s, d) ==
  /\ made' = made \cup {s}
  /\ row' = [row EXCEPT ![s] = d]
  /\ UNCHANGED <<role, enabled, keys, calling>>

\* The columns a customer owns, and no others.
UpdateSettings(s, d) ==
  /\ row' = [row EXCEPT ![s].address = d.address]
  /\ UNCHANGED <<made, role, enabled, keys, calling>>

\* The columns an operator owns, and no others.
UpdateReview(s, d) ==
  /\ row' = [row EXCEPT ![s] = [d EXCEPT !.address = row[s].address]]
  /\ UNCHANGED <<made, role, enabled, keys, calling>>

UpdateRole(p, d) ==
  /\ role' = [role EXCEPT ![p] = d.role]
  /\ UNCHANGED <<made, row, enabled, keys, calling>>

SetActive(p, d) ==
  /\ enabled' = [enabled EXCEPT ![p] = d.enabled]
  /\ UNCHANGED <<made, row, role, keys, calling>>

CreateAPIKey(k, d) ==
  /\ keyOf' = [keyOf EXCEPT ![k] = d.source]
  /\ UNCHANGED <<made, row, role, enabled, revoked, used, calling>>

\* WHERE revoked_at IS NULL: a second revocation finds no row and fails.
RevokeAPIKey(k) ==
  /\ k \notin revoked
  /\ revoked' = revoked \cup {k}
  /\ UNCHANGED <<made, row, role, enabled, keyOf, used, calling>>

\* The statement of a request.
Change(r) ==
  \/ verb[r] = "create" /\ CreateSource(target[r], draft[r])
  \/ verb[r] = "update" /\ UpdateSettings(target[r], draft[r])
  \/ verb[r] \in Decisions /\ UpdateReview(target[r], draft[r])
  \/ verb[r] = "role" /\ UpdateRole(target[r], draft[r])
  \/ verb[r] = "active" /\ SetActive(target[r], draft[r])
  \/ verb[r] = "issue" /\ CreateAPIKey(target[r], draft[r])
  \/ verb[r] = "revoke" /\ RevokeAPIKey(target[r])

Write(r) ==
  /\ pc[r] = "write"
  /\ Change(r)
  /\ pc' = [pc EXCEPT ![r] = "tell"]
  /\ done' = done \cup {r}
  /\ UNCHANGED <<actor, grade, verb, target, draft, audit, told>>

\* The statement failed, or its answer was lost: the attempt stays recorded.
WriteFails(r) ==
  /\ pc[r] = "write"
  /\ \/ Change(r) /\ done' = done \cup {r}
     \/ UNCHANGED <<data, done>>
  /\ Close(r)
  /\ UNCHANGED <<audit, told>>

Tell(r) ==
  /\ pc[r] = "tell"
  /\ told' = told \cup {r}
  /\ Close(r)
  /\ UNCHANGED <<data, audit, done>>

-----------------------------------------------------------------------------
(* The gateway, asked by somebody with a key.                              *)

\* One statement: the key by its hash, not revoked, with its source.
LiveKey(k) == keyOf[k] # Nothing /\ k \notin revoked

\* A live key of a source that may send is let in.
Authenticate(k) ==
  /\ LiveKey(k)
  /\ row[keyOf[k]].on
  /\ calling' = calling \cup {k}
  /\ UNCHANGED <<made, row, role, enabled, keys, requests, records>>

\* TouchAPIKey, by id and whatever has become of the key since: a second call, which
\* writes at most once in a while, and whose failure refuses nobody.  The same key may
\* be in use by another call.
RecordUse(k) ==
  /\ k \in calling
  /\ used' \in {used, used \cup {k}}
  /\ calling' \in {calling, calling \ {k}}
  /\ UNCHANGED <<made, row, role, enabled, keyOf, revoked, requests, records>>

-----------------------------------------------------------------------------
(* The forms.                                                              *)

RegisterForm(r) == \E s \in Sources, a \in BOOLEAN : Register(r, s, a)
UpdateForm(r)   == \E s \in Sources, a \in BOOLEAN : Update(r, s, a)
IssueForm(r)    == \E s \in Sources, k \in ApiKeys : Issue(r, s, k)
RevokeForm(r)   == \E s \in Sources, k \in ApiKeys : RevokeKey(r, s, k)
DecideForm(r)   == \E s \in Sources : Decide(r, s)
RoleForm(r)     == \E p \in People, ro \in Roles : SetRole(r, p, ro)
ActiveForm(r)   == \E p \in People, on \in BOOLEAN : SetPersonActive(r, p, on)

Portal(r) == RegisterForm(r) \/ UpdateForm(r) \/ IssueForm(r) \/ RevokeForm(r)
Admin(r)  == DecideForm(r) \/ RoleForm(r) \/ ActiveForm(r)

Gate(r) == Record(r) \/ RecordFails(r) \/ Write(r) \/ WriteFails(r) \/ Tell(r)

Next ==
  \/ \E r \in Requests : \/ \E p \in People : Arrive(r, p)
                         \/ TurnAway(r) \/ Portal(r) \/ Admin(r) \/ Gate(r)
  \/ \E k \in ApiKeys : Authenticate(k) \/ RecordUse(k)

Spec == Init /\ [][Next]_vars

-----------------------------------------------------------------------------
(* Properties.                                                             *)

\* The columns of a row that the operators decide about.
Bare(x) == [on |-> x.on, approved |-> x.approved, reviewed |-> x.reviewed, note |-> x.note]

Queued    == Bare(Fresh(FALSE))
Approved  == Bare(LetOut(Fresh(FALSE)))
Suspended == Bare([LetOut(Fresh(FALSE)) EXCEPT !.on = FALSE])
Refused   == Bare([Fresh(FALSE) EXCEPT !.reviewed = TRUE, !.note = TRUE])

Decided(s) == Bare(row[s])

DatabaseTypeOK ==
  /\ made \subseteq Sources
  /\ row \in [Sources -> Row]
  /\ role \in [People -> Roles]
  /\ enabled \in [People -> BOOLEAN]

KeysTypeOK ==
  /\ keyOf \in [ApiKeys -> made \cup {Nothing}]
  /\ revoked \cup used \cup calling \subseteq {k \in ApiKeys : keyOf[k] # Nothing}

ReviewTypeOK == \A s \in Sources : Decided(s) \in {Queued, Approved, Suspended, Refused}

RecordsTypeOK == audit \subseteq Requests /\ done \subseteq audit /\ told \subseteq done

RequestsTypeOK ==
  /\ pc \in [Requests -> {"new", "asked", "record", "write", "tell", "closed"}]
  /\ actor \in [Requests -> People \cup {Nobody}]
  /\ grade \in [Requests -> Roles]
  /\ verb \in [Requests -> Verbs]
  /\ \A r \in Requests :
       /\ pc[r] \notin {"new", "closed"} => actor[r] \in People
       /\ pc[r] \in {"record", "write", "tell"} => verb[r] # "none"

\* What a request is about, by what it asks for.
Subject(v, t, d) ==
  /\ v \in Decisions \cup {"update"} => t \in made /\ d \in Row
  /\ v = "create" => t \in Sources /\ d \in Row
  /\ v \in {"role", "active"} => t \in People /\ d \in Account
  /\ v \in {"issue", "revoke"} => t \in ApiKeys /\ d \in ApiKey

SubjectsTypeOK == \A r \in Requests : Subject(verb[r], target[r], draft[r])

\* Every variable has its type.  That of the review columns is one of the four
\* states the pages know (inState): however decisions race, there is no refusal
\* without a reason, no active source that was never approved, and no "fifth state
\* the table has no meaning for" (postgres/source.go).
TypeOK ==
  /\ DatabaseTypeOK /\ KeysTypeOK /\ ReviewTypeOK
  /\ RecordsTypeOK /\ RequestsTypeOK /\ SubjectsTypeOK

\* The request whose statement this step is, about t, recorded before it.
By(r, t, verbs) ==
  /\ pc[r] = "write" /\ pc'[r] # "write"
  /\ verb[r] \in verbs /\ target[r] = t
  /\ r \in audit

\* A super_admin, about somebody else.
Governs(r, p) == grade[r] = "super_admin" /\ actor[r] # p

\* Whether a source may send, people's roles, and who may sign in.
DecisionsByTheEntitled ==
  /\ \A s \in Sources : Decided(s)' # Decided(s) =>
       \E r \in Requests : By(r, s, Decisions) /\ IsOperator(grade[r])
  /\ \A p \in People :
       /\ role'[p] # role[p] => \E r \in Requests : By(r, p, {"role"}) /\ Governs(r, p)
       /\ enabled'[p] # enabled[p] => \E r \in Requests : By(r, p, {"active"}) /\ Governs(r, p)

\* Keys: who issues and revokes them, that none comes back, and that none lets
\* anybody in once it is revoked.
KeysByTheEntitled ==
  \A k \in ApiKeys :
    /\ k \in revoked' \ revoked =>
         \E r \in Requests : By(r, k, {"revoke"}) /\ actor[r] = Owner[keyOf[k]]
    /\ keyOf'[k] # keyOf[k] =>
         \E r \in Requests : By(r, k, {"issue"}) /\ actor[r] = Owner[keyOf'[k]]
    /\ k \in revoked => k \in revoked' /\ (k \in calling' => k \in calling)

\* Everything that decides who may send is changed only by a recorded request of
\* somebody entitled to it, however forms overlap: whether a source may send by an
\* operator's decision, which a customer's edit that read the source before does not
\* undo ("this one cannot touch the switch", source.sql); a role by a request for
\* that role, and not along with switching somebody off (user.sql), and who may sign
\* in by a request for that, both about somebody else; a key by the owner of the source
\* it was issued for, and not by whoever names it (holds).  A revoked key lets nobody
\* in any more.  That it may still be marked as used, by a call let in before, is not
\* excluded (RecordUse).
ChangedOnlyByTheEntitled == [][DecisionsByTheEntitled /\ KeysByTheEntitled]_vars

\* An account holds as many sources as it may, and at most one more for every
\* registration that counted at the same time (Sources.Register counts, then
\* creates).
OwnedWithinLimit ==
  \A p \in People : Cardinality(Mine(p)) <= MaxSources + MaxOpen - 1
=============================================================================
