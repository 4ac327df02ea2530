----------------------------- MODULE Credential -----------------------------
(***************************************************************************)
(* The sending identities sources keep on one channel: registering them,   *)
(* switching them off and on, moving the default, replacing a secret or    *)
(* the settings (internal/core/usecase/credential.go), the choice a sender *)
(* makes among them (credential.Pick, sender.Registry.For), and the trial  *)
(* of one from the console (trial.go).                                     *)
(*                                                                         *)
(* Taking the default over is a transaction of two statements under READ   *)
(* COMMITTED: the first clears the flag wherever its snapshot finds it,    *)
(* waiting for a row another transaction has written, the second sets it.  *)
(* A transaction's last statement and its commit are one step: its row     *)
(* locks keep everything it read as it was.  Rows are never deleted.       *)
(***************************************************************************)
EXTENDS FiniteSets, Naturals

CONSTANTS
  Ids,       \* credential ids that may be made
  Sources,   \* who registers identities and has messages sent
  Names,     \* names a source gives them
  NoName,    \* no name: a message that names no identity
  Callers,   \* API requests under way
  Senders,   \* messages being sent
  None,      \* no credential
  Ours,      \* the service's own identity
  MaxChanges \* bound: times the material of a row is replaced

ASSUME CredentialAssumption ==
  /\ NoName \notin Names
  /\ None \notin Ids /\ Ours \notin Ids /\ None # Ours
  /\ MaxChanges \in Nat

VARIABLES
  \* the table
  registered, name,   \* rows, and what the source calls them
  owner,              \* the source of a row
  material,           \* how often its settings or its secret have been replaced
  active, default,    \* the rows with is_active, with is_default
  source,             \* of a request or message: whose it is
  \* a request
  pc, op, job,        \* next step, what it is, on which row
  asking,             \* register: the name
  wasActive,          \* set default: is_active when the row was read
  target,             \* the default its snapshot shows
  cleared,            \* rows written by its open transaction, so locked
  \* a message being sent
  at, wanted, chosen, \* next step, the name it asks for, and the identity picked
  began,              \* something was registered when it began
  trial,              \* the identity it is a trial of, or None
  stood, opened,      \* the material that stood when it began, and that it read
  sentAs              \* the identity it went out as

table    == <<registered, name, owner, material, active, default>>
requests == <<pc, op, job, asking, wasActive, target, cleared>>
sends    == <<at, wanted, chosen, began, trial, stood, opened, sentAs>>
vars     == <<source, table, requests, sends>>

Init ==
  /\ registered = {} /\ active = {} /\ default = {}
  /\ name = [i \in Ids |-> NoName] /\ owner = [i \in Ids |-> None]
  /\ material = [i \in Ids |-> 0]
  /\ source \in [Callers \cup Senders -> Sources]
  /\ pc = [c \in Callers |-> "idle"] /\ op = [c \in Callers |-> "create"]
  /\ job = [c \in Callers |-> None] /\ asking = [c \in Callers |-> NoName]
  /\ wasActive = [c \in Callers |-> FALSE]
  /\ target = [c \in Callers |-> None] /\ cleared = [c \in Callers |-> {}]
  /\ at = [s \in Senders |-> "idle"] /\ wanted = [s \in Senders |-> NoName]
  /\ chosen = [s \in Senders |-> None] /\ began = [s \in Senders |-> FALSE]
  /\ trial = [s \in Senders |-> None] /\ sentAs = [s \in Senders |-> None]
  /\ stood = [i \in Senders |-> [j \in Ids |-> 0]] /\ opened = [s \in Senders |-> 0]

-----------------------------------------------------------------------------
(* Requests.                                                               *)

\* ListBySourceAndChannel, ReadByID: the rows of one source, and of no other.
RowsOf(c) == {i \in registered : owner[i] = source[c]}

Locked(c, i) == \E d \in Callers \ {c} : i \in cleared[d]

Unlocked(i) == \A d \in Callers : i \notin cleared[d]

\* The request is over: its transaction is committed or rolled back.
End(c) ==
  /\ pc' = [pc EXCEPT ![c] = "idle"]
  /\ job' = [job EXCEPT ![c] = None]
  /\ op' = [op EXCEPT ![c] = "create"]
  /\ asking' = [asking EXCEPT ![c] = NoName]
  /\ wasActive' = [wasActive EXCEPT ![c] = FALSE]
  /\ target' = [target EXCEPT ![c] = None]
  /\ cleared' = [cleared EXCEPT ![c] = {}]

AnyName(n) == TRUE   \* mutant

\* validateName refuses the empty name; the format of others is left out.
validateName(n) == n # NoName

\* Register, up to its transaction.  An id is made once.
Register(c, i, n, isDefault) ==
  /\ pc[c] = "idle"
  /\ validateName(n)
  /\ i \notin registered /\ \A d \in Callers : job[d] # i
  /\ job' = [job EXCEPT ![c] = i]
  /\ asking' = [asking EXCEPT ![c] = n]
  /\ op' = [op EXCEPT ![c] = IF isDefault THEN "createDefault" ELSE "create"]
  /\ pc' = [pc EXCEPT ![c] = IF isDefault THEN "clear" ELSE "write"]
  /\ UNCHANGED <<source, table, wasActive, target, cleared, sends>>

\* SetDefault, up to its transaction: the row is read first.
SetDefault(c, i) ==
  /\ pc[c] = "idle" /\ i \in RowsOf(c)
  /\ job' = [job EXCEPT ![c] = i]
  /\ op' = [op EXCEPT ![c] = "set"]
  /\ wasActive' = [wasActive EXCEPT ![c] = i \in active]
  /\ pc' = [pc EXCEPT ![c] = "clear"]
  /\ UNCHANGED <<source, table, asking, target, cleared, sends>>

\* ClearDefaultCredential looks for the default as of now ...
ClearDefault(c) ==
  /\ pc[c] = "clear"
  /\ \/ /\ default \cap RowsOf(c) = {}
        /\ pc' = [pc EXCEPT ![c] = "write"] /\ UNCHANGED target
     \/ \E i \in default \cap RowsOf(c) :
                           /\ target' = [target EXCEPT ![c] = i]
                           /\ pc' = [pc EXCEPT ![c] = "lock"]
  /\ UNCHANGED <<source, table, op, job, asking, wasActive, cleared, sends>>

\* ... and writes it once no other transaction holds it, if it still is one.
LockDefault(c) ==
  /\ pc[c] = "lock"
  /\ ~Locked(c, target[c])
  /\ cleared' = [cleared EXCEPT ![c] = {target[c]} \cap default]
  /\ target' = [target EXCEPT ![c] = None]
  /\ pc' = [pc EXCEPT ![c] = "write"]
  /\ UNCHANGED <<source, table, op, job, asking, wasActive, sends>>

\* credentials_one_default_per_channel
OtherDefault(c) == (default \cap RowsOf(c)) \ (cleared[c] \cup {job[c]}) # {}

\* credentials_source_channel_name_key
NameTaken(c) == \E i \in RowsOf(c) : name[i] = asking[c]

\* CreateCredential, and the commit.
Create(c) ==
  /\ pc[c] = "write" /\ op[c] # "set"
  /\ ~NameTaken(c)
  /\ op[c] = "createDefault" => ~OtherDefault(c)
  /\ registered' = registered \cup {job[c]}
  /\ name' = [name EXCEPT ![job[c]] = asking[c]]
  /\ owner' = [owner EXCEPT ![job[c]] = source[c]]
  /\ active' = active \cup {job[c]}
  /\ default' = IF op[c] = "createDefault"
                  THEN (default \ cleared[c]) \cup {job[c]} ELSE default
  /\ End(c)
  /\ UNCHANGED <<source, material, sends>>

\* The entity refuses a row that was off when it was read, the statement one that
\* has been switched off since.
MakeDefault(c) == wasActive[c] /\ job[c] \in active

\* SetCredentialDefault, and the commit.
TakeOver(c) ==
  /\ pc[c] = "write" /\ op[c] = "set"
  /\ ~Locked(c, job[c])
  /\ MakeDefault(c)
  /\ ~OtherDefault(c)
  /\ default' = (default \ cleared[c]) \cup {job[c]}
  /\ End(c)
  /\ UNCHANGED <<source, registered, name, owner, material, active, sends>>

CommitTheClear(c) ==   \* mutant: the first half of the move is kept
  /\ default' = default \ cleared[c]
  /\ End(c)
  /\ UNCHANGED <<source, registered, name, owner, material, active, sends>>

Rollback(c) == End(c) /\ UNCHANGED <<source, table, sends>>

\* A unique index or an inactive row refuses the second statement.
Refused(c) ==
  /\ pc[c] = "write"
  /\ op[c] = "set" => ~Locked(c, job[c])
  /\ IF op[c] = "set" THEN ~MakeDefault(c) \/ OtherDefault(c)
                      ELSE NameTaken(c) \/ (op[c] = "createDefault" /\ OtherDefault(c))
  /\ Rollback(c)

\* The database does not answer, or the caller is gone.
Fails(c) == pc[c] # "idle" /\ Rollback(c)

\* Credentials.get: the identity the request names is the source's own, and nobody
\* else's can be found.
Get(c, i) == i \in RowsOf(c)

\* Switching off takes the default flag too, in one statement.
Deactivate(c, i) ==
  /\ pc[c] = "idle" /\ Get(c, i) /\ Unlocked(i)
  /\ i \in active
  /\ active' = active \ {i}
  /\ default' = default \ {i}
  /\ UNCHANGED <<source, registered, name, owner, material, requests, sends>>

\* Switching on does not give it back.
Activate(c, i) ==
  /\ pc[c] = "idle" /\ Get(c, i) /\ Unlocked(i)
  /\ i \notin active
  /\ active' = active \cup {i}
  /\ UNCHANGED <<source, registered, name, owner, material, default, requests, sends>>

\* A statement that writes the settings or the secret, and no other column.
Replace(i) ==
  /\ material[i] < MaxChanges
  /\ material' = [material EXCEPT ![i] = @ + 1]
  /\ UNCHANGED <<source, registered, name, owner, active, default, requests, sends>>

\* A new secret, for an identity that is switched on.
Rotate(c, i) ==
  /\ pc[c] = "idle" /\ Get(c, i) /\ Unlocked(i)
  /\ i \in active
  /\ Replace(i)

\* New settings, also for one that is switched off.
Update(c, i) ==
  /\ pc[c] = "idle" /\ Get(c, i) /\ Unlocked(i)
  /\ Replace(i)

-----------------------------------------------------------------------------
(* Sending: Registry.For.                                                  *)

\* The identity named, or the default; None is an error.
Pick(s, n) ==
  LET usable == IF n = NoName THEN default \cap active \cap RowsOf(s)
                ELSE {i \in RowsOf(s) : name[i] = n} \cap active
  IN  IF usable = {} THEN None ELSE CHOOSE i \in usable : TRUE

StandsInForNone(s, n) == n = NoName /\ Pick(s, n) = None   \* mutant: ErrNoDefault too

\* Only a source that registered nothing is sent for as us.
StandsIn(s, n) == n = NoName /\ RowsOf(s) = {}

Finish(s, who) ==
  /\ sentAs' = [sentAs EXCEPT ![s] = who]
  /\ at' = [at EXCEPT ![s] = "done"]

\* A message is to be sent, under a name or under none.
Begin(s, n, i) ==
  /\ at[s] \in {"idle", "done"}
  /\ wanted' = [wanted EXCEPT ![s] = n]
  /\ trial' = [trial EXCEPT ![s] = i]
  /\ began' = [began EXCEPT ![s] = RowsOf(s) # {}]
  /\ stood' = [stood EXCEPT ![s] = material]
  /\ sentAs' = [sentAs EXCEPT ![s] = None]
  /\ chosen' = [chosen EXCEPT ![s] = None]
  /\ opened' = [opened EXCEPT ![s] = 0]
  /\ at' = [at EXCEPT ![s] = "resolve"]
  /\ UNCHANGED <<source, table, requests>>

For(s, n) == Begin(s, n, None)

\* Trials.Run: an identity of the source is read by its id, and then sent with by
\* its name, as a message would be.
Trial(s, i) == Get(s, i) /\ Begin(s, name[i], i)

\* Resolve lists the channel's identities and picks one.
Resolve(s) ==
  LET n == wanted[s] IN
  /\ at[s] = "resolve"
  /\ chosen' = [chosen EXCEPT ![s] = Pick(s, n)]
  /\ at' = [at EXCEPT ![s] = IF StandsIn(s, n) THEN "ours"
                             ELSE IF Pick(s, n) = None THEN "done" ELSE "open"]
  /\ UNCHANGED <<source, table, requests, wanted, began, trial, stood, opened, sentAs>>

\* The service's own identity, if this deployment has one for the channel.
ours(s) ==
  /\ at[s] = "ours"
  /\ \E who \in {Ours, None} : Finish(s, who)
  /\ UNCHANGED <<source, table, requests, wanted, chosen, began, trial, stood, opened>>

\* ReadCredentialSecret asks for an active row again, and reads its settings and its
\* secret together.
Material(s) ==
  /\ at[s] = "open"
  /\ \/ /\ chosen[s] \in active
        /\ at' = [at EXCEPT ![s] = "build"]
        /\ opened' = [opened EXCEPT ![s] = material[chosen[s]]]
        /\ UNCHANGED sentAs
     \/ chosen[s] \notin active /\ Finish(s, None) /\ UNCHANGED opened
  /\ UNCHANGED <<source, table, requests, wanted, chosen, began, trial, stood>>

\* The provider's client takes these settings and this secret, or refuses them.
build(s) ==
  /\ at[s] = "build"
  /\ \E who \in {chosen[s], None} : Finish(s, who)
  /\ UNCHANGED <<source, table, requests, wanted, chosen, began, trial, stood, opened>>

-----------------------------------------------------------------------------
Next ==
  \/ \E c \in Callers, i \in Ids, n \in Names \cup {NoName}, d \in BOOLEAN : Register(c, i, n, d)
  \/ \E c \in Callers, i \in Ids : SetDefault(c, i)
  \/ \E c \in Callers : ClearDefault(c)
  \/ \E c \in Callers : LockDefault(c)
  \/ \E c \in Callers : Create(c)
  \/ \E c \in Callers : TakeOver(c)
  \/ \E c \in Callers : Refused(c)
  \/ \E c \in Callers : Fails(c)
  \/ \E c \in Callers, i \in Ids : Deactivate(c, i)
  \/ \E c \in Callers, i \in Ids : Activate(c, i)
  \/ \E c \in Callers, i \in Ids : Rotate(c, i)
  \/ \E c \in Callers, i \in Ids : Update(c, i)
  \/ \E s \in Senders, n \in Names \cup {NoName} : For(s, n)
  \/ \E s \in Senders, i \in Ids : Trial(s, i)
  \/ \E s \in Senders : Resolve(s)
  \/ \E s \in Senders : ours(s)
  \/ \E s \in Senders : Material(s)
  \/ \E s \in Senders : build(s)

Spec == Init /\ [][Next]_vars

-----------------------------------------------------------------------------
TableTypeOK ==
  /\ registered \in SUBSET Ids /\ active \in SUBSET registered
  /\ default \in SUBSET registered
  /\ name \in [Ids -> Names \cup {NoName}] /\ \A i \in registered : name[i] \in Names
  /\ owner \in [Ids -> Sources \cup {None}] /\ \A i \in registered : owner[i] \in Sources
  /\ material \in [Ids -> 0..MaxChanges]
  /\ source \in [Callers \cup Senders -> Sources]

RequestsTypeOK ==
  /\ pc \in [Callers -> {"idle", "clear", "lock", "write"}]
  /\ op \in [Callers -> {"create", "createDefault", "set"}]
  /\ job \in [Callers -> Ids \cup {None}]
  /\ asking \in [Callers -> Names \cup {NoName}]
  /\ wasActive \in [Callers -> BOOLEAN]
  /\ target \in [Callers -> Ids \cup {None}]
  /\ cleared \in [Callers -> SUBSET Ids]

SendsTypeOK ==
  /\ at \in [Senders -> {"idle", "resolve", "ours", "open", "build", "done"}]
  /\ wanted \in [Senders -> Names \cup {NoName}]
  /\ chosen \in [Senders -> Ids \cup {None}]
  /\ began \in [Senders -> BOOLEAN] /\ trial \in [Senders -> Ids \cup {None}]
  /\ stood \in [Senders -> [Ids -> 0..MaxChanges]] /\ opened \in [Senders -> 0..MaxChanges]
  /\ sentAs \in [Senders -> Ids \cup {None, Ours}]

\* Types of the table, the requests and the messages.
TypeOK == TableTypeOK /\ RequestsTypeOK /\ SendsTypeOK

\* Of one source o, in one step.
DefaultOf(o) ==
  LET now  == {i \in default : owner[i] = o}
      then == {i \in default' : owner'[i] = o}
  IN  /\ then \subseteq active' /\ Cardinality(then) <= 1
      /\ now # {} /\ then = {} => now \cap active' = {}

\* "A default that is switched off is the one state a channel must never be left in"
\* (SetCredentialDefault), nor one with two defaults (the unique index); and a
\* source loses its default only by switching it off: no move of its own that is
\* refused, overtaken or fails half way leaves it without, and nobody else's move
\* does either (Register, SetDefault).
DefaultStands == [][\A o \in Sources : DefaultOf(o)]_vars

\* A message goes out as us only if its source had registered nothing when it was
\* sent; one that names an identity goes out as that one or not at all; a trial as
\* the identity tried; always as one of the source's own; and, once a secret or
\* settings were replaced, no message begun since goes out with the old ones (For,
\* Material, Run).
NeverStandsIn ==
  \A s \in Senders :
    /\ sentAs[s] = Ours => ~began[s] /\ wanted[s] = NoName
    /\ sentAs[s] \in Ids =>
         /\ owner[sentAs[s]] = source[s]
         /\ wanted[s] # NoName => name[sentAs[s]] = wanted[s]
         /\ trial[s] \in {None, sentAs[s]}
         /\ opened[s] >= stood[s][sentAs[s]]
=============================================================================
