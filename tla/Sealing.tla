------------------------------- MODULE Sealing -------------------------------
(***************************************************************************)
(* Stored secrets and the keys that seal them: the keyring (pkg/crypto),   *)
(* the two keepers (internal/adapter/secret) and the key change that       *)
(* docs/CONFIG.md describes: add a key, point the id at it, let values     *)
(* reseal themselves as they are read, drop the old key when no value      *)
(* names it.  Every binary reads its keys once, when it starts.            *)
(*                                                                         *)
(* A sealed value is what can be recovered from it, the plaintext and the  *)
(* key it names.  The nonce is left out: two seals of one plaintext under  *)
(* one key count as equal, so a reseal may succeed here where the column   *)
(* no longer matches byte for byte; it then rewrites the same secret.      *)
(***************************************************************************)
EXTENDS Integers

CONSTANTS
  Credentials,  \* sending identities with a secret column
  Webhooks,     \* callbacks with a signing secret
  Processes,    \* running binaries
  Tasks,        \* requests and sends under way
  Host,         \* the process a task runs in
  Secrets,      \* plaintexts
  NoSecret,     \* the empty secret, stored as nothing
  LastKey       \* bound: keys are numbered 1 .. LastKey

ASSUME SealingAssumption ==
  /\ Credentials \cap Webhooks = {}
  /\ Credentials \cup Webhooks # {}
  /\ Host \in [Tasks -> Processes]
  /\ NoSecret \notin Secrets
  /\ LastKey \in Nat \ {0}

VARIABLES
  settings,   \* CRYPTO_KEYS and CRYPTO_KEY_ID as the operator left them
  ring,       \* the keyring each process started with
  sealed,     \* the secret column
  latest,     \* what the source last stored there
  pc, value, held   \* a task: next step, whose secret, and a sealed value in hand

tasks == <<pc, value, held>>
sealingVars == <<settings, ring, sealed, latest, tasks>>

Keys    == 1 .. LastKey
Values  == Credentials \cup Webhooks
Empty   == [plain |-> NoSecret, key |-> 0]
Sealed  == [plain : Secrets, key : Keys] \cup {Empty}
Rings   == [keys : SUBSET Keys, active : Keys]

SealingInit ==
  /\ settings = [keys |-> {1}, active |-> 1]
  /\ ring = [p \in Processes |-> settings]
  /\ sealed = [v \in Values |-> Empty]
  /\ latest = [v \in Values |-> NoSecret]
  /\ pc = [t \in Tasks |-> "idle"]
  /\ value = [t \in Tasks |-> CHOOSE v \in Values : TRUE]
  /\ held = [t \in Tasks |-> Empty]

-----------------------------------------------------------------------------
(* The operator.  Each edit waits until every process runs with the last.  *)

OnlyTheActiveKey(s) == [s EXCEPT !.keys = {s.active}]   \* mutant

\* Every configured key opens, one of them seals.
NewKeyring(s) == s

RolledOut == \A p \in Processes : ring[p] = NewKeyring(settings)

AddKey(k) ==
  /\ RolledOut
  /\ k > settings.active /\ k \notin settings.keys
  /\ settings' = [settings EXCEPT !.keys = @ \cup {k}]
  /\ UNCHANGED <<ring, sealed, latest, tasks>>

PointAt(k) ==
  /\ RolledOut
  /\ k > settings.active /\ k \in settings.keys
  /\ settings' = [settings EXCEPT !.active = k]
  /\ UNCHANGED <<ring, sealed, latest, tasks>>

DropKey(k) ==
  /\ RolledOut
  /\ k \in settings.keys /\ k < settings.active
  /\ \A v \in Values : sealed[v].key # k
  /\ settings' = [settings EXCEPT !.keys = @ \ {k}]
  /\ UNCHANGED <<ring, sealed, latest, tasks>>

\* A process comes up with the settings of the day, if they name a key to seal
\* with; what it was doing is lost.
Restart(p) ==
  /\ ring[p] # NewKeyring(settings)
  /\ settings.active \in settings.keys
  /\ ring' = [ring EXCEPT ![p] = NewKeyring(settings)]
  /\ pc' = [t \in Tasks |-> IF Host[t] = p THEN "idle" ELSE pc[t]]
  /\ held' = [t \in Tasks |-> IF Host[t] = p THEN Empty ELSE held[t]]
  /\ UNCHANGED <<settings, sealed, latest, value>>

-----------------------------------------------------------------------------
(* Storing a secret: Register, Rotate, and the callback's Issue.           *)

Ring(t) == ring[Host[t]]

SealsEmpty(t, s) == [plain |-> s, key |-> Ring(t).active]   \* mutant

\* No secret is stored as nothing, never as the seal of an empty string.
Seal(t, s) ==
  IF s = NoSecret THEN Empty ELSE [plain |-> s, key |-> Ring(t).active]

Return(t) ==
  /\ pc' = [pc EXCEPT ![t] = "idle"]
  /\ held' = [held EXCEPT ![t] = Empty]
  /\ UNCHANGED value

Store(t, v, s) ==
  /\ pc[t] = "idle"
  /\ pc' = [pc EXCEPT ![t] = "store"]
  /\ value' = [value EXCEPT ![t] = v]
  /\ held' = [held EXCEPT ![t] = Seal(t, s)]
  /\ UNCHANGED <<settings, ring, sealed, latest>>

\* Keeper.Add and Keeper.Replace: the source's secret, or none.
Replace(t, v, s) == v \in Credentials /\ Store(t, v, s)

\* WebhookKeeper.Issue: a signing secret made here, so never empty.
Issue(t, v, s) == v \in Webhooks /\ s # NoSecret /\ Store(t, v, s)

\* RotateCredentialSecret and its siblings do not match on the old value.
Write(t) ==
  /\ pc[t] = "store"
  /\ sealed' = [sealed EXCEPT ![value[t]] = held[t]]
  /\ latest' = [latest EXCEPT ![value[t]] = held[t].plain]
  /\ Return(t)
  /\ UNCHANGED <<settings, ring>>

WriteFails(t) ==
  /\ pc[t] = "store"
  /\ Return(t)
  /\ UNCHANGED <<settings, ring, sealed, latest>>

-----------------------------------------------------------------------------
(* Opening one to send or to sign: Material and SecretFor.                 *)

\* A value opens with the key it names, if this process has it.
Opens(t, v) == sealed[v].key \in Ring(t).keys

NeverReseals(t, v) == FALSE   \* mutant

NeedsReseal(t, v) == sealed[v].key # Ring(t).active

\* Keeper.Material: a sending identity's secret is opened, and goes on to be
\* resealed when its key is not this process's active one.
Material(t, v) ==
  /\ pc[t] = "idle"
  /\ v \in Credentials
  /\ Opens(t, v) /\ NeedsReseal(t, v)
  /\ pc' = [pc EXCEPT ![t] = "reseal"]
  /\ value' = [value EXCEPT ![t] = v]
  /\ held' = [held EXCEPT ![t] = sealed[v]]
  /\ UNCHANGED <<settings, ring, sealed, latest>>

\* An empty column, a value that does not open and one under the active key
\* leave nothing to do.
MaterialAsItIs(t, v) ==
  /\ pc[t] = "idle"
  /\ v \in Credentials
  /\ ~(Opens(t, v) /\ NeedsReseal(t, v))
  /\ UNCHANGED sealingVars

\* WebhookKeeper.SecretFor opens and never reseals.
SecretFor(t, v) ==
  /\ pc[t] = "idle"
  /\ v \in Webhooks
  /\ Opens(t, v)
  /\ UNCHANGED sealingVars

ResealAnyway(t) ==   \* mutant: WHERE id = @id, without the previous value
  /\ pc[t] = "reseal"
  /\ sealed' = [sealed EXCEPT ![value[t]] = Seal(t, held[t].plain)]
  /\ Return(t)
  /\ UNCHANGED <<settings, ring, latest>>

\* WHERE secret = @previous: a reseal that lost a race writes nothing.
Reseal(t) ==
  /\ pc[t] = "reseal"
  /\ IF sealed[value[t]] = held[t]
       THEN sealed' = [sealed EXCEPT ![value[t]] = Seal(t, held[t].plain)]
       ELSE UNCHANGED sealed
  /\ Return(t)
  /\ UNCHANGED <<settings, ring, latest>>

\* Best effort: the secret is open and the message goes out all the same.
ResealFails(t) ==
  /\ pc[t] = "reseal"
  /\ Return(t)
  /\ UNCHANGED <<settings, ring, sealed, latest>>

-----------------------------------------------------------------------------
SealingNext ==
  \/ \E k \in Keys : AddKey(k)
  \/ \E k \in Keys : PointAt(k)
  \/ \E k \in Keys : DropKey(k)
  \/ \E p \in Processes : Restart(p)
  \/ \E t \in Tasks, v \in Values, s \in Secrets \cup {NoSecret} : Replace(t, v, s)
  \/ \E t \in Tasks, v \in Values, s \in Secrets \cup {NoSecret} : Issue(t, v, s)
  \/ \E t \in Tasks : Write(t)
  \/ \E t \in Tasks : WriteFails(t)
  \/ \E t \in Tasks, v \in Values : Material(t, v)
  \/ \E t \in Tasks, v \in Values : MaterialAsItIs(t, v)
  \/ \E t \in Tasks, v \in Values : SecretFor(t, v)
  \/ \E t \in Tasks : Reseal(t)
  \/ \E t \in Tasks : ResealFails(t)

SealingSpec == SealingInit /\ [][SealingNext]_sealingVars

\* Messages keep coming for every value, every request ends, a reseal does not
\* fail for ever, and the operator carries the key change through.
SealingFairness ==
  /\ WF_sealingVars(\E k \in Keys : AddKey(k) \/ PointAt(k) \/ DropKey(k))
  /\ \A p \in Processes : WF_sealingVars(Restart(p))
  /\ \A t \in Tasks : WF_sealingVars(Write(t) \/ WriteFails(t))
  /\ \A v \in Values : SF_sealingVars(\E t \in Tasks : Material(t, v))
  /\ SF_sealingVars(\E t \in Tasks : Reseal(t))

FairSealingSpec == SealingSpec /\ SealingFairness

-----------------------------------------------------------------------------
\* Types of the settings, the column and the tasks.
SealingTypeOK ==
  /\ settings \in Rings
  /\ ring \in [Processes -> Rings]
  /\ sealed \in [Values -> Sealed]
  /\ latest \in [Values -> Secrets \cup {NoSecret}]
  /\ pc \in [Tasks -> {"idle", "store", "reseal"}]
  /\ value \in [Tasks -> Values]
  /\ held \in [Tasks -> Sealed]

\* "No step stops the service" (docs/CONFIG.md): through the whole key change,
\* whatever is stored can be opened by every process that is running.
AlwaysOpens ==
  \A v \in Values, p \in Processes :
    sealed[v] = Empty \/ sealed[v].key \in ring[p].keys

\* A reseal never brings a replaced secret back: the column holds what the
\* source stored last (keeper.go, ResealCredentialSecret).
RotationStands == \A v \in Values : sealed[v].plain = latest[v]

\* Sending identities reseal themselves as they are read (Material): once a key is
\* no longer the active one, each of them in the end stops naming it for good.
IdentitiesMoveOn ==
  \A k \in Keys, v \in Credentials : settings.active > k ~> [](sealed[v].key # k)
=============================================================================
