------------------------------ MODULE Callback ------------------------------
(***************************************************************************)
(* A source's callback: one row of webhooks, written from two sides.  The  *)
(* source registers, redirects, switches and rotates it through the API    *)
(* (internal/core/usecase/register.go); the dispatcher calls it and        *)
(* records how that went (announce in dispatch.go, webhook.Service).       *)
(*                                                                         *)
(* A caller is one API request in the gateway, a worker one announcement   *)
(* in a dispatcher.  Each step is one statement or one call of the         *)
(* customer's endpoint.  The row is never deleted.                         *)
(***************************************************************************)
EXTENDS Integers

CONSTANTS
  Callers,      \* API requests under way
  Workers,      \* announcements under way
  Urls,         \* addresses a source may register
  NoUrl,        \* "no callback registered"
  MaxFailures,  \* WEBHOOK_MAX_FAILURES
  MaxCount,     \* bound: failures counted without one success
  MaxSecrets    \* bound: signing secrets made

ASSUME CallbackAssumption ==
  /\ NoUrl \notin Urls
  /\ MaxFailures \in Nat \ {0}
  /\ MaxCount \in Nat
  /\ MaxSecrets \in Nat

VARIABLES
  \* the row
  url, active, failures,
  secret,     \* the sealed signing secret, 0 for none
  \* API requests
  pc, want,   \* next step, and the address asked for
  found,      \* there was a row when Register looked
  \* announcements
  at, seen,   \* next step, and the address read
  signed,     \* the secret its callback is signed with
  \* what the source knows
  asked,      \* the address the last accepted registration asked for
  minted,     \* secrets made so far
  unheard,    \* a failure of the run could not be written down
  \* of an announcement that has not called yet, from its reading of the row on
  stood,      \* the addresses that were the last one asked for
  sealed      \* the secrets that were stored

row     == <<url, active, failures, secret>>
calls   == <<pc, want, found>>
work    == <<at, seen, signed>>
history == <<asked, minted, unheard>>
since   == <<stood, sealed>>
vars    == <<row, calls, work, history, since>>

Exists == url # NoUrl
Addresses == Urls \cup {NoUrl}
Nobody == 0

Init ==
  /\ url = NoUrl /\ active = FALSE /\ failures = 0 /\ secret = Nobody
  /\ pc = [c \in Callers |-> "idle"]
  /\ want = [c \in Callers |-> NoUrl]
  /\ found = [c \in Callers |-> FALSE]
  /\ at = [w \in Workers |-> "idle"]
  /\ seen = [w \in Workers |-> NoUrl] /\ signed = [w \in Workers |-> Nobody]
  /\ asked = NoUrl /\ minted = 0 /\ unheard = FALSE
  /\ stood = [w \in Workers |-> {}] /\ sealed = [w \in Workers |-> {}]

-----------------------------------------------------------------------------
(* The API.                                                                *)

Return(c) ==
  /\ pc' = [pc EXCEPT ![c] = "idle"]
  /\ want' = [want EXCEPT ![c] = NoUrl]
  /\ found' = [found EXCEPT ![c] = FALSE]

\* Registrar.Register: is there a row already?
Register(c, u) ==
  /\ pc[c] = "idle"
  /\ pc' = [pc EXCEPT ![c] = "read"]
  /\ want' = [want EXCEPT ![c] = u]
  /\ found' = [found EXCEPT ![c] = Exists]
  /\ UNCHANGED <<row, work, history, since>>

\* webhook.Service.Register reads again, to create or to redirect.
Read(c) ==
  /\ pc[c] = "read"
  /\ pc' = [pc EXCEPT ![c] = IF Exists THEN "redirect" ELSE "create"]
  /\ UNCHANGED <<row, want, found, work, history, since>>

\* The announcements that have read the row and not called yet.
Calling == {w \in Workers : at[w] \in {"sign", "call"}}

\* The address of c is in the row, switched on; it is the last one asked for.
Stands(c) ==
  /\ url' = want[c] /\ active' = TRUE
  /\ asked' = want[c]
  /\ stood' = [w \in Workers |-> IF w \in Calling THEN stood[w] \cup {want[c]} ELSE stood[w]]

\* What Register does with the row written: the first registration goes on to the
\* secret, a later one is told that the existing secret stands.
Registered(c) ==
  \/ found[c] /\ Return(c)
  \/ /\ ~found[c]
     /\ pc' = [pc EXCEPT ![c] = "issue"]
     /\ UNCHANGED <<want, found>>

\* The unique constraint turns the second of two first registrations away.
Create(c) ==
  /\ pc[c] = "create"
  /\ \/ Exists /\ Return(c) /\ UNCHANGED <<row, asked, stood>>
     \/ ~Exists /\ Stands(c) /\ failures' = 0 /\ Registered(c) /\ UNCHANGED secret
  /\ UNCHANGED <<work, minted, unheard, sealed>>

RedirectKeepsRun(c) ==   \* mutant: the failure run is not cleared
  /\ pc[c] = "redirect"
  /\ Stands(c)
  /\ Registered(c)
  /\ UNCHANGED <<failures, secret, work, minted, unheard, sealed>>

\* A new address is switched on and has failed at nothing.
Redirect(c) ==
  /\ pc[c] = "redirect"
  /\ Stands(c) /\ failures' = 0
  /\ unheard' = FALSE
  /\ Registered(c)
  /\ UNCHANGED <<secret, work, minted, sealed>>

\* RotateSecret, up to Issue.
Rotate(c) ==
  /\ pc[c] = "idle"
  /\ Exists
  /\ pc' = [pc EXCEPT ![c] = "rotate"]
  /\ UNCHANGED <<row, want, found, work, history, since>>

\* WebhookKeeper.Issue: a new secret is sealed onto the row.  Whether the caller
\* is shown it is another matter: the answer may be lost.
Issue(c) ==
  /\ pc[c] \in {"issue", "rotate"}
  /\ minted < MaxSecrets
  /\ minted' = minted + 1
  /\ secret' = minted + 1
  /\ sealed' = [w \in Workers |-> IF w \in Calling THEN sealed[w] \cup {minted + 1} ELSE sealed[w]]
  /\ Return(c)
  /\ UNCHANGED <<url, active, failures, work, asked, unheard, stood>>

\* The statement failed and the caller is told so; what came before it stays.
CallFails(c) ==
  /\ pc[c] # "idle"
  /\ Return(c)
  /\ UNCHANGED <<row, work, history, since>>

\* SetWebhookActive: only a row not already in the state asked for, and switching
\* on clears the run.
SetActive(on) ==
  /\ active' = on
  /\ failures' = IF on /\ ~active THEN 0 ELSE failures
  /\ unheard' = (unheard /\ ~(on /\ ~active))
  /\ UNCHANGED <<url, secret>>

SwitchAnyway(on) ==   \* mutant: no row is needed
  /\ SetActive(on)
  /\ UNCHANGED <<calls, work, asked, minted, since>>

\* Registrar.Activate and Deactivate.  The read before the statement only says that
\* there is a row.
Switch(on) ==
  /\ Exists
  /\ SetActive(on)
  /\ UNCHANGED <<calls, work, asked, minted, since>>

-----------------------------------------------------------------------------
(* The dispatcher.                                                         *)

Goto(w, l) == at' = [at EXCEPT ![w] = l]

\* Nothing more is to be known of what the announcement of w called, or did not.
Called(w) ==
  /\ stood' = [stood EXCEPT ![w] = {}]
  /\ sealed' = [sealed EXCEPT ![w] = {}]

Leave(w) ==
  /\ Goto(w, "idle")
  /\ seen' = [seen EXCEPT ![w] = NoUrl]
  /\ signed' = [signed EXCEPT ![w] = Nobody]

\* announce reads the callback and goes on only if it is switched on.
Announce(w) ==
  /\ at[w] = "idle"
  /\ Exists /\ active
  /\ Goto(w, "sign")
  /\ seen' = [seen EXCEPT ![w] = url]
  /\ stood' = [stood EXCEPT ![w] = {asked}]
  /\ sealed' = [sealed EXCEPT ![w] = {secret}]
  /\ UNCHANGED <<row, calls, signed, history>>

\* Notify signs with the secret there is now, and refuses when there is none or it
\* cannot be read or opened.
Sign(w) ==
  /\ at[w] = "sign"
  /\ \/ /\ secret # Nobody
        /\ signed' = [signed EXCEPT ![w] = secret]
        /\ Goto(w, "call")
        /\ UNCHANGED since
     \/ Goto(w, "failure") /\ Called(w) /\ UNCHANGED signed
  /\ UNCHANGED <<row, calls, seen, history>>

\* The endpoint at the address that was read takes the callback, or does not; it may
\* well verify with a secret that has been replaced.
Notify(w) ==
  /\ at[w] = "call"
  /\ Goto(w, "success") \/ Goto(w, "failure")
  /\ Called(w)
  /\ UNCHANGED <<row, calls, seen, signed, history>>

RecordSuccessWholeRow(w) ==   \* mutant: writes back the row as it was read
  /\ at[w] = "success"
  /\ url' = seen[w] /\ failures' = 0
  /\ Leave(w)
  /\ UNCHANGED <<active, secret, calls, history, since>>

RecordSuccess(w) ==
  /\ at[w] = "success"
  /\ failures' = 0
  /\ unheard' = FALSE
  /\ Leave(w)
  /\ UNCHANGED <<url, active, secret, calls, asked, minted, since>>

\* maxFailures > 0 && count >= maxFailures
Limit(n) == n >= MaxFailures

\* The count is made by the statement; the rule is applied to what it returns.
RecordFailure(w) ==
  /\ at[w] = "failure"
  /\ failures < MaxCount
  /\ failures' = failures + 1
  /\ \/ Limit(failures + 1) /\ Goto(w, "deactivate") /\ UNCHANGED <<seen, signed>>
     \/ ~Limit(failures + 1) /\ Leave(w)
  /\ UNCHANGED <<url, active, secret, calls, history, since>>

\* The second statement of RecordFailure, by id.
Deactivate(w) ==
  /\ at[w] = "deactivate"
  /\ SetActive(FALSE)
  /\ Leave(w)
  /\ UNCHANGED <<calls, asked, minted, since>>

\* A statement of the recording failed, or its process died: logged and forgotten.
RecordFails(w) ==
  /\ at[w] # "idle"
  /\ Leave(w) /\ Called(w)
  /\ unheard' = (unheard \/ at[w] = "deactivate")
  /\ UNCHANGED <<row, calls, asked, minted>>

Next ==
  \/ \E c \in Callers : \/ \E u \in Urls : Register(c, u)
                        \/ Read(c) \/ Create(c) \/ Redirect(c)
                        \/ Rotate(c) \/ Issue(c) \/ CallFails(c)
  \/ \E on \in BOOLEAN : Switch(on)
  \/ \E w \in Workers : \/ Announce(w) \/ Sign(w) \/ Notify(w) \/ RecordSuccess(w)
                        \/ RecordFailure(w) \/ Deactivate(w) \/ RecordFails(w)

Spec == Init /\ [][Next]_vars

-----------------------------------------------------------------------------
(* Properties.                                                             *)

RowTypeOK ==
  /\ url \in Addresses
  /\ active \in BOOLEAN
  /\ failures \in 0..MaxCount
  /\ secret \in 0..MaxSecrets
  /\ ~Exists => ~active /\ failures = 0 /\ secret = Nobody

CallsTypeOK ==
  /\ pc \in [Callers -> {"idle", "read", "create", "redirect", "issue", "rotate"}]
  /\ want \in [Callers -> Addresses]
  /\ found \in [Callers -> BOOLEAN]

WorkTypeOK ==
  /\ at \in [Workers -> {"idle", "sign", "call", "success", "failure", "deactivate"}]
  /\ seen \in [Workers -> Addresses]
  /\ signed \in [Workers -> 0..MaxSecrets]

KnowledgeTypeOK ==
  /\ asked \in Addresses
  /\ minted \in 0..MaxSecrets
  /\ unheard \in BOOLEAN
  /\ stood \in [Workers -> SUBSET Addresses]
  /\ sealed \in [Workers -> SUBSET (0..MaxSecrets)]

\* Every variable has its type, and nothing is active, failing or signed without a
\* row (the column defaults of CreateWebhook).
TypeOK == RowTypeOK /\ CallsTypeOK /\ WorkTypeOK /\ KnowledgeTypeOK

\* What is called is what the source set up.  The row holds the address it asked for
\* last, which a callback in flight when the source moved it does not put back
\* (webhook.sql, "there is no single UpdateWebhook, on purpose").  So an announcement
\* calls an address that was the last one asked for when it read the row or since: one
\* the source had left before the announcement began is not called again.  And it is
\* signed with a secret that was stored then or since: with none that was rotated
\* away before (RotateSecret, "the moment this returns"), and, although a row is there
\* and switched on before its first secret is, never with none (Notify).
CallsAsRegistered ==
  /\ url = asked
  /\ \A w \in Calling : seen[w] \in stood[w]
  /\ \A w \in Workers : at[w] = "call" => signed[w] \in sealed[w] \ {Nobody}

\* A dead endpoint is switched off when its run reaches the limit, however many
\* announcements fail at the same time: an active row at the limit has a worker on
\* its way to switch it off, unless that worker's statement failed.
DeadIsSwitchedOff ==
  active /\ failures >= MaxFailures =>
    unheard \/ \E w \in Workers : at[w] = "deactivate"
=============================================================================
