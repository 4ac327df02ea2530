------------------------------- MODULE Sending ------------------------------
(***************************************************************************)
(* Attempts to send: an attempt opens the identity (sender.Registry),      *)
(* composes the message, takes a token where the channel needs one, calls  *)
(* the provider and reads what it says (Answers, Tokens).  Attempts of the *)
(* same delivery overlap when the broker hands its event out again.        *)
(*                                                                         *)
(* Deliveries of different channels share nothing here, so a behaviour is  *)
(* about one channel, chosen at the start.  Settings, message and address  *)
(* are looked at in one step only and chosen there.  A provider is         *)
(* external: it does what it likes with a call and answers in its own      *)
(* vocabulary.                                                             *)
(***************************************************************************)
EXTENDS Answers, Tokens

CONSTANTS
  Attempts,     \* what makes one attempt after another, of any delivery
  Deliveries,   \* what is to be delivered
  Own,          \* the identity that is the service's, not a source's
  AddressNumbers, \* numbers of the mail server's address that stand by themselves in
                \* an error of net: its port, the groups of an IPv6 one
  None          \* no delivery, and nobody

ASSUME SendingAssumption ==
  /\ Own \in Identities /\ None \notin Identities /\ None \notin Deliveries
  /\ AddressNumbers \subseteq Nat

VARIABLES
  channel,               \* of every delivery
  at, on,                \* of an attempt: its next step, its delivery
  identity,              \* of an attempt: the account it goes out as
  source, token,         \* of an attempt: what it was given to sign with
  fate,                  \* of an attempt: what became of its call, in truth
  outcome,               \* of an attempt: what Send reported
  events,                \* the messages homeservers have made of deliveries
  dead                   \* tokens refused as expired, once that was handled

attempts  == <<at, on, identity, source, token, fate, outcome>>
providers == <<events, dead>>
vars      == <<channel, attempts, providers, tokenVars>>

\* What is unusual about a message, and what is wrong with settings.
Traits == {{}, {"long text"}, {"long title"}, {"blank body"}, {"reserved key"}, {"template"},
           {"template", "long text"}, {"template", "bad parameters"}}

SettingFlaws == {"none", "no secret", "strange secret", "wrong key", "bad json", "no address",
                 "bad address", "unknown type", "no from", "no number", "strange number",
                 "no key id", "no team", "no topic", "not configured"}

Init ==
  /\ channel \in Channels
  /\ identity = [a \in Attempts |-> None]
  /\ at = [a \in Attempts |-> "done"] /\ on = [a \in Attempts |-> None]
  /\ source = [a \in Attempts |-> 0] /\ token = [a \in Attempts |-> 0]
  /\ fate = [a \in Attempts |-> "none"] /\ outcome = [a \in Attempts |-> "none"]
  /\ events = {} /\ dead = {}
  /\ TokenInit

-----------------------------------------------------------------------------
Goto(a, l) == at' = [at EXCEPT ![a] = l]

\* The attempt is over: f is what happened, o what is reported.
Report(a, f, o) ==
  /\ fate' = [fate EXCEPT ![a] = f]
  /\ outcome' = [outcome EXCEPT ![a] = o]
  /\ Goto(a, "done")

Push == channel \in {"fcm", "apns"}

\* Registry.For builds a sender, and Send puts its request together, before a token
\* is spent on it.  Our own identity may be missing from the deployment.
Prepare(c, ours, flaw, m, r) ==
  LET built == IF ours THEN Ours(c, {flaw}) ELSE Build(c, {flaw}) IN
  CASE ~built                                     -> "unbuilt"
    [] built /\ ~Usable(c, r)                     -> "unaddressable"
    [] built /\ Usable(c, r) /\ Refuses(c, m)     -> "unfit"
    [] OTHER                                      -> "fit"

\* What comes of it, for the settings, messages and addresses there are.
Preparations ==
  [c \in Channels |-> [ours \in BOOLEAN |->
    {Prepare(c, ours, flaw, m, r) :
       flaw \in SettingFlaws, m \in Traits, r \in {x \in Shapes : ValidateAddress(c, x)}}]]

\* NO_SENDER is final, and so is what the sender decides on its own; but mail that
\* cannot be addressed has no reply to read, and is tried again.
Unasked(p) == IF p = "unaddressable" /\ channel = "email" THEN "transient" ELSE "permanent"

\* An attempt as i, up to the token: Resolve finds the identity for every attempt
\* anew, and another one once the default has moved.  A push channel opens its key,
\* which is shared.
Open(a, d, i) ==
  /\ at[a] = "done"
  /\ on' = [on EXCEPT ![a] = d]
  /\ identity' = [identity EXCEPT ![a] = i]
  /\ token' = [token EXCEPT ![a] = 0]
  /\ \E p \in Preparations[channel][i = Own] :
       /\ IF p # "fit" THEN Report(a, p, Unasked(p))
          ELSE /\ Goto(a, IF Push THEN "token" ELSE "call")
               /\ fate' = [fate EXCEPT ![a] = "none"]
               /\ outcome' = [outcome EXCEPT ![a] = "none"]
       /\ IF Push /\ p # "unbuilt"
            THEN \E s \in Sources : /\ IF channel = "apns" THEN AppleOpen(i, s)
                                                           ELSE GoogleOpen(i, s)
                                    /\ source' = [source EXCEPT ![a] = s]
            ELSE source' = [source EXCEPT ![a] = 0] /\ UNCHANGED tokenVars
  /\ UNCHANGED <<channel, providers>>

\* A provider token, from the source the attempt opened.
TakeToken(a) ==
  /\ at[a] = "token"
  /\ \E t \in 1..MaxMinted :
       /\ IF channel = "apns" THEN AppleToken(source[a], t) ELSE GoogleToken(source[a], t)
       /\ token' = [token EXCEPT ![a] = t]
  /\ Goto(a, "call")
  /\ UNCHANGED <<channel, on, identity, source, fate, outcome, providers>>

ExchangeReplies == {<<401, "invalid_grant">>, <<503, "invalid_grant">>, <<400, "other">>, <<0, NoCode>>}

\* Google does not give a token for the account, or does not answer.
ExchangeFails(a) ==
  /\ at[a] = "token" /\ channel = "fcm" /\ ~Good(source[a])
  /\ \E r \in ExchangeReplies :
       LET no == GoogleRejected(r[1], r[2]) IN
       Report(a, IF no THEN "rejected" ELSE "lost", FCMTokenFailed(no))
  /\ UNCHANGED <<channel, on, identity, source, token, providers, tokenVars>>

\* The caller's deadline, or ours for one exchange.
GiveUp(a) ==
  /\ at[a] = "token" /\ channel = "fcm"
  /\ GoogleGiveUp(source[a])
  /\ Report(a, "lost", FCMTokenFailed(FALSE))
  /\ UNCHANGED <<channel, on, identity, source, token, providers>>

-----------------------------------------------------------------------------
(* The provider.                                                           *)

RefusalCodes(c) ==
  CASE c = "matrix"   -> {"M_FORBIDDEN", "M_UNKNOWN_TOKEN", "M_TOO_LARGE"}
    [] c = "fcm"      -> {"UNREGISTERED", "THIRD_PARTY_AUTH_ERROR", "INVALID_ARGUMENT"}
    [] c = "apns"     -> {"Unregistered", "BadTopic"}
    [] c = "whatsapp" -> {"131047", "100"}
    [] OTHER          -> {"false"}

BusyCodes(c) ==
  CASE c = "matrix"   -> {"M_LIMIT_EXCEEDED"}
    [] c = "fcm"      -> {"QUOTA_EXCEEDED", "UNAVAILABLE"}
    [] c = "apns"     -> {"TooManyProviderTokenUpdates", "ServiceUnavailable"}
    [] c = "whatsapp" -> {"130429"}
    [] OTHER          -> {"false"}

\* <<status, code>> as the provider answers when it did f with the call.  Meta's
\* limits come as a 400; a proxy in front of any of them answers a redirect, or
\* a busy status with no code.
Says(c, f) ==
  CASE f = "accepted" -> {<<200, NoCode>>}
    [] f = "refused"  -> {400, 401, 403, 404} \X RefusalCodes(c)
    [] f = "busy"     -> ({429, 503} \X (BusyCodes(c) \cup {NoCode}))
                           \cup (IF c = "whatsapp" THEN {<<400, "130429">>} ELSE {})
    [] f = "expired"  -> IF c = "apns" THEN {<<403, "ExpiredProviderToken">>} ELSE {}
    [] f = "odd"      -> {<<302, NoCode>>} \cup {<<200, "false">>}

\* The number in an error's text: the server's reply; or, when there was none, one of
\* its address, which the errors of net name the connection by, or nothing at all.
Texts(f) ==
  CASE f = "refused" -> {<<550>>, <<535>>}
    [] f = "busy"    -> {<<451>>}
    [] OTHER         -> {<<>>} \cup {<<n>> : n \in AddressNumbers}

Answer(status, code, readable, named, text) ==
  [status |-> status, code |-> code, readable |-> readable, named |-> named, text |-> text]

\* What can come back from a call the provider did f with.
Answers(c, f) ==
  IF c = "email"
    THEN {Answer(0, NoCode, TRUE, f = "accepted", t) : t \in Texts(f)}
    ELSE {Answer(r[1], r[2], readable, f = "accepted" /\ named, <<>>) :
            r \in Says(c, f), readable \in BOOLEAN, named \in BOOLEAN}

HappensTo(c) ==
  IF c = "email" THEN {"accepted", "refused", "busy"}
  ELSE {"accepted", "refused", "busy", "odd"} \cup (IF c = "apns" THEN {"expired"} ELSE {})

\* What happened, as far as the answer lets anybody know, and what it is read as.
\* A failure with a body that cannot be decoded is "muffled".
Readings ==
  [c \in Channels |->
    UNION {{[did |-> f,
             fate |-> IF ~ans.readable /\ f # "accepted" THEN "muffled" ELSE f,
             outcome |-> Send(c, ans)] : ans \in Answers(c, f)} : f \in HappensTo(c)}]

AttemptsOwn(a) == <<on[a], a>>   \* mutant: every attempt is a new transaction

\* The id of the delivery goes into the path.
Transaction(a) == on[a]

\* The homeserver has an event of this transaction by this account.
Seen(a) == \E e \in events : e.by = identity[a] /\ e.transaction = Transaction(a)

\* A homeserver takes a transaction it has seen for the same message, and makes no
\* second event of it.  Elsewhere nothing tells a second message from a first, and
\* none is counted.
Accept(a, f) ==
  events' = events \cup
    IF f = "accepted" /\ channel = "matrix" /\ ~Seen(a)
      THEN {[by |-> identity[a], transaction |-> Transaction(a), of |-> on[a]]} ELSE {}

\* The provider does something with the call, and what it says is read.
Call(a) ==
  /\ at[a] = "call"
  /\ \E r \in Readings[channel] :
       /\ Accept(a, r.did)
       /\ fate' = [fate EXCEPT ![a] = r.fate]
       /\ outcome' = [outcome EXCEPT ![a] = r.outcome]
       /\ Goto(a, IF r.fate = "expired" THEN "expire" ELSE "done")
  /\ UNCHANGED <<channel, on, identity, source, token, dead, tokenVars>>

\* No answer comes: dns, dial, tls, a timeout.  The provider may have acted on it.
CallLost(a) ==
  /\ at[a] = "call"
  /\ \E f \in {"accepted", "lost"} :
       /\ Accept(a, f)
       /\ \E t \in Texts("lost") :
            Report(a, IF f = "lost" THEN "lost" ELSE "unheard",
                   IF channel = "email" THEN EmailClassify(replyCode(t)) ELSE "transient")
  /\ UNCHANGED <<channel, on, identity, source, token, dead, tokenVars>>

\* ExpiredProviderToken: the token goes, for the attempts to come.
HandleExpired(a) ==
  /\ at[a] = "expire"
  /\ Expire(source[a])
  /\ dead' = dead \cup {token[a]}
  /\ Goto(a, "done")
  /\ UNCHANGED <<channel, on, identity, source, token, fate, outcome, events>>

-----------------------------------------------------------------------------
Next ==
  \/ \E a \in Attempts, d \in Deliveries, i \in Identities : Open(a, d, i)
  \/ \E a \in Attempts : TakeToken(a)
  \/ \E a \in Attempts : ExchangeFails(a)
  \/ \E a \in Attempts : GiveUp(a)
  \/ \E a \in Attempts : Call(a)
  \/ \E a \in Attempts : CallLost(a)
  \/ \E a \in Attempts : HandleExpired(a)
  \/ \E s \in Sources : OrphanEnds(s) /\ UNCHANGED <<channel, attempts, providers>>
  \/ \E s \in Sources : Age(s) /\ UNCHANGED <<channel, attempts, providers>>

Spec == Init /\ [][Next]_vars

-----------------------------------------------------------------------------
Fates == {"none", "unbuilt", "unaddressable", "unfit", "rejected", "lost", "unheard",
          "accepted", "refused", "busy", "expired", "odd", "muffled"}

\* Types of the attempts, the providers and the minters.
TypeOK ==
  /\ channel \in Channels /\ identity \in [Attempts -> Identities \cup {None}]
  /\ at \in [Attempts -> {"token", "call", "expire", "done"}]
  /\ on \in [Attempts -> Deliveries \cup {None}]
  /\ source \in [Attempts -> 0..opened] /\ token \in [Attempts -> 0..minted]
  /\ fate \in [Attempts -> Fates] /\ outcome \in [Attempts -> Outcomes \cup {"none"}]
  /\ \A e \in events : e.by \in Identities /\ e.of \in Deliveries
  /\ dead \subseteq 1..minted
  /\ TokenTypeOK

Unanswered(a) == at[a] = "done" /\ fate[a] \in {"lost", "unheard"}

\* A number of the server's address may be read as a refusal of its.
Misread(a) ==
  channel = "email" /\ Unanswered(a) /\ AddressNumbers \cap 500..599 # {}

\* What is reported is what happened, on every channel: sent only if the provider
\* took the message; final only if it, or we, turned the message down, so that a
\* message that may have arrived, a limit or an outage is not written off; a refusal
\* we could read is final (classify, in each errors.go); and no address the gateway
\* let in is one the sender cannot use, though the two checks are written twice.
\* Mail is left out when a number in the server's address reads as a refusal for good:
\* the code then takes a server that was never reached for one that refused.
OutcomeIsTrue ==
  \A a \in Attempts : at[a] = "done" =>
    /\ outcome[a] = "sent" => fate[a] = "accepted"
    /\ Final(outcome[a]) =>
         \/ fate[a] \in {"unbuilt", "unfit", "rejected", "refused", "muffled"}
         \/ Misread(a)
    /\ fate[a] \in {"unbuilt", "unfit", "rejected", "refused"} => Final(outcome[a])
    /\ fate[a] # "unaddressable"

\* No retry and no two attempts at once put a message in a room twice as one account,
\* and none is reported as sent that its account did not put there, be it because its
\* transaction was taken for another's: the id it is asked under is the delivery's,
\* no wider and no narrower (matrix.Send).
OneEventPerAccount ==
  /\ \A e, f \in events : e.by = f.by /\ e.of = f.of => e = f
  /\ \A a \in Attempts :
       channel = "matrix" /\ at[a] = "done" /\ outcome[a] = "sent" =>
         \E e \in events : e.by = identity[a] /\ e.of = on[a]

\* A token Apple refused as expired is not presented again by an attempt that asks
\* for one once the refusal was handled, whichever attempt handles it, and however
\* many of them were refused at once (Expire: "without this the cache would hand the
\* same stale one back until the attempts ran out").
RefusedTokenNotReused ==
  [][\A a \in Attempts : token'[a] # token[a] => token'[a] \notin dead]_vars
=============================================================================
