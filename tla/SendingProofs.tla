---------------------------- MODULE SendingProofs ----------------------------
(***************************************************************************)
(* Whatever attempts overlap, on whatever channel and with however many    *)
(* identities: what is reported is what happened, an account puts a        *)
(* delivery in a room once, and a provider token that was refused is not used again  *)
(* (Sending, with Answers and Tokens).                                     *)
(***************************************************************************)
EXTENDS Sending, FiniteSetTheorems, TLAPS

-----------------------------------------------------------------------------
(* The minters: the inductive invariant.                                   *)

\* A source has made a token more than it was excused for only while it holds a
\* good one.
MadeWithReason ==
  \A s \in Sources : made[s] <= minted /\ made[s] <= excused[s] + (IF Good(s) THEN 1 ELSE 0)

\* Every source that was opened is in the map or went with it, full, when it was cleared.
MapCounted == IsFiniteSet(sources) /\ opened = Cardinality(sources) + MaxCached * drops

\* No two sources hold the same token.
TokensApart ==
  \A s, r \in Sources : held[s] # 0 /\ held[s] = held[r] => s = r

MintersInv == TokenTypeOK /\ MadeWithReason /\ MapCounted /\ TokensApart

-----------------------------------------------------------------------------
(* The attempts: the inductive invariant.                                  *)

\* An attempt on a push channel has its source, and once it calls, its token; and
\* nobody else's source holds that one.
Signs(a) ==
  /\ at[a] = "token" => Push
  /\ at[a] = "expire" => Push
  /\ Push /\ at[a] \in {"token", "call", "expire"} => source[a] \in Sources
  /\ Push /\ at[a] \in {"call", "expire"} => token[a] # 0
  /\ \A s \in Sources : token[a] # 0 /\ held[s] = token[a] => s = source[a]

\* It is of a delivery, as somebody.
Aimed(a) == at[a] # "done" => on[a] \in Deliveries /\ identity[a] \in Identities

TokensComeFromSources == \A a \in Attempts : Signs(a) /\ Aimed(a)

\* What a fate may be reported as.
ReportedAs(f, o) ==
  /\ o = "sent" => f = "accepted"
  /\ Final(o) => \/ f \in {"unbuilt", "unfit", "rejected", "refused", "muffled"}
                 \/ channel = "email" /\ AddressNumbers \cap 500..599 # {} /\ f \in {"lost", "unheard"}
  /\ f \in {"unbuilt", "unfit", "rejected", "refused"} => Final(o)
  /\ f # "unaddressable"

Tells(a) == at[a] \in {"done", "expire"} => ReportedAs(fate[a], outcome[a])

ReportsAreTrue == \A a \in Attempts : Tells(a)

\* No source holds a token that was refused and handled.
DeadAreGone == \A s \in Sources : held[s] \notin dead

\* An event was made under the id of what it is an event of.
EventsOfDeliveries ==
  /\ events \subseteq [by : Identities, transaction : Deliveries, of : Deliveries]
  /\ \A e \in events : e.transaction = e.of

\* A message that a homeserver took has its event, of whichever attempt.
HasEvent(i, d) == \E e \in events : e.by = i /\ e.of = d

Happened(a) == channel = "matrix" /\ fate[a] = "accepted" => HasEvent(identity[a], on[a])

TakenHaveEvents == \A a \in Attempts : Happened(a)

IInv ==
  /\ TypeOK /\ MintersInv
  /\ TokensComeFromSources /\ ReportsAreTrue /\ DeadAreGone
  /\ EventsOfDeliveries /\ TakenHaveEvents

-----------------------------------------------------------------------------
(* The minters.                                                            *)

\* The bounds are numbers.
LEMMA Bounds ==
  /\ MaxCached \in Nat /\ MaxCached >= 1
  /\ MaxSources \in Nat /\ MaxMinted \in Nat /\ MaxExcused \in Nat /\ MaxOrphans \in Nat
BY TokenAssumption

\* A token that is made is new, and its source had none to hand out.
LEMMA MakeStep ==
  ASSUME MintersInv, NEW s \in Sources, ~Good(s), Make(s),
         UNCHANGED <<sources, opened, drops, excused>>,
         orphans' \in [Sources -> 0..MaxOrphans]
  PROVE  MintersInv' /\ minted' = minted + 1 /\ held'[s] = minted + 1
<1>0. MaxMinted \in Nat  BY Bounds
<1>1. /\ minted < MaxMinted /\ minted' = minted + 1
      /\ held' = [held EXCEPT ![s] = minted + 1]
      /\ old' = [old EXCEPT ![s] = FALSE]
      /\ made' = [made EXCEPT ![s] = @ + 1]
      /\ UNCHANGED <<sources, opened, drops, excused>>
  BY DEF Make
<1>2. /\ minted \in 0..MaxMinted /\ held \in [Sources -> 0..minted]
      /\ made \in [Sources -> 0..MaxMinted] /\ excused \in [Sources -> 0..MaxExcused]
      /\ \A r \in Sources : made[r] <= minted
  BY DEF MintersInv, TokenTypeOK, MadeWithReason
<1>3. TokenTypeOK'
  <2>1. held' \in [Sources -> 0..minted'] /\ made' \in [Sources -> 0..MaxMinted]
        /\ minted' \in 0..MaxMinted
    BY <1>0, <1>1, <1>2
  <2>2. old' \in [Sources -> BOOLEAN]
    BY <1>1 DEF MintersInv, TokenTypeOK
  <2>. QED  BY <1>1, <2>1, <2>2 DEF MintersInv, TokenTypeOK
<1>4. MadeWithReason'
  <2>1. made[s] <= excused[s]
    BY <1>2 DEF MintersInv, MadeWithReason
  <2>2. ~old'[s] /\ \A r \in Sources : r # s => old'[r] = old[r]
    BY <1>1 DEF MintersInv, TokenTypeOK
  <2>3. ASSUME NEW r \in Sources
        PROVE  made'[r] <= minted' /\ made'[r] <= excused'[r] + (IF Good(r)' THEN 1 ELSE 0)
    <3>1. CASE r = s
      <4>1. held'[s] # 0 /\ made'[s] = made[s] + 1
        BY <1>1, <1>2
      <4>2. Good(s)'
        BY <2>2, <4>1, Zenon DEF Good
      <4>. QED  BY <1>1, <1>2, <2>1, <3>1, <4>1, <4>2
    <3>2. CASE r # s
      <4>1. held'[r] = held[r] /\ made'[r] = made[r] /\ old'[r] = old[r]
        BY <1>1, <1>2, <2>2, <3>2
      <4>2. Good(r)' <=> Good(r)
        BY <4>1, Zenon DEF Good
      <4>. QED  BY <1>1, <1>2, <4>1, <4>2 DEF MintersInv, MadeWithReason
    <3>. QED  BY <3>1, <3>2
  <2>. QED  BY <2>3 DEF MadeWithReason
<1>5. MapCounted'
  BY <1>1 DEF MintersInv, MapCounted
<1>6. TokensApart'
  BY <1>1, <1>2 DEF MintersInv, TokensApart
<1>. QED  BY <1>1, <1>2, <1>3, <1>4, <1>5, <1>6 DEF MintersInv

\* A token that ages or is thrown away is excused.
LEMMA ExcuseStep ==
  ASSUME MintersInv, NEW s \in Sources, excused[s] < MaxExcused,
         excused' = [excused EXCEPT ![s] = @ + 1],
         held' = held \/ held' = [held EXCEPT ![s] = 0],
         old' \in [Sources -> BOOLEAN], \A r \in Sources : r # s => old'[r] = old[r],
         UNCHANGED <<sources, opened, drops, minted, orphans, made>>
  PROVE  MintersInv'
<1>0. MaxExcused \in Nat  BY Bounds
<1>2. /\ minted \in 0..MaxMinted /\ held \in [Sources -> 0..minted]
      /\ made \in [Sources -> 0..MaxMinted] /\ excused \in [Sources -> 0..MaxExcused]
  BY DEF MintersInv, TokenTypeOK
<1>3. TokenTypeOK'
  <2>1. held' \in [Sources -> 0..minted'] /\ excused' \in [Sources -> 0..MaxExcused]
    BY <1>0, <1>2, Bounds
  <2>. QED  BY <2>1 DEF MintersInv, TokenTypeOK
<1>4. MadeWithReason'
  <2>1. ASSUME NEW r \in Sources
        PROVE  made'[r] <= minted' /\ made'[r] <= excused'[r] + (IF Good(r)' THEN 1 ELSE 0)
    <3>0. made[r] <= minted /\ made[r] <= excused[r] + (IF Good(r) THEN 1 ELSE 0)
      BY DEF MintersInv, MadeWithReason
    <3>1. CASE r = s
      <4>1. made[r] <= excused[r] + 1 /\ excused'[r] = excused[r] + 1
        BY <1>2, <3>0, <3>1
      <4>. QED  BY <1>2, <3>0, <4>1
    <3>2. CASE r # s
      <4>1. held'[r] = held[r] /\ excused'[r] = excused[r] /\ old'[r] = old[r]
        BY <1>2, <3>2
      <4>2. Good(r)' <=> Good(r)
        BY <4>1, Zenon DEF Good
      <4>. QED  BY <1>2, <3>0, <4>1, <4>2
    <3>. QED  BY <3>1, <3>2
  <2>. QED  BY <2>1 DEF MadeWithReason
<1>5. MapCounted'
  BY DEF MintersInv, MapCounted
<1>6. TokensApart'
  BY <1>2 DEF MintersInv, TokensApart
<1>. QED  BY <1>3, <1>4, <1>5, <1>6 DEF MintersInv

\* A source is made for an identity that has none; past the cap the others go.
LEMMA InsertStep ==
  ASSUME MintersInv, NEW i \in Identities, opened + 1 \in Sources,
         \A e \in sources : e[1] # i,
         opened' = opened + 1,
         sources' = Insert(i),
         drops' = IF Full THEN drops + 1 ELSE drops,
         UNCHANGED <<held, old, minted, orphans, made, excused>>
  PROVE  MintersInv'
<1> DEFINE e0 == <<i, opened + 1>>
           Keys(S) == {e[1] : e \in S}
<1>0. /\ MaxCached \in Nat /\ MaxCached >= 1 /\ MaxSources \in Nat
      /\ opened \in 0..MaxSources /\ drops \in Nat /\ sources \subseteq Identities \X (1..opened)
      /\ IsFiniteSet(sources) /\ opened = Cardinality(sources) + MaxCached * drops
      /\ Cardinality(sources) \in Nat /\ Cardinality(sources) <= MaxCached
      /\ Cardinality(Keys(sources)) = Cardinality(sources)
  BY Bounds, FS_CardinalityType DEF MintersInv, TokenTypeOK, MapCounted
<1>1. opened' \in 0..MaxSources
  BY <1>0 DEF Sources
<1>2. CASE Full
  <2>1. sources' = {e0} /\ drops' = drops + 1
    BY <1>2 DEF Insert
  <2>2. Cardinality(sources) = MaxCached
    BY <1>0, <1>2 DEF Full
  <2>3. IsFiniteSet(sources') /\ Cardinality(sources') = 1
    BY <2>1, FS_Singleton
  <2>4. Keys(sources') = {i}
    BY <2>1
  <2>5. Cardinality(Keys(sources')) = 1
    BY <2>4, FS_Singleton
  <2>6. MaxCached * (drops + 1) = MaxCached * drops + MaxCached
    BY <1>0
  <2>7. opened' = 1 + MaxCached * drops'
    BY <1>0, <2>1, <2>2, <2>6
  <2>8. sources' \subseteq Identities \X (1..opened')
    BY <1>0, <2>1
  <2>9. TokenTypeOK'
    BY <1>0, <1>1, <2>1, <2>3, <2>5, <2>8 DEF MintersInv, TokenTypeOK
  <2>10. MapCounted'
    BY <2>3, <2>7 DEF MapCounted
  <2>. QED  BY <2>9, <2>10 DEF MintersInv, MadeWithReason, TokensApart, Good
<1>3. CASE ~Full
  <2>1. sources' = sources \cup {e0} /\ drops' = drops
    BY <1>3 DEF Insert
  <2>2. e0 \notin sources
    BY <1>0
  <2>3. IsFiniteSet(sources') /\ Cardinality(sources') = Cardinality(sources) + 1
    <3>. HIDE DEF e0
    <3>. QED  BY <1>0, <2>1, <2>2, FS_AddElement
  <2>4. Keys(sources') = Keys(sources) \cup {i}
    <3>1. e0[1] = i  OBVIOUS
    <3>. HIDE DEF e0
    <3>. QED  BY <2>1, <3>1
  <2>5. IsFiniteSet(Keys(sources)) /\ i \notin Keys(sources)
    <3>1. IsFiniteSet(Keys(sources))
      <4>. DEFINE f == [e \in sources |-> e[1]]
      <4>1. f \in Surjection(sources, Keys(sources))
        BY DEF Surjection
      <4>. QED  BY <1>0, <4>1, FS_Surjection
    <3>. QED  BY <3>1
  <2>6. Cardinality(Keys(sources')) = Cardinality(Keys(sources)) + 1
    BY <2>4, <2>5, FS_AddElement
  <2>7. Cardinality(sources') <= MaxCached
    BY <1>0, <1>3, <2>3 DEF Full
  <2>8. sources' \subseteq Identities \X (1..opened')
    BY <1>0, <2>1
  <2>9. TokenTypeOK'
    BY <1>0, <1>1, <2>1, <2>3, <2>6, <2>7, <2>8 DEF MintersInv, TokenTypeOK
  <2>10. MapCounted'
    BY <1>0, <2>1, <2>3 DEF MapCounted
  <2>. QED  BY <2>9, <2>10 DEF MintersInv, MadeWithReason, TokensApart, Good
<1>. QED  BY <1>2, <1>3

-----------------------------------------------------------------------------
(* What a sender makes of an identity and of an address.                   *)

\* What the gateway lets in, the sender can use: the two checks are written twice.
LEMMA AddressesAgree ==
  ASSUME NEW c \in Channels, NEW r \in Shapes, ValidateAddress(c, r)
  PROVE  Usable(c, r)
BY DEF Channels, ValidateAddress, Usable, EmailUsable, MatrixUsable, GotifyUsable, WhatsAppUsable,
       FCMUsable, APNsUsable

\* So an attempt is never stopped by an address.
LEMMA PreparationKinds ==
  ASSUME NEW c \in Channels, NEW ours \in BOOLEAN, NEW p \in Preparations[c][ours]
  PROVE  p \in {"unbuilt", "unfit", "fit"}
<1>1. PICK flaw \in SettingFlaws, m \in Traits, r \in {x \in Shapes : ValidateAddress(c, x)} :
         p = Prepare(c, ours, flaw, m, r)
  BY DEF Preparations
<1>2. Usable(c, r)
  BY AddressesAgree
<1>. QED  BY <1>1, <1>2, Zenon DEF Prepare

-----------------------------------------------------------------------------
(* What a channel makes of an answer.                                      *)

\* A status and a code that go together.
SaysSo(c, f, status, code) ==
  \/ f = "accepted" /\ status = 200 /\ code = NoCode
  \/ f = "refused" /\ status \in {400, 401, 403, 404} /\ code \in RefusalCodes(c)
  \/ f = "busy" /\ status \in {429, 503} /\ code \in BusyCodes(c) \cup {NoCode}
  \/ f = "busy" /\ c = "whatsapp" /\ status = 400 /\ code = "130429"
  \/ f = "expired" /\ c = "apns" /\ status = 403 /\ code = "ExpiredProviderToken"
  \/ f = "odd" /\ status = 302 /\ code = NoCode
  \/ f = "odd" /\ status = 200 /\ code = "false"

\* What a provider says, it says so.
LEMMA SaysFacts ==
  ASSUME NEW c \in Channels, NEW f \in HappensTo(c), NEW r \in Says(c, f)
  PROVE  SaysSo(c, f, r[1], r[2])
<1>. USE DEF SaysSo, NoCode
<1>1. CASE f = "accepted"
  <2>1. r = <<200, NoCode>>  BY <1>1 DEF Says
  <2>2. r[1] = 200 /\ r[2] = NoCode  BY <2>1
  <2>. QED  BY <1>1, <2>2
<1>2. CASE f = "refused"
  <2>1. Says(c, f) = {400, 401, 403, 404} \X RefusalCodes(c)  BY <1>2 DEF Says
  <2>. QED  BY <1>2, <2>1
<1>3. CASE f = "busy"
  <2>1. \/ r \in {429, 503} \X (BusyCodes(c) \cup {NoCode})
        \/ c = "whatsapp" /\ r = <<400, "130429">>
    <3>1. Says(c, f) = ({429, 503} \X (BusyCodes(c) \cup {NoCode}))
                         \cup (IF c = "whatsapp" THEN {<<400, "130429">>} ELSE {})
      BY <1>3 DEF Says
    <3>. QED  BY <3>1
  <2>2. \/ r[1] \in {429, 503} /\ r[2] \in BusyCodes(c) \cup {NoCode}
        \/ c = "whatsapp" /\ r[1] = 400 /\ r[2] = "130429"
    <3>1. CASE r \in {429, 503} \X (BusyCodes(c) \cup {NoCode})  BY <3>1
    <3>2. CASE r = <<400, "130429">>  BY <2>1, <3>2
    <3>. QED  BY <2>1, <3>1, <3>2
  <2>. QED  BY <1>3, <2>2
<1>4. CASE f = "expired"
  <2>1. c = "apns" /\ r = <<403, "ExpiredProviderToken">>  BY <1>4 DEF Says
  <2>. QED  BY <1>4, <2>1
<1>5. CASE f = "odd"
  <2>1. Says(c, f) = {<<302, NoCode>>} \cup {<<200, "false">>}  BY <1>5 DEF Says
  <2>2. r = <<302, NoCode>> \/ r = <<200, "false">>  BY <2>1, Zenon
  <2>3. (r[1] = 302 /\ r[2] = NoCode) \/ (r[1] = 200 /\ r[2] = "false")
    <3>1. CASE r = <<302, NoCode>>  BY <3>1
    <3>2. CASE r = <<200, "false">>  BY <3>2
    <3>. QED  BY <2>2, <3>1, <3>2
  <2>. QED  BY <1>5, <2>3
<1>. QED  BY <1>1, <1>2, <1>3, <1>4, <1>5 DEF HappensTo

\* So it is with an answer over HTTP, which names a message only when one was accepted.
LEMMA HttpAnswer ==
  ASSUME NEW c \in Channels \ {"email"}, NEW f \in HappensTo(c), NEW ans \in Answers(c, f)
  PROVE  /\ ans.readable \in BOOLEAN /\ ans.named \in BOOLEAN
         /\ ans.named => f = "accepted"
         /\ SaysSo(c, f, ans.status, ans.code)
<1>1. PICK r \in Says(c, f), readable \in BOOLEAN, named \in BOOLEAN :
         ans = Answer(r[1], r[2], readable, f = "accepted" /\ named, <<>>)
  BY DEF Answers
<1>2. ans.readable = readable /\ ans.named = (f = "accepted" /\ named)
  BY <1>1, Zenon DEF Answer
<1>3. ans.status = r[1] /\ ans.code = r[2]
  BY <1>1, Zenon DEF Answer
<1>4. /\ ans.readable \in BOOLEAN /\ ans.named \in BOOLEAN
      /\ ans.named => f = "accepted"
  BY <1>2, Zenon
<1>5. SaysSo(c, f, r[1], r[2])
  BY SaysFacts
<1>. QED  BY <1>3, <1>4, <1>5, Zenon

\* What is said of a call the provider did f with: sent only if it was accepted, final
\* only if it was refused, and then always when the answer could be read.
SaidOf(f, readable, o) ==
  /\ o \in Outcomes
  /\ o = "sent" => f = "accepted"
  /\ Final(o) => f = "refused" \/ (~readable /\ f # "accepted")
  /\ f = "refused" /\ readable => Final(o)

\* What the statuses that are answered say by themselves.
LEMMA StatusKinds ==
  /\ \A s \in {400, 401, 403, 404} : ByStatus(s) = "permanent"
  /\ \A s \in {200, 302, 429, 503} : ByStatus(s) = "transient"
  /\ \A s \in {400, 401, 403, 404, 302, 429, 503} : ~Success(s)
  /\ Success(200)
BY DEF ByStatus, Success

\* A channel tells a failure from a success, and knows which failures are final.
Decides(f, a, failed, kind) ==
  /\ a.readable \in BOOLEAN /\ a.named \in BOOLEAN /\ failed \in BOOLEAN
  /\ a.named => f = "accepted"
  /\ f = "accepted" => ~failed
  /\ f # "accepted" => failed /\ kind \in SendKinds /\ (Final(kind) <=> f = "refused")

\* So what it makes of an answer is true, whatever of the answer is lost.
LEMMA ReadsRight ==
  ASSUME NEW f, NEW a, NEW failed, NEW kind, Decides(f, a, failed, kind)
  PROVE  SaidOf(f, a.readable, Reading(a, failed, kind))
<1>. USE DEF Decides
<1>1. "sent" \notin SendKinds /\ "transient" \in SendKinds /\ ~Final("transient") /\ ~Final("sent")
  BY DEF SendKinds, Final
<1>2. CASE ~a.readable
  <2>1. Reading(a, failed, kind) = "transient"  BY <1>2, Zenon DEF Reading
  <2>. QED  BY <1>1, <1>2, <2>1 DEF SaidOf, Outcomes
<1>3. CASE a.readable /\ failed
  <2>1. Reading(a, failed, kind) = kind  BY <1>3, Zenon DEF Reading
  <2>. QED  BY <1>1, <1>3, <2>1 DEF SaidOf, Outcomes
<1>4. CASE a.readable /\ ~failed
  <2>1. ~a.named => Reading(a, failed, kind) = "transient"  BY <1>4, Zenon DEF Reading
  <2>2. a.named => Reading(a, failed, kind) = "sent"  BY <1>4, Zenon DEF Reading
  <2>. QED  BY <1>1, <1>4, <2>1, <2>2 DEF SaidOf, Outcomes
<1>. QED  BY <1>2, <1>3, <1>4

\* ok:false is a failure, whatever status it came with.
LEMMA TelegramSays ==
  ASSUME NEW f \in HappensTo("telegram"), NEW a \in Answers("telegram", f)
  PROVE  SaidOf(f, a.readable, TelegramSend(a))
<1>. DEFINE failed == a.code # NoCode \/ a.status # 200
            kind   == TelegramClassify(a)
<1>1. /\ a.readable \in BOOLEAN /\ a.named \in BOOLEAN
      /\ a.named => f = "accepted"
      /\ SaysSo("telegram", f, a.status, a.code)
  BY HttpAnswer DEF Channels
<1>2. /\ RefusalCodes("telegram") = {"false"}
      /\ BusyCodes("telegram") = {"false"}
  BY DEF RefusalCodes, BusyCodes
<1>3. f = "accepted" => ~failed
  BY <1>1, StatusKinds DEF SaysSo, NoCode
<1>4. f # "accepted" => failed
  BY <1>1, <1>2, StatusKinds DEF SaysSo, NoCode
<1>5. f # "accepted" => kind \in SendKinds /\ (Final(kind) <=> f = "refused")
  <2>1. f = "refused" => kind \in {"permanent", "unreachable"}
    BY <1>1, <1>2, StatusKinds DEF SaysSo, NoCode, TelegramClassify
  <2>2. f \notin {"accepted", "refused"} => kind = "transient"
    BY <1>1, <1>2, StatusKinds DEF SaysSo, NoCode, TelegramClassify
  <2>. QED  BY <2>1, <2>2 DEF SendKinds, Final
<1>6. failed \in BOOLEAN
  OBVIOUS
<1>7. TelegramSend(a) = Reading(a, failed, kind)
  BY DEF TelegramSend
<1>. HIDE DEF failed, kind
<1>8. Decides(f, a, failed, kind)
  BY <1>1, <1>3, <1>4, <1>5, <1>6, Zenon DEF Decides
<1>. QED  BY <1>7, <1>8, ReadsRight

\* Bale speaks as Telegram does.
LEMMA BaleSays ==
  ASSUME NEW f \in HappensTo("bale"), NEW a \in Answers("bale", f)
  PROVE  SaidOf(f, a.readable, BaleSend(a))
<1>. DEFINE failed == a.code # NoCode \/ a.status # 200
            kind   == BaleClassify(a)
<1>1. /\ a.readable \in BOOLEAN /\ a.named \in BOOLEAN
      /\ a.named => f = "accepted"
      /\ SaysSo("bale", f, a.status, a.code)
  BY HttpAnswer DEF Channels
<1>2. /\ RefusalCodes("bale") = {"false"}
      /\ BusyCodes("bale") = {"false"}
  BY DEF RefusalCodes, BusyCodes
<1>3. f = "accepted" => ~failed
  BY <1>1, StatusKinds DEF SaysSo, NoCode
<1>4. f # "accepted" => failed
  BY <1>1, <1>2, StatusKinds DEF SaysSo, NoCode
<1>5. f # "accepted" => kind \in SendKinds /\ (Final(kind) <=> f = "refused")
  <2>1. f = "refused" => kind \in {"permanent", "unreachable"}
    BY <1>1, <1>2, StatusKinds DEF SaysSo, NoCode, BaleClassify
  <2>2. f \notin {"accepted", "refused"} => kind = "transient"
    BY <1>1, <1>2, StatusKinds DEF SaysSo, NoCode, BaleClassify
  <2>. QED  BY <2>1, <2>2 DEF SendKinds, Final
<1>6. failed \in BOOLEAN
  OBVIOUS
<1>7. BaleSend(a) = Reading(a, failed, kind)
  BY DEF BaleSend
<1>. HIDE DEF failed, kind
<1>8. Decides(f, a, failed, kind)
  BY <1>1, <1>3, <1>4, <1>5, <1>6, Zenon DEF Decides
<1>. QED  BY <1>7, <1>8, ReadsRight

\* The homeserver's code leads.
LEMMA MatrixSays ==
  ASSUME NEW f \in HappensTo("matrix"), NEW a \in Answers("matrix", f)
  PROVE  SaidOf(f, a.readable, MatrixSend(a))
<1>. DEFINE failed == a.code # NoCode \/ ~Success(a.status)
            kind   == MatrixClassify(a)
<1>1. /\ a.readable \in BOOLEAN /\ a.named \in BOOLEAN
      /\ a.named => f = "accepted"
      /\ SaysSo("matrix", f, a.status, a.code)
  BY HttpAnswer DEF Channels
<1>2. /\ RefusalCodes("matrix") = {"M_FORBIDDEN", "M_UNKNOWN_TOKEN", "M_TOO_LARGE"}
      /\ BusyCodes("matrix") = {"M_LIMIT_EXCEEDED"}
  BY DEF RefusalCodes, BusyCodes
<1>3. f = "accepted" => ~failed
  BY <1>1, StatusKinds DEF SaysSo, NoCode
<1>4. f # "accepted" => failed
  BY <1>1, <1>2, StatusKinds DEF SaysSo, NoCode
<1>5. f # "accepted" => kind \in SendKinds /\ (Final(kind) <=> f = "refused")
  <2>1. f = "refused" => kind \in {"permanent", "unreachable"}
    BY <1>1, <1>2, StatusKinds DEF SaysSo, NoCode, MatrixClassify
  <2>2. f \notin {"accepted", "refused"} => kind = "transient"
    BY <1>1, <1>2, StatusKinds DEF SaysSo, NoCode, MatrixClassify
  <2>. QED  BY <2>1, <2>2 DEF SendKinds, Final
<1>6. failed \in BOOLEAN
  OBVIOUS
<1>7. MatrixSend(a) = Reading(a, failed, kind)
  BY DEF MatrixSend
<1>. HIDE DEF failed, kind
<1>8. Decides(f, a, failed, kind)
  BY <1>1, <1>3, <1>4, <1>5, <1>6, Zenon DEF Decides
<1>. QED  BY <1>7, <1>8, ReadsRight

\* Google's error code leads.
LEMMA FCMSays ==
  ASSUME NEW f \in HappensTo("fcm"), NEW a \in Answers("fcm", f)
  PROVE  SaidOf(f, a.readable, FCMSend(a))
<1>. DEFINE failed == a.code # NoCode \/ ~Success(a.status)
            kind   == FCMClassify(a)
<1>1. /\ a.readable \in BOOLEAN /\ a.named \in BOOLEAN
      /\ a.named => f = "accepted"
      /\ SaysSo("fcm", f, a.status, a.code)
  BY HttpAnswer DEF Channels
<1>2. /\ RefusalCodes("fcm") = {"UNREGISTERED", "THIRD_PARTY_AUTH_ERROR", "INVALID_ARGUMENT"}
      /\ BusyCodes("fcm") = {"QUOTA_EXCEEDED", "UNAVAILABLE"}
  BY DEF RefusalCodes, BusyCodes
<1>3. f = "accepted" => ~failed
  BY <1>1, StatusKinds DEF SaysSo, NoCode
<1>4. f # "accepted" => failed
  BY <1>1, <1>2, StatusKinds DEF SaysSo, NoCode
<1>5. f # "accepted" => kind \in SendKinds /\ (Final(kind) <=> f = "refused")
  <2>1. f = "refused" => kind \in {"permanent", "unreachable"}
    BY <1>1, <1>2, StatusKinds DEF SaysSo, NoCode, FCMClassify
  <2>2. f \notin {"accepted", "refused"} => kind = "transient"
    BY <1>1, <1>2, StatusKinds DEF SaysSo, NoCode, FCMClassify
  <2>. QED  BY <2>1, <2>2 DEF SendKinds, Final
<1>6. failed \in BOOLEAN
  OBVIOUS
<1>7. FCMSend(a) = Reading(a, failed, kind)
  BY DEF FCMSend
<1>. HIDE DEF failed, kind
<1>8. Decides(f, a, failed, kind)
  BY <1>1, <1>3, <1>4, <1>5, <1>6, Zenon DEF Decides
<1>. QED  BY <1>7, <1>8, ReadsRight

\* Meta's limits come as a 400, and are told apart by their code.
LEMMA WhatsAppSays ==
  ASSUME NEW f \in HappensTo("whatsapp"), NEW a \in Answers("whatsapp", f)
  PROVE  SaidOf(f, a.readable, WhatsAppSend(a))
<1>. DEFINE failed == a.code # NoCode \/ ~Success(a.status)
            kind   == WhatsAppClassify(a)
<1>1. /\ a.readable \in BOOLEAN /\ a.named \in BOOLEAN
      /\ a.named => f = "accepted"
      /\ SaysSo("whatsapp", f, a.status, a.code)
  BY HttpAnswer DEF Channels
<1>2. /\ RefusalCodes("whatsapp") = {"131047", "100"}
      /\ BusyCodes("whatsapp") = {"130429"}
  BY DEF RefusalCodes, BusyCodes
<1>3. f = "accepted" => ~failed
  BY <1>1, StatusKinds DEF SaysSo, NoCode
<1>4. f # "accepted" => failed
  BY <1>1, <1>2, StatusKinds DEF SaysSo, NoCode
<1>5. f # "accepted" => kind \in SendKinds /\ (Final(kind) <=> f = "refused")
  <2>1. f = "refused" => kind \in {"permanent", "unreachable"}
    BY <1>1, <1>2, StatusKinds DEF SaysSo, NoCode, WhatsAppClassify
  <2>2. f \notin {"accepted", "refused"} => kind = "transient"
    BY <1>1, <1>2, StatusKinds DEF SaysSo, NoCode, WhatsAppClassify
  <2>. QED  BY <2>1, <2>2 DEF SendKinds, Final
<1>6. failed \in BOOLEAN
  OBVIOUS
<1>7. WhatsAppSend(a) = Reading(a, failed, kind)
  BY DEF WhatsAppSend
<1>. HIDE DEF failed, kind
<1>8. Decides(f, a, failed, kind)
  BY <1>1, <1>3, <1>4, <1>5, <1>6, Zenon DEF Decides
<1>. QED  BY <1>7, <1>8, ReadsRight

\* Gotify's status is believed, and only a success is read.
LEMMA GotifySays ==
  ASSUME NEW f \in HappensTo("gotify"), NEW a \in Answers("gotify", f)
  PROVE  SaidOf(f, a.readable, GotifySend(a))
<1>1. /\ a.readable \in BOOLEAN /\ a.named \in BOOLEAN
      /\ a.named => f = "accepted"
      /\ SaysSo("gotify", f, a.status, a.code)
  BY HttpAnswer DEF Channels
<1>2. CASE ~Success(a.status)
  <2>1. GotifySend(a) = ByStatus(a.status)
    BY <1>2 DEF GotifySend, GotifyClassify
  <2>2. \/ f = "refused" /\ ByStatus(a.status) = "permanent"
        \/ f \notin {"accepted", "refused"} /\ ByStatus(a.status) = "transient"
    BY <1>1, <1>2, StatusKinds DEF SaysSo
  <2>. QED  BY <2>1, <2>2 DEF SaidOf, Outcomes, SendKinds, Final
<1>3. CASE Success(a.status)
  <2>1. GotifySend(a) = Reading(a, FALSE, "transient")
    BY <1>3, Zenon DEF GotifySend
  <2>2. ~a.named => Reading(a, FALSE, "transient") = "transient"
    BY Zenon DEF Reading
  <2>3. a.named => Reading(a, FALSE, "transient") \in {"sent", "transient"}
    BY Zenon DEF Reading
  <2>4. f # "refused"
    BY <1>1, <1>3, StatusKinds DEF SaysSo
  <2>. QED  BY <1>1, <2>1, <2>2, <2>3, <2>4 DEF SaidOf, Outcomes, SendKinds, Final
<1>. QED  BY <1>2, <1>3

\* A refusal by Apple keeps its status when its body cannot be read.
LEMMA ReadableIs ==
  ASSUME NEW f \in HappensTo("apns"), NEW a \in Answers("apns", f)
  PROVE  /\ Readable(a).status = a.status
         /\ a.readable => Readable(a).code = a.code
<1>1. PICK r \in Says("apns", f), readable \in BOOLEAN, named \in BOOLEAN :
         a = Answer(r[1], r[2], readable, f = "accepted" /\ named, <<>>)
  BY DEF Answers
<1>2. [a EXCEPT !.code = NoCode].status = r[1] /\ a.status = r[1]
  BY <1>1 DEF Answer
<1>3. CASE a.readable
  BY <1>3, Zenon DEF Readable
<1>4. CASE ~a.readable
  <2>1. Readable(a) = [a EXCEPT !.code = NoCode]
    BY <1>4, Zenon DEF Readable
  <2>. QED  BY <1>2, <1>4, <2>1
<1>. QED  BY <1>3, <1>4

\* A token that expired is no verdict on the message, though it comes as a 403.
LEMMA APNsSays ==
  ASSUME NEW f \in HappensTo("apns"), NEW a \in Answers("apns", f)
  PROVE  SaidOf(f, a.readable, APNsSend(a))
<1>1. /\ a.readable \in BOOLEAN /\ a.named \in BOOLEAN
      /\ a.named => f = "accepted"
      /\ SaysSo("apns", f, a.status, a.code)
  BY HttpAnswer DEF Channels
<1>2. /\ RefusalCodes("apns") = {"Unregistered", "BadTopic"}
      /\ BusyCodes("apns") = {"TooManyProviderTokenUpdates", "ServiceUnavailable"}
  BY DEF RefusalCodes, BusyCodes
<1>3. CASE ~Success(a.status)
  <2> DEFINE b == Readable(a)
  <2>1. APNsSend(a) = APNsClassify(b)
    BY <1>3, Zenon DEF APNsSend
  <2>2. b.status = a.status /\ (a.readable => b.code = a.code)
    BY ReadableIs
  <2>. HIDE DEF b
  <2>3. f # "accepted"
    BY <1>1, <1>3, StatusKinds DEF SaysSo
  <2>4. APNsClassify(b) \in SendKinds
    BY DEF APNsClassify, ByStatus, SendKinds
  <2>5. a.readable /\ f = "refused" => APNsClassify(b) \in {"permanent", "unreachable"}
    BY <1>1, <1>2, <2>2, StatusKinds DEF SaysSo, NoCode, APNsClassify
  <2>6. a.readable /\ f # "refused" => APNsClassify(b) = "transient"
    BY <1>1, <1>2, <2>2, <2>3, StatusKinds DEF SaysSo, NoCode, APNsClassify
  <2>. QED  BY <1>1, <2>1, <2>3, <2>4, <2>5, <2>6 DEF SaidOf, Outcomes, SendKinds, Final
<1>4. CASE Success(a.status)
  <2>1. (~a.named => APNsSend(a) = "transient") /\ (a.named => APNsSend(a) = "sent")
    BY <1>4, Zenon DEF APNsSend
  <2>2. f # "refused"
    BY <1>1, <1>4, StatusKinds DEF SaysSo
  <2>. QED  BY <1>1, <2>1, <2>2 DEF SaidOf, Outcomes, SendKinds, Final
<1>. QED  BY <1>3, <1>4

\* The one number in a text, if it could be a reply.
LEMMA OneNumber ==
  ASSUME NEW n \in Nat
  PROVE  replyCode(<<n>>) = IF n \in 200..599 THEN n ELSE 0
<1>1. DOMAIN <<n>> = {1} /\ <<n>>[1] = n
  OBVIOUS
<1>. DEFINE codes == {i \in DOMAIN <<n>> : <<n>>[i] \in 200..599}
<1>2. replyCode(<<n>>) = IF codes = {} THEN 0 ELSE <<n>>[CHOOSE i \in codes : \A j \in codes : i <= j]
  BY DEF replyCode
<1>3. codes = IF n \in 200..599 THEN {1} ELSE {}
  BY <1>1
<1>4. CASE n \in 200..599
  <2>1. codes = {1}
    BY <1>3, <1>4
  <2>2. (CHOOSE i \in codes : \A j \in codes : i <= j) = 1
    <3>. DEFINE first == CHOOSE i \in codes : \A j \in codes : i <= j
    <3>. HIDE DEF codes
    <3>1. 1 \in codes /\ \A j \in codes : 1 <= j
      BY <2>1
    <3>2. first \in codes
      BY <3>1
    <3>. QED  BY <2>1, <3>2
  <2>3. replyCode(<<n>>) = <<n>>[1]
    BY <1>2, <2>1, <2>2
  <2>. QED  BY <1>1, <1>4, <2>3
<1>5. CASE n \notin 200..599
  BY <1>2, <1>3, <1>5
<1>. QED  BY <1>4, <1>5

\* An answer to mail is an error with a text, or none.
LEMMA MailAnswer ==
  ASSUME NEW c, c = "email", NEW f, NEW a \in Answers(c, f)
  PROVE  \E t \in Texts(f) : a.named = (f = "accepted") /\ a.readable = TRUE /\ a.text = t
BY DEF Answers, Answer

\* A reply of the mail server decides, and nothing else is there to be read.
LEMMA EmailSays ==
  ASSUME NEW f \in HappensTo("email"), NEW a \in Answers("email", f)
  PROVE  SaidOf(f, a.readable, EmailSend(a))
<1>1. PICK text \in Texts(f) : a.named = (f = "accepted") /\ a.readable = TRUE /\ a.text = text
  BY MailAnswer
<1>2. a.named = (f = "accepted") /\ a.readable = TRUE
  BY <1>1
<1>3. a.text = text
  BY <1>1
<1>4. CASE f = "accepted"
  <2>1. EmailSend(a) = "sent"
    BY <1>2, <1>4, Zenon DEF EmailSend
  <2>. QED  BY <1>4, <2>1 DEF SaidOf, Outcomes, Final
<1>5. CASE f = "refused"
  <2>1. text = <<550>> \/ text = <<535>>
    BY <1>5 DEF Texts
  <2>2. replyCode(text) >= 500
    BY <2>1, OneNumber
  <2>3. EmailSend(a) = "permanent"
    BY <1>2, <1>3, <1>5, <2>2 DEF EmailSend, EmailClassify
  <2>. QED  BY <1>5, <2>3 DEF SaidOf, Outcomes, SendKinds, Final
<1>6. CASE f = "busy"
  <2>1. replyCode(text) = 451
    BY <1>6, OneNumber DEF Texts
  <2>2. EmailSend(a) = EmailClassify(451)
    <3>1. ~a.named
      BY <1>2, <1>6
    <3>. QED  BY <1>3, <2>1, <3>1, Zenon DEF EmailSend
  <2>3. EmailSend(a) = "transient"
    BY <2>2 DEF EmailClassify
  <2>. QED  BY <1>6, <2>3 DEF SaidOf, Outcomes, SendKinds, Final
<1>. QED  BY <1>4, <1>5, <1>6 DEF HappensTo

\* What is read of an answer is true, on every channel.
LEMMA ReadingsAreTrue ==
  ASSUME NEW r \in Readings[channel], channel \in Channels
  PROVE  /\ r.fate \in Fates /\ r.outcome \in Outcomes
         /\ ReportedAs(r.fate, r.outcome)
         /\ r.fate = "expired" => Push
         /\ r.fate = "accepted" => r.did = "accepted"
<1>0. PICK f \in HappensTo(channel) : \E a \in Answers(channel, f) :
         r = [did |-> f,
              fate |-> IF ~a.readable /\ f # "accepted" THEN "muffled" ELSE f,
              outcome |-> Send(channel, a)]
  BY DEF Readings
<1>1. PICK a \in Answers(channel, f) :
         r = [did |-> f,
              fate |-> IF ~a.readable /\ f # "accepted" THEN "muffled" ELSE f,
              outcome |-> Send(channel, a)]
  BY <1>0
<1>2. SaidOf(f, a.readable, Send(channel, a))
  BY TelegramSays, BaleSays, EmailSays, MatrixSays, GotifySays, WhatsAppSays, FCMSays, APNsSays
     DEF Channels, Send
<1>3. r.did = f /\ r.outcome = Send(channel, a)
      /\ r.fate = IF ~a.readable /\ f # "accepted" THEN "muffled" ELSE f
  BY <1>1, Zenon
<1>4. CASE ~a.readable /\ f # "accepted"
  <2>1. r.fate = "muffled"
    BY <1>3, <1>4, Zenon
  <2>. QED  BY <1>2, <1>3, <1>4, <2>1 DEF SaidOf, ReportedAs, Fates
<1>5. CASE a.readable \/ f = "accepted"
  <2>1. r.fate = f
    BY <1>3, <1>5, Zenon
  <2>2. f \in {"accepted", "refused", "busy", "odd", "expired"} /\ (f = "expired" => Push)
    BY DEF HappensTo, Push
  <2>. QED  BY <1>2, <1>3, <1>5, <2>1, <2>2 DEF SaidOf, ReportedAs, Fates
<1>. QED  BY <1>4, <1>5, Zenon

-----------------------------------------------------------------------------
(* What the attempts see of the minters.                                   *)

\* A source keeps its token, loses it, or gets one nobody has seen.
Moves ==
  /\ opened <= opened' /\ minted' \in {minted, minted + 1}
  /\ \A s \in Sources :
       \/ held'[s] \in {held[s], 0}
       \/ held'[s] = minted + 1 /\ minted' = minted + 1

\* The minters may be left alone.
LEMMA StillMoves ==
  ASSUME MintersInv, UNCHANGED tokenVars
  PROVE  MintersInv' /\ Moves
<1>1. UNCHANGED <<sources, opened, drops, held, old, minted, orphans, made, excused>>
  BY DEF tokenVars
<1>2. opened \in Nat /\ minted \in Nat
  BY Bounds DEF MintersInv, TokenTypeOK
<1>3. MintersInv'
  BY <1>1 DEF MintersInv, TokenTypeOK, MadeWithReason, MapCounted, TokensApart, Good
<1>4. Moves
  BY <1>1, <1>2 DEF Moves
<1>. QED  BY <1>3, <1>4

\* An identity is opened, at either of the two.
LEMMA OpenMoves ==
  ASSUME MintersInv, NEW i \in Identities, NEW s \in Sources, AppleOpen(i, s)
  PROVE  MintersInv' /\ Moves /\ s \in 1..opened' /\ held' = held /\ minted' = minted
<1>0. /\ MaxSources \in Nat /\ opened \in 0..MaxSources /\ minted \in Nat
      /\ sources \subseteq Identities \X (1..opened)
  BY Bounds DEF MintersInv, TokenTypeOK
<1>1. CASE <<i, s>> \in sources /\ UNCHANGED tokenVars
  <2>1. s \in 1..opened
    BY <1>0, <1>1
  <2>. QED  BY <1>1, <2>1, StillMoves DEF tokenVars
<1>2. CASE ~(<<i, s>> \in sources /\ UNCHANGED tokenVars)
  <2>1. /\ \A e \in sources : e[1] # i
        /\ s = opened + 1 /\ opened' = s
        /\ sources' = Insert(i)
        /\ drops' = IF Full THEN drops + 1 ELSE drops
        /\ UNCHANGED <<held, old, minted, orphans, made, excused>>
    BY <1>2, Zenon DEF AppleOpen
  <2>2. MintersInv'
    BY <2>1, InsertStep
  <2>3. Moves
    BY <1>0, <2>1 DEF Moves
  <2>. QED  BY <1>0, <2>1, <2>2, <2>3
<1>. QED  BY <1>1, <1>2

\* A token is taken: the one that is held, or a new one.
LEMMA TokenMoves ==
  ASSUME MintersInv, NEW s \in Sources, NEW t, AppleToken(s, t)
  PROVE  /\ MintersInv' /\ Moves
         /\ t \in 1..minted' /\ held'[s] = t /\ opened' = opened
         /\ t = held[s] \/ t = minted + 1
<1>0. MaxMinted \in Nat /\ opened \in Nat /\ minted \in Nat /\ held \in [Sources -> 0..minted]
  BY Bounds DEF MintersInv, TokenTypeOK
<1>1. CASE Good(s) /\ t = held[s] /\ UNCHANGED tokenVars
  <2>1. held[s] # 0
    BY <1>1 DEF Good
  <2>2. UNCHANGED <<held, minted, opened>>
    BY <1>1 DEF tokenVars
  <2>3. MintersInv' /\ Moves
    BY <1>1, StillMoves
  <2>. QED  BY <1>0, <1>1, <2>1, <2>2, <2>3
<1>2. CASE ~(Good(s) /\ t = held[s] /\ UNCHANGED tokenVars)
  <2>1. /\ ~Good(s) /\ t = minted + 1 /\ Make(s)
        /\ UNCHANGED <<sources, opened, drops, orphans, excused>>
    BY <1>2, Zenon DEF AppleToken
  <2>2. orphans' \in [Sources -> 0..MaxOrphans]
    BY <2>1 DEF MintersInv, TokenTypeOK
  <2>3. MintersInv' /\ minted' = minted + 1 /\ held'[s] = minted + 1
    BY <2>1, <2>2, MakeStep
  <2>4. held' = [held EXCEPT ![s] = minted + 1]
    BY <2>1 DEF Make
  <2>5. Moves
    BY <1>0, <2>1, <2>3, <2>4 DEF Moves
  <2>. QED  BY <1>0, <2>1, <2>3, <2>5
<1>. QED  BY <1>1, <1>2

\* What is held is thrown away.
LEMMA ExpireMoves ==
  ASSUME MintersInv, NEW s \in Sources, Expire(s)
  PROVE  MintersInv' /\ Moves /\ held' = [held EXCEPT ![s] = 0] /\ UNCHANGED <<opened, minted>>
<1>0. /\ opened \in Nat /\ minted \in Nat /\ held \in [Sources -> 0..minted]
      /\ old \in [Sources -> BOOLEAN]
  BY Bounds DEF MintersInv, TokenTypeOK
<1>1. /\ excused[s] < MaxExcused
      /\ held' = [held EXCEPT ![s] = 0] /\ old' = [old EXCEPT ![s] = FALSE]
      /\ excused' = [excused EXCEPT ![s] = @ + 1]
      /\ UNCHANGED <<sources, opened, drops, minted, orphans, made>>
  BY DEF Expire
<1>2. old' \in [Sources -> BOOLEAN] /\ \A r \in Sources : r # s => old'[r] = old[r]
  BY <1>0, <1>1
<1>3. MintersInv'
  BY <1>1, <1>2, ExcuseStep
<1>4. Moves
  BY <1>0, <1>1 DEF Moves
<1>. QED  BY <1>1, <1>3, <1>4

\* A token ages.
LEMMA AgeMoves ==
  ASSUME MintersInv, NEW s \in Sources, Age(s)
  PROVE  MintersInv' /\ Moves
<1>0. /\ opened \in Nat /\ minted \in Nat /\ held \in [Sources -> 0..minted]
      /\ old \in [Sources -> BOOLEAN]
  BY Bounds DEF MintersInv, TokenTypeOK
<1>1. /\ excused[s] < MaxExcused
      /\ held' = held /\ old' = [old EXCEPT ![s] = TRUE]
      /\ excused' = [excused EXCEPT ![s] = @ + 1]
      /\ UNCHANGED <<sources, opened, drops, minted, orphans, made>>
  BY DEF Age
<1>2. old' \in [Sources -> BOOLEAN] /\ \A r \in Sources : r # s => old'[r] = old[r]
  BY <1>0, <1>1
<1>3. MintersInv'
  BY <1>1, <1>2, ExcuseStep
<1>4. Moves
  BY <1>0, <1>1 DEF Moves
<1>. QED  BY <1>3, <1>4

\* Only the exchanges nobody waits for change.
LEMMA OrphansMove ==
  ASSUME MintersInv, orphans' \in [Sources -> 0..MaxOrphans],
         UNCHANGED <<sources, opened, drops, held, old, minted, made, excused>>
  PROVE  MintersInv' /\ Moves
<1>0. opened \in Nat /\ minted \in Nat
  BY Bounds DEF MintersInv, TokenTypeOK
<1>1. MintersInv'
  BY DEF MintersInv, TokenTypeOK, MadeWithReason, MapCounted, TokensApart, Good
<1>2. Moves
  BY <1>0 DEF Moves
<1>. QED  BY <1>1, <1>2

\* One of them ends.
LEMMA OrphanEndMoves ==
  ASSUME MintersInv, NEW s \in Sources, OrphanEnds(s)
  PROVE  MintersInv' /\ Moves
<1>0. /\ opened \in Nat /\ minted \in Nat /\ held \in [Sources -> 0..minted]
      /\ orphans \in [Sources -> 0..MaxOrphans] /\ MaxOrphans \in Nat
  BY Bounds DEF MintersInv, TokenTypeOK
<1>1. /\ orphans[s] > 0 /\ orphans' = [orphans EXCEPT ![s] = @ - 1]
      /\ UNCHANGED <<sources, opened, drops, excused>>
      /\ (~Good(s) /\ Make(s)) \/ UNCHANGED <<minted, held, old, made>>
  BY DEF OrphanEnds
<1>2. orphans' \in [Sources -> 0..MaxOrphans]
  BY <1>0, <1>1
<1>3. CASE ~Good(s) /\ Make(s)
  <2>1. MintersInv' /\ minted' = minted + 1 /\ held'[s] = minted + 1
    BY <1>1, <1>2, <1>3, MakeStep
  <2>2. held' = [held EXCEPT ![s] = minted + 1]
    BY <1>3 DEF Make
  <2>3. Moves
    BY <1>0, <1>1, <2>1, <2>2 DEF Moves
  <2>. QED  BY <2>1, <2>3
<1>4. CASE UNCHANGED <<minted, held, old, made>>
  BY <1>1, <1>2, <1>4, OrphansMove
<1>. QED  BY <1>1, <1>3, <1>4

-----------------------------------------------------------------------------
(* The attempts.                                                           *)

\* The types of what an attempt has.
AttemptTypes ==
  /\ channel \in Channels /\ identity \in [Attempts -> Identities \cup {None}]
  /\ at \in [Attempts -> {"token", "call", "expire", "done"}]
  /\ on \in [Attempts -> Deliveries \cup {None}]
  /\ source \in [Attempts -> 0..opened] /\ token \in [Attempts -> 0..minted]
  /\ fate \in [Attempts -> Fates] /\ outcome \in [Attempts -> Outcomes \cup {"none"}]

\* Tokens that are handed out are numbers, and so are the sources.
LEMMA Numbers ==
  ASSUME MintersInv
  PROVE  /\ opened \in Nat /\ minted \in Nat /\ held \in [Sources -> 0..minted]
         /\ Sources \subseteq Nat
BY Bounds DEF MintersInv, TokenTypeOK, Sources

\* A step moves one attempt at most: the others stay as good as they were.
LEMMA OneAttempt ==
  ASSUME IInv, MintersInv', Moves, NEW a \in Attempts, channel' = channel,
         \A b \in Attempts \ {a} :
           /\ at'[b] = at[b] /\ on'[b] = on[b] /\ identity'[b] = identity[b]
           /\ source'[b] = source[b] /\ token'[b] = token[b]
           /\ fate'[b] = fate[b] /\ outcome'[b] = outcome[b],
         AttemptTypes', Signs(a)', Aimed(a)', Tells(a)', Happened(a)',
         dead' \subseteq 1..minted', DeadAreGone',
         EventsOfDeliveries', events \subseteq events'
  PROVE  IInv'
<1>0. channel' = channel
  OBVIOUS
<1>1. ASSUME NEW b \in Attempts \ {a}
      PROVE  Signs(b)' /\ Aimed(b)'
  <2>1. /\ at'[b] = at[b] /\ source'[b] = source[b] /\ token'[b] = token[b]
        /\ Signs(b) /\ Push' = Push
        /\ Aimed(b) /\ on'[b] = on[b] /\ identity'[b] = identity[b]
    BY <1>0 DEF IInv, TokensComeFromSources, Push
  <2>2. token[b] \in 0..minted /\ minted \in Nat
    BY Numbers DEF IInv, TypeOK
  <2>3. ASSUME NEW s \in Sources, token[b] # 0, held'[s] = token[b]
        PROVE  s = source[b]
    <3>1. held[s] = token[b]
      BY <2>2, <2>3 DEF Moves
    <3>. QED  BY <2>1, <2>3, <3>1 DEF Signs
  <2>4. Aimed(b)'
    BY <2>1 DEF Aimed
  <2>. QED  BY <2>1, <2>3, <2>4 DEF Signs
<1>2. ASSUME NEW b \in Attempts \ {a}
      PROVE  Tells(b)'
  <2>1. /\ at'[b] = at[b] /\ fate'[b] = fate[b] /\ outcome'[b] = outcome[b] /\ Tells(b)
    BY DEF IInv, ReportsAreTrue
  <2>. QED  BY <1>0, <2>1 DEF Tells, ReportedAs
<1>3. TokensComeFromSources'
  BY <1>1 DEF TokensComeFromSources
<1>4. ReportsAreTrue'
  BY <1>2 DEF ReportsAreTrue
<1>5. TypeOK'
  BY DEF AttemptTypes, TypeOK, MintersInv, EventsOfDeliveries
<1>6. ASSUME NEW b \in Attempts \ {a}
      PROVE  Happened(b)'
  <2>1. /\ fate'[b] = fate[b] /\ on'[b] = on[b] /\ identity'[b] = identity[b] /\ Happened(b)
    BY DEF IInv, TakenHaveEvents
  <2>. QED  BY <1>0, <2>1 DEF Happened, HasEvent
<1>7. TakenHaveEvents'
  BY <1>6 DEF TakenHaveEvents
<1>. QED  BY <1>3, <1>4, <1>5, <1>7 DEF IInv

\* What the attempts have is of its type whatever the minters do.
LEMMA TypesStay ==
  ASSUME IInv, MintersInv', Moves
  PROVE  /\ source \in [Attempts -> 0..opened'] /\ token \in [Attempts -> 0..minted']
         /\ 0..opened \subseteq 0..opened' /\ 0..minted \subseteq 0..minted' /\ 0 \in 0..minted'
         /\ 0 \in 0..opened'
<1>1. opened \in Nat /\ minted \in Nat /\ opened' \in Nat /\ minted' \in Nat
  <2>1. opened \in Nat /\ minted \in Nat
    BY Numbers DEF IInv
  <2>2. opened' \in Nat /\ minted' \in Nat
    BY Bounds DEF MintersInv, TokenTypeOK
  <2>. QED  BY <2>1, <2>2
<1>2. opened <= opened' /\ minted <= minted'
  BY <1>1 DEF Moves
<1>. QED  BY <1>1, <1>2 DEF IInv, TypeOK

\* A refused token stays gone while no other is refused.
LEMMA DeadStay ==
  ASSUME IInv, Moves, MintersInv', dead' = dead
  PROVE  dead' \subseteq 1..minted' /\ DeadAreGone'
<1>1. minted \in Nat /\ dead \subseteq 1..minted
  BY Numbers DEF IInv, TypeOK
<1>2. dead' \subseteq 1..minted'
  BY <1>1 DEF Moves
<1>3. ASSUME NEW s \in Sources
      PROVE  held'[s] \notin dead
  BY <1>1 DEF Moves, IInv, DeadAreGone
<1>. QED  BY <1>2, <1>3 DEF DeadAreGone

\* The minters may move while no attempt does.
LEMMA Untouched ==
  ASSUME IInv, MintersInv', Moves, UNCHANGED <<channel, attempts, providers>>
  PROVE  IInv'
<1>1. /\ UNCHANGED <<at, on, source, token, fate, outcome, events, dead, channel, identity>>
  BY DEF attempts, providers
<1>2. AttemptTypes'
  BY <1>1, TypesStay DEF IInv, TypeOK, AttemptTypes
<1>3. dead' \subseteq 1..minted' /\ DeadAreGone'
  BY <1>1, DeadStay
<1>4. TypeOK'
  BY <1>1, <1>2, <1>3 DEF AttemptTypes, TypeOK, MintersInv, IInv
<1>5. ASSUME NEW b \in Attempts
      PROVE  Signs(b)' /\ Aimed(b)'
  <2>1. Signs(b) /\ Push' = Push /\ Aimed(b)
    BY <1>1 DEF IInv, TokensComeFromSources, Push
  <2>2. token[b] \in 0..minted /\ minted \in Nat
    BY Numbers DEF IInv, TypeOK
  <2>3. ASSUME NEW s \in Sources, token[b] # 0, held'[s] = token[b]
        PROVE  s = source[b]
    <3>1. held[s] = token[b]
      BY <2>2, <2>3 DEF Moves
    <3>. QED  BY <2>1, <2>3, <3>1 DEF Signs
  <2>4. Aimed(b)'
    BY <1>1, <2>1 DEF Aimed
  <2>. QED  BY <1>1, <2>1, <2>3, <2>4 DEF Signs
<1>6. ReportsAreTrue'
  BY <1>1 DEF IInv, ReportsAreTrue, Tells, ReportedAs
<1>7. EventsOfDeliveries' /\ TakenHaveEvents'
  BY <1>1 DEF IInv, EventsOfDeliveries, TakenHaveEvents, Happened, HasEvent
<1>. QED  BY <1>3, <1>4, <1>5, <1>6, <1>7 DEF IInv, TokensComeFromSources

\* The invariant holds before anything is attempted.
LEMMA InitHolds == Init => IInv
<1>. SUFFICES ASSUME Init PROVE IInv
  OBVIOUS
<1>0. Sources \subseteq Nat
  BY Bounds DEF Sources
<1>1. /\ sources = {} /\ opened = 0 /\ drops = 0 /\ minted = 0
      /\ held = [s \in Sources |-> 0] /\ old = [s \in Sources |-> FALSE]
      /\ orphans = [s \in Sources |-> 0]
      /\ made = [s \in Sources |-> 0] /\ excused = [s \in Sources |-> 0]
  BY DEF Init, TokenInit
<1>2. IsFiniteSet(sources) /\ Cardinality(sources) = 0 /\ {e[1] : e \in sources} = {}
  BY <1>1, FS_EmptySet
<1>3. TokenTypeOK
  BY <1>1, <1>2, Bounds, FS_EmptySet DEF TokenTypeOK
<1>4. MadeWithReason
  BY <1>0, <1>1 DEF MadeWithReason, Good
<1>5. MapCounted
  BY <1>1, <1>2, Bounds DEF MapCounted
<1>6. TokensApart
  BY <1>1 DEF TokensApart
<1>7. TypeOK
  BY <1>1, <1>3 DEF Init, TypeOK, Fates
<1>8. ASSUME NEW a \in Attempts
      PROVE  Signs(a) /\ Aimed(a) /\ Tells(a) /\ Happened(a)
  <2>1. at[a] = "done" /\ token[a] = 0 /\ fate[a] = "none" /\ outcome[a] = "none"
    BY DEF Init
  <2>. QED  BY <2>1 DEF Signs, Aimed, Tells, ReportedAs, Final, Happened
<1>9. DeadAreGone /\ EventsOfDeliveries
  BY DEF Init, DeadAreGone, EventsOfDeliveries
<1>. QED  BY <1>3, <1>4, <1>5, <1>6, <1>7, <1>8, <1>9
          DEF IInv, MintersInv, TokensComeFromSources, ReportsAreTrue, TakenHaveEvents

\* A report is an assignment to one attempt.
LEMMA Reported ==
  ASSUME IInv, NEW a \in Attempts, NEW f \in Fates, NEW o \in Outcomes, Report(a, f, o)
  PROVE  /\ at' \in [Attempts -> {"token", "call", "expire", "done"}]
         /\ fate' \in [Attempts -> Fates] /\ outcome' \in [Attempts -> Outcomes \cup {"none"}]
         /\ at'[a] = "done" /\ fate'[a] = f /\ outcome'[a] = o
         /\ \A b \in Attempts \ {a} :
              at'[b] = at[b] /\ fate'[b] = fate[b] /\ outcome'[b] = outcome[b]
BY DEF IInv, TypeOK, Report, Goto

\* An attempt is made: up to its token, or to its end.
LEMMA OpenStep ==
  ASSUME IInv, NEW a \in Attempts, NEW d \in Deliveries, NEW i \in Identities, Open(a, d, i)
  PROVE  IInv'
<1>1. PICK p \in Preparations[channel][i = Own] :
        /\ IF p # "fit" THEN Report(a, p, Unasked(p))
           ELSE /\ Goto(a, IF Push THEN "token" ELSE "call")
                /\ fate' = [fate EXCEPT ![a] = "none"]
                /\ outcome' = [outcome EXCEPT ![a] = "none"]
        /\ IF Push /\ p # "unbuilt"
             THEN \E s \in Sources : /\ IF channel = "apns" THEN AppleOpen(i, s)
                                                            ELSE GoogleOpen(i, s)
                                     /\ source' = [source EXCEPT ![a] = s]
             ELSE source' = [source EXCEPT ![a] = 0] /\ UNCHANGED tokenVars
  BY DEF Open
<1>2. /\ on' = [on EXCEPT ![a] = d] /\ token' = [token EXCEPT ![a] = 0]
      /\ identity' = [identity EXCEPT ![a] = i] /\ UNCHANGED <<channel, events, dead>>
  BY DEF Open, providers
<1>3. p \in {"unbuilt", "unfit", "fit"}
  <2>1. channel \in Channels /\ (i = Own) \in BOOLEAN
    BY DEF IInv, TypeOK
  <2>. QED  BY <1>1, <2>1, PreparationKinds
<1>4. /\ on' \in [Attempts -> Deliveries \cup {None}] /\ on'[a] = d
      /\ identity' \in [Attempts -> Identities \cup {None}] /\ identity'[a] = i
      /\ \A b \in Attempts \ {a} : on'[b] = on[b] /\ identity'[b] = identity[b]
  BY <1>2 DEF IInv, TypeOK
<1>5. /\ MintersInv' /\ Moves
      /\ \E s \in 0..opened' : source' = [source EXCEPT ![a] = s] /\ (Push /\ p # "unbuilt" => s \in Sources)
  <2>1. CASE Push /\ p # "unbuilt"
    <3>1. PICK s \in Sources : AppleOpen(i, s) /\ source' = [source EXCEPT ![a] = s]
      BY <1>1, <2>1 DEF GoogleOpen
    <3>2. MintersInv' /\ Moves /\ s \in 1..opened'
      BY <3>1, OpenMoves DEF IInv
    <3>3. s \in 0..opened'
      BY <3>2
    <3>. QED  BY <3>1, <3>2, <3>3, Zenon
  <2>2. CASE ~(Push /\ p # "unbuilt")
    <3>1. source' = [source EXCEPT ![a] = 0] /\ UNCHANGED tokenVars
      BY <1>1, <2>2
    <3>2. MintersInv' /\ Moves
      BY <3>1, StillMoves DEF IInv
    <3>3. 0 \in 0..opened'
      BY <3>2, TypesStay
    <3>. QED  BY <2>2, <3>1, <3>2, <3>3
  <2>. QED  BY <2>1, <2>2
<1>6. PICK s \in 0..opened' : source' = [source EXCEPT ![a] = s] /\ (Push /\ p # "unbuilt" => s \in Sources)
  BY <1>5
<1>7. /\ source' \in [Attempts -> 0..opened'] /\ source'[a] = s
      /\ \A b \in Attempts \ {a} : source'[b] = source[b]
  BY <1>5, <1>6, TypesStay
<1>8. /\ token' \in [Attempts -> 0..minted'] /\ token'[a] = 0
      /\ \A b \in Attempts \ {a} : token'[b] = token[b]
  BY <1>2, <1>5, TypesStay
<1>9. /\ at' \in [Attempts -> {"token", "call", "expire", "done"}]
      /\ fate' \in [Attempts -> Fates] /\ outcome' \in [Attempts -> Outcomes \cup {"none"}]
      /\ \A b \in Attempts \ {a} :
           at'[b] = at[b] /\ fate'[b] = fate[b] /\ outcome'[b] = outcome[b]
      /\ \/ p # "fit" /\ at'[a] = "done" /\ fate'[a] = p /\ outcome'[a] = "permanent"
         \/ p = "fit" /\ at'[a] = (IF Push THEN "token" ELSE "call")
  <2>1. CASE p # "fit"
    <3>1. Unasked(p) = "permanent" /\ p \in Fates /\ "permanent" \in Outcomes
      BY <1>3, <2>1 DEF Unasked, Fates, Outcomes, SendKinds
    <3>2. Report(a, p, "permanent")
      BY <1>1, <2>1, <3>1
    <3>. QED  BY <2>1, <3>1, <3>2, Reported
  <2>2. CASE p = "fit"
    <3>1. /\ at' = [at EXCEPT ![a] = IF Push THEN "token" ELSE "call"]
          /\ fate' = [fate EXCEPT ![a] = "none"] /\ outcome' = [outcome EXCEPT ![a] = "none"]
      BY <1>1, <2>2 DEF Goto
    <3>. QED  BY <2>2, <3>1 DEF IInv, TypeOK, Fates
  <2>. QED  BY <2>1, <2>2
<1>10. AttemptTypes'
  BY <1>2, <1>4, <1>7, <1>8, <1>9 DEF IInv, TypeOK, AttemptTypes
<1>11. Signs(a)' /\ Aimed(a)'
  BY <1>2, <1>3, <1>4, <1>6, <1>7, <1>8, <1>9 DEF Signs, Aimed, Push
<1>12. Tells(a)'
  BY <1>3, <1>9 DEF Tells, ReportedAs, Final
<1>13. Happened(a)' /\ EventsOfDeliveries' /\ events \subseteq events'
  <2>1. fate'[a] # "accepted"
    <3>1. p # "fit" => fate'[a] # "accepted"
      BY <1>3, <1>9
    <3>2. p = "fit" => fate'[a] = "none"
      BY <1>1 DEF IInv, TypeOK
    <3>. QED  BY <3>1, <3>2
  <2>. QED  BY <1>2, <2>1 DEF IInv, EventsOfDeliveries, Happened
<1>14. dead' \subseteq 1..minted' /\ DeadAreGone'
  BY <1>2, <1>5, DeadStay
<1>. QED  BY <1>2, <1>4, <1>5, <1>7, <1>8, <1>9, <1>10, <1>11, <1>12, <1>13, <1>14, OneAttempt

\* An attempt gets its token.
LEMMA TakeTokenStep ==
  ASSUME IInv, NEW a \in Attempts, TakeToken(a)
  PROVE  IInv'
<1>1. PICK t \in 1..MaxMinted : AppleToken(source[a], t) /\ token' = [token EXCEPT ![a] = t]
  BY DEF TakeToken, GoogleToken
<1>2. /\ at[a] = "token" /\ at' = [at EXCEPT ![a] = "call"]
      /\ UNCHANGED <<channel, identity, on, source, fate, outcome, events, dead>>
  BY DEF TakeToken, Goto, providers
<1>3. Push /\ source[a] \in Sources
  BY <1>2 DEF IInv, TokensComeFromSources, Signs
<1>4. MintersInv' /\ Moves /\ t \in 1..minted' /\ held'[source[a]] = t
  BY <1>1, <1>3, TokenMoves DEF IInv
<1>5. /\ token' \in [Attempts -> 0..minted'] /\ token'[a] = t
      /\ \A b \in Attempts \ {a} : token'[b] = token[b]
  BY <1>1, <1>4, TypesStay
<1>6. /\ at' \in [Attempts -> {"token", "call", "expire", "done"}] /\ at'[a] = "call"
      /\ \A b \in Attempts \ {a} : at'[b] = at[b]
  BY <1>2 DEF IInv, TypeOK
<1>7. source' \in [Attempts -> 0..opened']
  BY <1>2, <1>4, TypesStay
<1>8. AttemptTypes'
  BY <1>2, <1>5, <1>6, <1>7 DEF IInv, TypeOK, AttemptTypes
<1>9. Signs(a)' /\ Aimed(a)'
  <2>1. ASSUME NEW s \in Sources, held'[s] = t
        PROVE  s = source[a]
    BY <1>3, <1>4, <2>1 DEF MintersInv, TokensApart
  <2>2. t # 0
    BY <1>1
  <2>3. Aimed(a)'
    BY <1>2 DEF IInv, TokensComeFromSources, Aimed
  <2>. QED  BY <1>2, <1>3, <1>5, <1>6, <2>1, <2>2, <2>3 DEF Signs
<1>10. Tells(a)'
  BY <1>6 DEF Tells
<1>11. Happened(a)' /\ EventsOfDeliveries' /\ events \subseteq events'
  BY <1>2 DEF IInv, EventsOfDeliveries, TakenHaveEvents, Happened, HasEvent
<1>12. dead' \subseteq 1..minted' /\ DeadAreGone'
  BY <1>2, <1>4, DeadStay
<1>. QED  BY <1>2, <1>4, <1>5, <1>6, <1>8, <1>9, <1>10, <1>11, <1>12, OneAttempt

\* What an exchange that failed is worth.
LEMMA ExchangeKinds ==
  ASSUME NEW no \in BOOLEAN
  PROVE  /\ FCMTokenFailed(no) \in Outcomes
         /\ ReportedAs(IF no THEN "rejected" ELSE "lost", FCMTokenFailed(no))
<1>1. CASE no
  <2>1. FCMTokenFailed(no) = "permanent"
    BY <1>1, Zenon DEF FCMTokenFailed
  <2>2. (IF no THEN "rejected" ELSE "lost") = "rejected"
    BY <1>1, Zenon
  <2>. QED  BY <2>1, <2>2 DEF ReportedAs, Final, Outcomes, SendKinds
<1>2. CASE ~no
  <2>1. FCMTokenFailed(no) = "transient"
    BY <1>2, Zenon DEF FCMTokenFailed
  <2>2. (IF no THEN "rejected" ELSE "lost") = "lost"
    BY <1>2, Zenon
  <2>. QED  BY <2>1, <2>2 DEF ReportedAs, Final, Outcomes, SendKinds
<1>. QED  BY <1>1, <1>2

\* An attempt ends with a report that is true, and leaves everything else alone but the
\* minters and, if the provider took the message, its event.
LEMMA ReportStep ==
  ASSUME IInv, MintersInv', Moves, NEW a \in Attempts, NEW f \in Fates, NEW o \in Outcomes,
         Report(a, f, o), ReportedAs(f, o),
         UNCHANGED <<channel, identity, on, source, token, dead>>,
         EventsOfDeliveries', events \subseteq events',
         channel = "matrix" /\ f = "accepted" => HasEvent(identity[a], on[a])'
  PROVE  IInv'
<1>1. /\ at' \in [Attempts -> {"token", "call", "expire", "done"}]
      /\ fate' \in [Attempts -> Fates] /\ outcome' \in [Attempts -> Outcomes \cup {"none"}]
      /\ at'[a] = "done" /\ fate'[a] = f /\ outcome'[a] = o
      /\ \A b \in Attempts \ {a} :
           at'[b] = at[b] /\ fate'[b] = fate[b] /\ outcome'[b] = outcome[b]
  BY Reported
<1>2. AttemptTypes'
  BY <1>1, TypesStay DEF IInv, TypeOK, AttemptTypes
<1>3. Signs(a)'
  <2>1. Signs(a) /\ token[a] \in 0..minted /\ minted \in Nat
    BY Numbers DEF IInv, TypeOK, TokensComeFromSources
  <2>2. ASSUME NEW s \in Sources, token[a] # 0, held'[s] = token[a]
        PROVE  s = source[a]
    <3>1. held[s] = token[a]
      BY <2>1, <2>2 DEF Moves
    <3>. QED  BY <2>1, <2>2, <3>1 DEF Signs
  <2>. QED  BY <1>1, <2>2 DEF Signs
<1>4. Tells(a)'
  BY <1>1 DEF Tells, ReportedAs
<1>5. dead' \subseteq 1..minted' /\ DeadAreGone'
  BY DeadStay
<1>6. Aimed(a)' /\ Happened(a)'
  BY <1>1 DEF Aimed, Happened, HasEvent
<1>. QED  BY <1>1, <1>2, <1>3, <1>4, <1>5, <1>6, OneAttempt

\* Google gives no token.
LEMMA ExchangeFailsStep ==
  ASSUME IInv, NEW a \in Attempts, ExchangeFails(a)
  PROVE  IInv'
<1>1. PICK r \in ExchangeReplies :
        Report(a, IF GoogleRejected(r[1], r[2]) THEN "rejected" ELSE "lost",
               FCMTokenFailed(GoogleRejected(r[1], r[2])))
  BY DEF ExchangeFails
<1>2. /\ UNCHANGED <<channel, identity, on, source, token, dead, events>>
      /\ UNCHANGED tokenVars
  BY DEF ExchangeFails, providers
<1>3. PICK no \in BOOLEAN : no = GoogleRejected(r[1], r[2])
  BY DEF GoogleRejected
<1>4. PICK f : f = IF no THEN "rejected" ELSE "lost"
  OBVIOUS
<1>5. f \in Fates
  BY <1>4 DEF Fates
<1>6. Report(a, f, FCMTokenFailed(no))
  BY <1>1, <1>3, <1>4, Zenon
<1>7. FCMTokenFailed(no) \in Outcomes /\ ReportedAs(f, FCMTokenFailed(no))
  BY <1>4, ExchangeKinds, Zenon
<1>8. MintersInv' /\ Moves
  BY <1>2, StillMoves DEF IInv
<1>9. EventsOfDeliveries' /\ events \subseteq events' /\ f # "accepted"
  BY <1>2, <1>4 DEF IInv, EventsOfDeliveries
<1>. QED  BY <1>2, <1>5, <1>6, <1>7, <1>8, <1>9, ReportStep

\* The caller does not wait for Google any longer.
LEMMA GiveUpStep ==
  ASSUME IInv, NEW a \in Attempts, GiveUp(a)
  PROVE  IInv'
<1>1. /\ at[a] = "token" /\ GoogleGiveUp(source[a])
      /\ Report(a, "lost", FCMTokenFailed(FALSE))
      /\ UNCHANGED <<channel, identity, on, source, token, dead, events>>
  BY DEF GiveUp, providers
<1>2. source[a] \in Sources
  BY <1>1 DEF IInv, TokensComeFromSources, Signs
<1>3. /\ orphans[source[a]] < MaxOrphans
      /\ orphans' = [orphans EXCEPT ![source[a]] = @ + 1]
      /\ UNCHANGED <<sources, opened, drops, held, old, minted, made, excused>>
  BY <1>1 DEF GoogleGiveUp
<1>4. orphans' \in [Sources -> 0..MaxOrphans]
  BY <1>2, <1>3, Bounds DEF IInv, MintersInv, TokenTypeOK
<1>5. MintersInv' /\ Moves
  BY <1>3, <1>4, OrphansMove DEF IInv
<1>6. FCMTokenFailed(FALSE) = "transient"
  BY Zenon DEF FCMTokenFailed
<1>7. "lost" \in Fates /\ "transient" \in Outcomes /\ ReportedAs("lost", "transient")
  BY DEF Fates, Outcomes, SendKinds, ReportedAs, Final
<1>8. EventsOfDeliveries' /\ events \subseteq events'
  BY <1>1 DEF IInv, EventsOfDeliveries
<1>. QED  BY <1>1, <1>5, <1>6, <1>7, <1>8, ReportStep

\* A homeserver that accepts a message has an event of it: a new one, under the id of
\* its delivery, or the one it made before.
LEMMA AcceptMakes ==
  ASSUME IInv, NEW a \in Attempts, NEW f, at[a] = "call", Accept(a, f),
         UNCHANGED <<channel, identity, on>>
  PROVE  /\ EventsOfDeliveries' /\ events \subseteq events'
         /\ channel = "matrix" /\ f = "accepted" => HasEvent(identity[a], on[a])'
<1> DEFINE e == [by |-> identity[a], transaction |-> on[a], of |-> on[a]]
<1>1. on[a] \in Deliveries /\ identity[a] \in Identities
  BY DEF IInv, TokensComeFromSources, Aimed
<1>2. e \in [by : Identities, transaction : Deliveries, of : Deliveries]
      /\ e.by = identity[a] /\ e.of = on[a] /\ e.transaction = e.of
  BY <1>1
<1>3. CASE f = "accepted" /\ channel = "matrix" /\ ~Seen(a)
  <2>1. events' = events \cup {e}
    BY <1>3 DEF Accept, Transaction
  <2>2. HasEvent(identity[a], on[a])'
    BY <1>2, <2>1 DEF HasEvent
  <2>3. EventsOfDeliveries'
    <3>. HIDE DEF e
    <3>. QED  BY <1>2, <2>1 DEF EventsOfDeliveries, IInv
  <2>. QED  BY <2>1, <2>2, <2>3
<1>4. CASE ~(f = "accepted" /\ channel = "matrix" /\ ~Seen(a))
  <2>1. events' = events
    BY <1>4 DEF Accept
  <2>2. channel = "matrix" /\ f = "accepted" => HasEvent(identity[a], on[a])
    BY <1>4 DEF Seen, HasEvent, Transaction, IInv, EventsOfDeliveries
  <2>. QED  BY <2>1, <2>2 DEF HasEvent, IInv, EventsOfDeliveries
<1>. QED  BY <1>3, <1>4

\* The error of a connection that failed has a number of the address in it or none, and
\* is read as a refusal only if that one looks like one.
LEMMA LostMail ==
  ASSUME NEW text \in Texts("lost")
  PROVE  /\ EmailClassify(replyCode(text)) \in {"permanent", "transient"}
         /\ EmailClassify(replyCode(text)) = "permanent" => AddressNumbers \cap 500..599 # {}
<1>1. text = <<>> \/ \E n \in AddressNumbers : text = <<n>>
  BY DEF Texts
<1>2. CASE text = <<>>
  <2>1. replyCode(<<>>) = 0
    BY DEF replyCode
  <2>. QED  BY <1>2, <2>1 DEF EmailClassify
<1>3. ASSUME NEW n \in AddressNumbers, text = <<n>>
      PROVE  /\ EmailClassify(replyCode(text)) \in {"permanent", "transient"}
             /\ EmailClassify(replyCode(text)) = "permanent" => n \in 500..599
  <2>0. n \in Nat
    BY SendingAssumption
  <2>1. replyCode(text) = IF n \in 200..599 THEN n ELSE 0
    BY <1>3, <2>0, OneNumber
  <2>. QED  BY <2>0, <2>1 DEF EmailClassify
<1>. QED  BY <1>1, <1>2, <1>3

\* No answer comes.
LEMMA CallLostStep ==
  ASSUME IInv, NEW a \in Attempts, CallLost(a)
  PROVE  IInv'
<1>1. PICK f \in {"accepted", "lost"}, text \in Texts("lost") :
        /\ Accept(a, f)
        /\ Report(a, IF f = "lost" THEN "lost" ELSE "unheard",
                  IF channel = "email" THEN EmailClassify(replyCode(text)) ELSE "transient")
  BY DEF CallLost
<1>2. /\ UNCHANGED <<channel, identity, on, source, token, dead>> /\ UNCHANGED tokenVars
      /\ at[a] = "call"
  BY DEF CallLost
<1>3. PICK g : g = IF f = "lost" THEN "lost" ELSE "unheard"
  OBVIOUS
<1>4. PICK o : o = IF channel = "email" THEN EmailClassify(replyCode(text)) ELSE "transient"
  OBVIOUS
<1>5. Report(a, g, o)
  BY <1>1, <1>3, <1>4
<1>6. g \in {"lost", "unheard"} /\ o \in {"permanent", "transient"}
      /\ (o = "permanent" => channel = "email" /\ AddressNumbers \cap 500..599 # {})
  BY <1>3, <1>4, LostMail
<1>7. g \in Fates /\ o \in Outcomes /\ ReportedAs(g, o)
  BY <1>6 DEF Fates, Outcomes, SendKinds, ReportedAs, Final
<1>8. MintersInv' /\ Moves
  BY <1>2, StillMoves DEF IInv
<1>9. EventsOfDeliveries' /\ events \subseteq events' /\ g # "accepted"
  BY <1>1, <1>2, <1>6, AcceptMakes
<1>. QED  BY <1>2, <1>5, <1>7, <1>8, <1>9, ReportStep

\* An answer comes, and is read.
LEMMA CallStep ==
  ASSUME IInv, NEW a \in Attempts, Call(a)
  PROVE  IInv'
<1>1. PICK r \in Readings[channel] :
        /\ Accept(a, r.did)
        /\ fate' = [fate EXCEPT ![a] = r.fate] /\ outcome' = [outcome EXCEPT ![a] = r.outcome]
        /\ Goto(a, IF r.fate = "expired" THEN "expire" ELSE "done")
  BY DEF Call
<1>2. /\ UNCHANGED <<channel, identity, on, source, token, dead>> /\ UNCHANGED tokenVars
      /\ at[a] = "call"
  BY DEF Call
<1>3. PICK f, o : f = r.fate /\ o = r.outcome
  OBVIOUS
<1>4. /\ f \in Fates /\ o \in Outcomes /\ ReportedAs(f, o)
      /\ f = "expired" => Push
      /\ f = "accepted" => r.did = "accepted"
  <2>1. channel \in Channels
    BY DEF IInv, TypeOK
  <2>. QED  BY <1>3, <2>1, ReadingsAreTrue
<1>5. /\ fate' = [fate EXCEPT ![a] = f] /\ outcome' = [outcome EXCEPT ![a] = o]
      /\ at' = [at EXCEPT ![a] = IF f = "expired" THEN "expire" ELSE "done"]
  BY <1>1, <1>3 DEF Goto
<1>6. /\ at' \in [Attempts -> {"token", "call", "expire", "done"}]
      /\ fate' \in [Attempts -> Fates] /\ outcome' \in [Attempts -> Outcomes \cup {"none"}]
      /\ at'[a] = (IF f = "expired" THEN "expire" ELSE "done") /\ fate'[a] = f /\ outcome'[a] = o
      /\ \A b \in Attempts \ {a} :
           at'[b] = at[b] /\ fate'[b] = fate[b] /\ outcome'[b] = outcome[b]
  BY <1>4, <1>5 DEF IInv, TypeOK
<1>7. MintersInv' /\ Moves
  BY <1>2, StillMoves DEF IInv
<1>8. /\ EventsOfDeliveries' /\ events \subseteq events'
      /\ channel = "matrix" /\ f = "accepted" => HasEvent(identity[a], on[a])'
  BY <1>1, <1>2, <1>4, AcceptMakes
<1>9. AttemptTypes'
  BY <1>2, <1>6, <1>7, <1>8, TypesStay DEF IInv, TypeOK, AttemptTypes
<1>10. Signs(a)' /\ Aimed(a)'
  <2>1. Signs(a) /\ Aimed(a) /\ held' = held
    BY <1>2 DEF IInv, TokensComeFromSources, tokenVars
  <2>. QED  BY <1>2, <1>4, <1>6, <2>1 DEF Signs, Aimed, Push
<1>11. Tells(a)' /\ Happened(a)'
  BY <1>2, <1>4, <1>6, <1>8 DEF Tells, ReportedAs, Happened, HasEvent
<1>12. dead' \subseteq 1..minted' /\ DeadAreGone'
  BY <1>2, <1>7, DeadStay
<1>. QED  BY <1>2, <1>6, <1>7, <1>8, <1>9, <1>10, <1>11, <1>12, OneAttempt

\* A token was refused, and is thrown away: whichever it is, the refused one is then
\* held by nobody.
LEMMA HandleExpiredStep ==
  ASSUME IInv, NEW a \in Attempts, HandleExpired(a)
  PROVE  IInv'
<1>1. /\ at[a] = "expire" /\ Expire(source[a]) /\ dead' = dead \cup {token[a]}
      /\ at' = [at EXCEPT ![a] = "done"]
      /\ UNCHANGED <<channel, identity, on, source, token, fate, outcome, events>>
  BY DEF HandleExpired, Goto
<1>2. /\ Push /\ source[a] \in Sources /\ token[a] # 0
      /\ \A s \in Sources : held[s] = token[a] => s = source[a]
  BY <1>1 DEF IInv, TokensComeFromSources, Signs
<1>3. /\ MintersInv' /\ Moves /\ held' = [held EXCEPT ![source[a]] = 0]
      /\ UNCHANGED <<opened, minted>>
  BY <1>1, <1>2, ExpireMoves DEF IInv
<1>4. /\ held \in [Sources -> 0..minted] /\ minted \in Nat
      /\ token[a] \in 1..minted /\ dead \subseteq 1..minted
  BY <1>2, Numbers DEF IInv, TypeOK
<1>5. dead' \subseteq 1..minted'
  BY <1>1, <1>3, <1>4
<1>6. DeadAreGone'
  <2>1. ASSUME NEW s \in Sources
        PROVE  held'[s] \notin dead'
    <3>1. CASE s = source[a]
      <4>1. held'[s] = 0
        BY <1>2, <1>3, <1>4, <3>1
      <4>. QED  BY <1>3, <1>4, <1>5, <4>1
    <3>2. CASE s # source[a]
      <4>1. held'[s] = held[s]
        BY <1>2, <1>3, <1>4, <3>2
      <4>. QED  BY <1>1, <1>2, <3>2, <4>1 DEF IInv, DeadAreGone
    <3>. QED  BY <3>1, <3>2
  <2>. QED  BY <2>1 DEF DeadAreGone
<1>7. /\ at' \in [Attempts -> {"token", "call", "expire", "done"}] /\ at'[a] = "done"
      /\ \A b \in Attempts \ {a} : at'[b] = at[b]
  BY <1>1 DEF IInv, TypeOK
<1>8. AttemptTypes'
  BY <1>1, <1>3, <1>7, TypesStay DEF IInv, TypeOK, AttemptTypes
<1>9. Signs(a)' /\ Aimed(a)'
  <2>1. \A s \in Sources : held'[s] = token[a] => s = source[a]
    BY <1>2, <1>3, <1>4
  <2>. QED  BY <1>1, <1>7, <2>1 DEF Signs, Aimed
<1>10. Tells(a)'
  BY <1>1, <1>7 DEF IInv, ReportsAreTrue, Tells, ReportedAs
<1>11. Happened(a)' /\ EventsOfDeliveries' /\ events \subseteq events'
  BY <1>1 DEF IInv, EventsOfDeliveries, TakenHaveEvents, Happened, HasEvent
<1>. QED  BY <1>1, <1>3, <1>5, <1>6, <1>7, <1>8, <1>9, <1>10, <1>11, OneAttempt

\* A source's exchange ends, or its token ages: no attempt does anything.
LEMMA MintersStep ==
  ASSUME IInv, NEW s \in Sources, OrphanEnds(s) \/ Age(s),
         UNCHANGED <<channel, attempts, providers>>
  PROVE  IInv'
<1>1. MintersInv' /\ Moves
  BY OrphanEndMoves, AgeMoves DEF IInv
<1>. QED  BY <1>1, Untouched

\* Every step.
LEMMA NextHolds == IInv /\ [Next]_vars => IInv'
<1>. SUFFICES ASSUME IInv, [Next]_vars PROVE IInv'
  OBVIOUS
<1>1. ASSUME NEW a \in Attempts, NEW d \in Deliveries, NEW i \in Identities, Open(a, d, i)
      PROVE  IInv'
  BY <1>1, OpenStep
<1>2. ASSUME NEW a \in Attempts, TakeToken(a) PROVE IInv'
  BY <1>2, TakeTokenStep
<1>3. ASSUME NEW a \in Attempts, ExchangeFails(a) PROVE IInv'
  BY <1>3, ExchangeFailsStep
<1>4. ASSUME NEW a \in Attempts, GiveUp(a) PROVE IInv'
  BY <1>4, GiveUpStep
<1>5. ASSUME NEW a \in Attempts, Call(a) PROVE IInv'
  BY <1>5, CallStep
<1>6. ASSUME NEW a \in Attempts, CallLost(a) PROVE IInv'
  BY <1>6, CallLostStep
<1>7. ASSUME NEW a \in Attempts, HandleExpired(a) PROVE IInv'
  BY <1>7, HandleExpiredStep
<1>8. ASSUME NEW s \in Sources, OrphanEnds(s) \/ Age(s), UNCHANGED <<channel, attempts, providers>>
      PROVE  IInv'
  BY <1>8, MintersStep
<1>9. CASE UNCHANGED vars
  <2>1. UNCHANGED <<channel, attempts, providers>> /\ UNCHANGED tokenVars
    BY <1>9 DEF vars
  <2>2. MintersInv' /\ Moves
    BY <2>1, StillMoves DEF IInv
  <2>. QED  BY <2>1, <2>2, Untouched
<1>. QED  BY <1>1, <1>2, <1>3, <1>4, <1>5, <1>6, <1>7, <1>8, <1>9 DEF Next

-----------------------------------------------------------------------------
(* The theorems.                                                           *)

\* The inductive invariant holds in every state.
THEOREM Invariance == Spec => []IInv
BY InitHolds, NextHolds, PTL DEF Spec

\* Attempts, providers and minters are of their types; the map of sources is a function
\* within its cap (appleauth.Minter.Open, googleauth.Minter.Open).
THEOREM TypeCorrect == Spec => []TypeOK
<1>1. IInv => TypeOK
  BY DEF IInv
<1>. QED  BY <1>1, Invariance, PTL

\* On every channel and for whatever server mail is handed to, what Send reports is what
\* happened to the message; the one thing taken for a refusal that is none is a number
\* from 500 to 599 in the address of a mail server that did not answer (Send and classify
\* of every sender package, sender.Registry.For).
THEOREM OutcomesAreTrue == Spec => []OutcomeIsTrue
<1>1. IInv => OutcomeIsTrue
  BY DEF IInv, ReportsAreTrue, Tells, ReportedAs, OutcomeIsTrue, Misread, Unanswered
<1>. QED  BY <1>1, Invariance, PTL

\* However many attempts a delivery takes, whichever overlap, and as whomever they go
\* out: an account has at most one event of it, and has it if it was reported as sent
\* (matrix.Send, whose transaction is the delivery's).
THEOREM OneEventForEach == Spec => []OneEventPerAccount
<1>1. IInv => OneEventPerAccount
  <2>. SUFFICES ASSUME IInv PROVE OneEventPerAccount
    OBVIOUS
  <2>1. ASSUME NEW e \in events, NEW f \in events, e.by = f.by, e.of = f.of
        PROVE  e = f
    BY <2>1 DEF IInv, EventsOfDeliveries
  <2>2. ASSUME NEW a \in Attempts, channel = "matrix", at[a] = "done", outcome[a] = "sent"
        PROVE  \E e \in events : e.by = identity[a] /\ e.of = on[a]
    <3>1. fate[a] = "accepted"
      BY <2>2 DEF IInv, ReportsAreTrue, Tells, ReportedAs
    <3>. QED  BY <2>2, <3>1 DEF IInv, TakenHaveEvents, Happened, HasEvent
  <2>. QED  BY <2>1, <2>2 DEF OneEventPerAccount
<1>. QED  BY <1>1, Invariance, PTL

\* A source makes a token only for one that aged or was refused, and an identity gets a
\* second source only when the map was full (appleauth.Source.Token and Expire, Open).
THEOREM TokensAlwaysAccounted == Spec => []TokensAccountedFor
<1>1. IInv => TokensAccountedFor
  <2>. SUFFICES ASSUME IInv PROVE TokensAccountedFor
    OBVIOUS
  <2>1. ASSUME NEW s \in Sources
        PROVE  made[s] <= 1 + excused[s]
    <3>1. /\ made[s] <= excused[s] + (IF Good(s) THEN 1 ELSE 0)
          /\ MaxMinted \in Nat /\ MaxExcused \in Nat
          /\ made[s] \in 0..MaxMinted /\ excused[s] \in 0..MaxExcused
      BY Bounds DEF IInv, MintersInv, MadeWithReason, TokenTypeOK
    <3>. QED  BY <3>1
  <2>. QED  BY <2>1 DEF IInv, MintersInv, MapCounted, TokensAccountedFor
<1>. QED  BY <1>1, Invariance, PTL

\* No attempt presents a token that Apple refused as expired, once one attempt has
\* handled the refusal (appleauth.Source.Expire, which throws away whatever is held).
THEOREM RefusedNeverReused == Spec => RefusedTokenNotReused
<1>. DEFINE Fresh == \A a \in Attempts : token'[a] # token[a] => token'[a] \notin dead
<1>1. IInv /\ [Next]_vars => [Fresh]_vars
  <2>. SUFFICES ASSUME IInv, Next PROVE Fresh
    BY DEF Fresh
  <2>0. 0 \notin dead /\ minted + 1 \notin dead /\ token \in [Attempts -> 0..minted]
    BY Numbers DEF IInv, TypeOK
  <2>1. ASSUME NEW a \in Attempts, NEW d \in Deliveries, NEW i \in Identities, Open(a, d, i)
        PROVE  Fresh
    <3>1. token' = [token EXCEPT ![a] = 0]
      BY <2>1 DEF Open
    <3>. QED  BY <2>0, <3>1
  <2>2. ASSUME NEW a \in Attempts, TakeToken(a) PROVE Fresh
    <3>1. PICK t \in 1..MaxMinted : AppleToken(source[a], t) /\ token' = [token EXCEPT ![a] = t]
      BY <2>2 DEF TakeToken, GoogleToken
    <3>2. source[a] \in Sources
      BY <2>2 DEF IInv, TokensComeFromSources, Signs, TakeToken
    <3>3. t = held[source[a]] \/ t = minted + 1
      BY <3>1, <3>2, TokenMoves DEF IInv
    <3>4. t \notin dead
      BY <2>0, <3>2, <3>3 DEF IInv, DeadAreGone
    <3>. QED  BY <2>0, <3>1, <3>4
  <2>3. CASE token' = token
    BY <2>3
  <2>. QED  BY <2>1, <2>2, <2>3
            DEF Next, ExchangeFails, GiveUp, Call, CallLost, HandleExpired, attempts
<1>. QED  BY <1>1, Invariance, PTL DEF Spec, RefusedTokenNotReused
=============================================================================
