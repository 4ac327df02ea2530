------------------------------ MODULE Answers ------------------------------
(***************************************************************************)
(* What each provider package under internal/adapter/sender makes of an   *)
(* identity's settings, of a message and of the provider's answer.         *)
(*                                                                         *)
(* Pure operators, one group for each channel:                             *)
(*   XNew(s)      the settings s, a set of flaws, make a sender            *)
(*   XUsable(r)   the address r can be put in a request                    *)
(*   XRefuses(m)  the message m, a set of traits, is turned down unasked   *)
(*   XClassify(a) what the refusal a means for another attempt             *)
(*   XSend(a)     what the answer a is reported as                         *)
(*                                                                         *)
(* An answer has the HTTP status; the provider's own error code; whether   *)
(* its body can be decoded and names the message it made; and, for mail,   *)
(* the numbers in the error text.                                          *)
(***************************************************************************)
EXTENDS Integers, Sequences

Channels == {"email", "telegram", "bale", "whatsapp", "matrix", "gotify", "fcm", "apns"}

\* An answer without a code, or one that cannot be read.
NoCode == "none"

\* What a send comes to: an id, or an error of one of the three kinds.
SendKinds == {"transient", "permanent", "unreachable"}

Outcomes == SendKinds \cup {"sent"}

Final(k) == k \in {"permanent", "unreachable"}

\* A 4xx is final, a 429 is not; nothing else is claimed to be final.
ByStatus(status) ==
  IF status \in 400..499 \ {429} THEN "permanent" ELSE "transient"

Success(status) == status \in 200..299

\* Most channels: a body that cannot be read says nothing, an error is classified,
\* and a success that does not name its message may well have been one.
Reading(a, failed, kind) ==
  CASE ~a.readable -> "transient"
    [] a.readable /\ failed -> kind
    [] a.readable /\ ~failed /\ ~a.named -> "transient"
    [] OTHER -> "sent"

-----------------------------------------------------------------------------
(* Addresses, by shape.                                                    *)

Shapes == {"mailbox", "@name", "number", "negative", "phone", "huge number", "hex token",
           "opaque token", "long hex", "room", "user id", "blank"}

\* The gateway's check.  A phone number, with its plus, is an int64 to ParseInt.
ValidateAddress(c, r) ==
  CASE c = "email"                 -> r = "mailbox"
    [] c \in {"telegram", "bale"}  -> r \in {"@name", "number", "negative", "phone"}
    [] c = "whatsapp"              -> r = "phone"
    [] c = "fcm"                   -> r \in {"hex token", "opaque token", "long hex"}
    [] c = "apns"                  -> r = "hex token"
    [] c = "matrix"                -> r = "room"
    [] c = "gotify"                -> r = "number"

-----------------------------------------------------------------------------
TelegramNew(s) == s \cap {"no secret", "strange secret", "bad json"} = {}

TelegramRefuses(m) == "long text" \in m

TelegramClassify(a) == IF a.status = 403 THEN "unreachable" ELSE ByStatus(a.status)

\* ok:false comes with a code here, whatever the code is.
TelegramSend(a) == Reading(a, a.code # NoCode \/ a.status # 200, TelegramClassify(a))

-----------------------------------------------------------------------------
BaleNew(s) == s \cap {"no secret", "strange secret", "bad json"} = {}

BaleRefuses(m) == "long text" \in m

BaleClassify(a) == IF a.status = 403 THEN "unreachable" ELSE ByStatus(a.status)

BaleSend(a) == Reading(a, a.code # NoCode \/ a.status # 200, BaleClassify(a))

-----------------------------------------------------------------------------
\* The homeserver is https, with a host, no user, no path.
MatrixConfig(s) == s \cap {"bad json", "no address", "bad address"} = {}

MatrixNew(s) == "no secret" \notin s /\ MatrixConfig(s)

MatrixUsable(r) == r # "blank"

\* A delivery always has an id, so the check for one is never met.
MatrixRefuses(m) == "long text" \in m

\* The homeserver's code leads, its status is for the rest.
MatrixClassify(a) ==
  CASE a.code \in {"M_FORBIDDEN", "M_NOT_FOUND"}         -> "unreachable"
    [] a.code \in {"M_UNKNOWN_TOKEN", "M_MISSING_TOKEN"} -> "permanent"
    [] a.code = "M_LIMIT_EXCEEDED"                       -> "transient"
    [] OTHER                                             -> ByStatus(a.status)

MatrixSend(a) == Reading(a, a.code # NoCode \/ ~Success(a.status), MatrixClassify(a))

-----------------------------------------------------------------------------
GotifyConfig(s) == s \cap {"bad json", "no address", "bad address", "unknown type"} = {}

GotifyNew(s) == "no secret" \notin s /\ GotifyConfig(s)

GotifyUsable(r) == r # "blank"

GotifyRefuses(m) == "long text" \in m

GotifyClassify(a) == ByStatus(a.status)

\* The status is believed even when the body of a refusal cannot be read.
GotifySend(a) ==
  IF ~Success(a.status) THEN GotifyClassify(a) ELSE Reading(a, FALSE, "transient")

-----------------------------------------------------------------------------
\* The account is opened before there is a sender: a key file of the right kind,
\* with a project, an address and an RSA key.
FCMNew(s) == s \cap {"no secret", "bad json", "wrong key"} = {}

FCMUsable(r) == r \in {"hex token", "opaque token", "long hex"}

\* The metadata becomes data, so none of its keys may be one of Google's.
FCMRefuses(m) == m \cap {"blank body", "long title", "long text", "reserved key"} # {}

FCMClassify(a) ==
  CASE a.code \in {"UNREGISTERED", "SENDER_ID_MISMATCH"}           -> "unreachable"
    [] a.code \in {"QUOTA_EXCEEDED", "UNAVAILABLE", "INTERNAL"} \/ a.status = 429
                                                                   -> "transient"
    [] a.code = "THIRD_PARTY_AUTH_ERROR"                           -> "permanent"
    [] OTHER                                                       -> ByStatus(a.status)

FCMSend(a) == Reading(a, a.code # NoCode \/ ~Success(a.status), FCMClassify(a))

\* What a failed exchange of the account for a token is worth: only Google saying
\* that the account itself is the problem is final, and not with a 5xx.
GoogleRejected(status, code) ==
  /\ status < 500
  /\ code \in {"invalid_grant", "invalid_client", "unauthorized_client", "invalid_scope",
               "access_denied"}

FCMTokenFailed(rejected) == IF rejected THEN "permanent" ELSE "transient"

-----------------------------------------------------------------------------
APNsConfig(s) == s \cap {"bad json", "no key id", "no team", "no topic", "unknown type"} = {}

\* A P-256 key in PKCS#8.
APNsNew(s) == s \cap {"no secret", "wrong key"} = {} /\ APNsConfig(s)

APNsUsable(r) == r = "hex token"

APNsRefuses(m) == m \cap {"blank body", "reserved key", "long text"} # {}

APNsClassify(a) ==
  CASE a.code \in {"BadDeviceToken", "Unregistered", "DeviceTokenNotForTopic"} -> "unreachable"
    [] a.code \in {"ExpiredProviderToken", "TooManyProviderTokenUpdates", "TooManyRequests",
                   "InternalServerError", "ServiceUnavailable"}                -> "transient"
    [] OTHER                                                                   -> ByStatus(a.status)

\* A refusal whose body cannot be read keeps its status and loses its reason.
Readable(a) == IF a.readable THEN a ELSE [a EXCEPT !.code = NoCode]

\* The id is in a header, so a success is not read at all.
APNsSend(a) ==
  CASE ~Success(a.status)            -> APNsClassify(Readable(a))
    [] Success(a.status) /\ ~a.named -> "transient"
    [] OTHER                         -> "sent"

-----------------------------------------------------------------------------
WhatsAppConfig(s) == s \cap {"bad json", "no number", "strange number"} = {}

WhatsAppNew(s) == "no secret" \notin s /\ WhatsAppConfig(s)

WhatsAppUsable(r) == r = "phone"

\* The length is the text's; a template has none.
WhatsAppRefuses(m) ==
  IF "template" \in m THEN "bad parameters" \in m ELSE "long text" \in m

WhatsAppStatusFirst(a) ==   \* mutant: the exceptions are asked after the rule
  IF a.status >= 400 THEN ByStatus(a.status)
  ELSE IF a.code \in {"131047", "131026"} THEN "unreachable" ELSE "transient"

\* Meta's rate limits come as a 400 too: these codes are the exceptions.
WhatsAppClassify(a) ==
  CASE a.code \in {"131047", "131026"} -> "unreachable"
    [] a.code \in {"130429", "131056"} -> "transient"
    [] OTHER                           -> ByStatus(a.status)

WhatsAppSend(a) == Reading(a, a.code # NoCode \/ ~Success(a.status), WhatsAppClassify(a))

-----------------------------------------------------------------------------
EmailConfig(s) == s \cap {"bad json", "no from", "unknown type"} = {}

\* Dialer.Open tells a host, a port and a password from none.
DialerOpen(s) == s \cap {"no address", "bad address", "no secret"} = {}

EmailNew(s) == EmailConfig(s) /\ DialerOpen(s)

EmailUsable(r) == r = "mailbox"

\* The first number in the text of three digits that could be a reply; 0 for none.
replyCode(text) ==
  LET codes == {i \in DOMAIN text : text[i] \in 200..599}
  IN  IF codes = {} THEN 0 ELSE text[CHOOSE i \in codes : \A j \in codes : i <= j]

EmailClassify(code) == IF code >= 500 THEN "permanent" ELSE "transient"

\* The client's own error, or the Message-ID the mail went out with.
EmailSend(a) == IF a.named THEN "sent" ELSE EmailClassify(replyCode(a.text))

-----------------------------------------------------------------------------
(* sender.Registry: a channel becomes a provider in one place.             *)

Build(c, s) ==
  CASE c = "telegram" -> TelegramNew(s)
    [] c = "bale"     -> BaleNew(s)
    [] c = "email"    -> EmailNew(s)
    [] c = "matrix"   -> MatrixNew(s)
    [] c = "gotify"   -> GotifyNew(s)
    [] c = "whatsapp" -> WhatsAppNew(s)
    [] c = "fcm"      -> FCMNew(s)
    [] c = "apns"     -> APNsNew(s)

\* The service's own identity, when there is one on this channel.
Ours(c, s) == "not configured" \notin s /\ Build(c, s)

\* delivery.Sender, by channel.
Usable(c, r) ==
  CASE c \in {"telegram", "bale"} -> TRUE
    [] c = "email"    -> EmailUsable(r)
    [] c = "matrix"   -> MatrixUsable(r)
    [] c = "gotify"   -> GotifyUsable(r)
    [] c = "whatsapp" -> WhatsAppUsable(r)
    [] c = "fcm"      -> FCMUsable(r)
    [] c = "apns"     -> APNsUsable(r)

Refuses(c, m) ==
  CASE c = "telegram" -> TelegramRefuses(m)
    [] c = "bale"     -> BaleRefuses(m)
    [] c = "email"    -> FALSE
    [] c = "matrix"   -> MatrixRefuses(m)
    [] c = "gotify"   -> GotifyRefuses(m)
    [] c = "whatsapp" -> WhatsAppRefuses(m)
    [] c = "fcm"      -> FCMRefuses(m)
    [] c = "apns"     -> APNsRefuses(m)

Send(c, a) ==
  CASE c = "telegram" -> TelegramSend(a)
    [] c = "bale"     -> BaleSend(a)
    [] c = "email"    -> EmailSend(a)
    [] c = "matrix"   -> MatrixSend(a)
    [] c = "gotify"   -> GotifySend(a)
    [] c = "whatsapp" -> WhatsAppSend(a)
    [] c = "fcm"      -> FCMSend(a)
    [] c = "apns"     -> APNsSend(a)
=============================================================================
