------------------------------- MODULE Tokens -------------------------------
(***************************************************************************)
(* The two minters: internal/infra/appleauth, which signs the tokens APNs  *)
(* is called with, and internal/infra/googleauth, which exchanges a        *)
(* service account for the ones FCM is.                                    *)
(*                                                                         *)
(* Both keep one source for each identity in a map of bounded size, and a  *)
(* source keeps its last token.  A source is an object: whoever opened it  *)
(* still has it when the map has dropped it.  Open, Token and Expire hold  *)
(* a mutex, and are one step each.  Tokens are numbered as they are made.  *)
(***************************************************************************)
EXTENDS Naturals, FiniteSets

CONSTANTS
  Identities,   \* settings and key of an identity: what the map is keyed by
  MaxCached,    \* maxCachedIdentities, maxCachedAccounts
  MaxSources,   \* bound: sources opened
  MaxMinted,    \* bound: tokens made
  MaxExcused,   \* bound: times a token of a source ages or is thrown away
  MaxOrphans    \* bound: exchanges of a source nobody waits for, at once

ASSUME TokenAssumption ==
  MaxCached \in Nat \ {0} /\ {MaxSources, MaxMinted, MaxExcused, MaxOrphans} \subseteq Nat

Sources == 1..MaxSources

VARIABLES
  sources,   \* the map, as a set of pairs of an identity and its source
  opened,    \* sources made so far
  drops,     \* times the map was cleared
  held,      \* of a source: its token, 0 for none
  old,       \* of a source: the token it holds is past its lifetime
  minted,    \* tokens made so far
  orphans,   \* of a source: exchanges nobody waits for any more
  made,      \* of a source: tokens it made, and ...
  excused    \* ... times its token aged or was thrown away

tokenVars == <<sources, opened, drops, held, old, minted, orphans, made, excused>>

TokenInit ==
  /\ sources = {} /\ opened = 0 /\ drops = 0 /\ minted = 0
  /\ held = [s \in Sources |-> 0] /\ old = [s \in Sources |-> FALSE]
  /\ orphans = [s \in Sources |-> 0]
  /\ made = [s \in Sources |-> 0] /\ excused = [s \in Sources |-> 0]

-----------------------------------------------------------------------------
(* Opening an identity.                                                    *)

InsertForever(i) == {<<i, opened + 1>>} \cup sources   \* mutant: no cap

Full == Cardinality(sources) >= MaxCached

\* Past the cap the whole map goes, not its oldest entry.
Insert(i) == {<<i, opened + 1>>} \cup (IF Full THEN {} ELSE sources)

\* appleauth.Minter.Open: the source s of i, made if the map has none.
AppleOpen(i, s) ==
  \/ /\ <<i, s>> \in sources
     /\ UNCHANGED tokenVars
  \/ /\ \A e \in sources : e[1] # i
     /\ s = opened + 1
     /\ opened' = s
     /\ sources' = Insert(i)
     /\ drops' = IF Full THEN drops + 1 ELSE drops
     /\ UNCHANGED <<held, old, minted, orphans, made, excused>>

\* googleauth.Minter.Open does the same over service accounts.
GoogleOpen(i, s) == AppleOpen(i, s)

-----------------------------------------------------------------------------
(* A token of a source.                                                    *)

Good(s) == held[s] # 0 /\ ~old[s]

\* A token is made and kept.
Make(s) ==
  /\ minted < MaxMinted
  /\ minted' = minted + 1
  /\ held' = [held EXCEPT ![s] = minted + 1]
  /\ old' = [old EXCEPT ![s] = FALSE]
  /\ made' = [made EXCEPT ![s] = @ + 1]

AppleTokenUnkept(s, t) ==   \* mutant: signed for each message
  /\ t = minted + 1 /\ Make(s)
  /\ UNCHANGED <<sources, opened, drops, orphans, excused>>

\* appleauth.Source.Token: t is the one held, or signed now.
AppleToken(s, t) ==
  \/ /\ Good(s) /\ t = held[s]
     /\ UNCHANGED tokenVars
  \/ /\ ~Good(s) /\ t = minted + 1
     /\ Make(s)
     /\ UNCHANGED <<sources, opened, drops, orphans, excused>>

ExpireOld(s) ==   \* mutant: only what we know to be old goes
  /\ excused[s] < MaxExcused
  /\ held' = [held EXCEPT ![s] = IF old[s] THEN 0 ELSE @]
  /\ old' = [old EXCEPT ![s] = FALSE]
  /\ excused' = [excused EXCEPT ![s] = @ + 1]
  /\ UNCHANGED <<sources, opened, drops, minted, orphans, made>>

\* appleauth.Source.Expire: whatever is held goes, the refused token or another.
Expire(s) ==
  /\ excused[s] < MaxExcused
  /\ held' = [held EXCEPT ![s] = 0]
  /\ old' = [old EXCEPT ![s] = FALSE]
  /\ excused' = [excused EXCEPT ![s] = @ + 1]
  /\ UNCHANGED <<sources, opened, drops, minted, orphans, made>>

\* googleauth.Source.Token while the caller waits: oauth2 hands out what it holds
\* or makes an exchange, one at a time for each source.
GoogleToken(s, t) == AppleToken(s, t)

\* ... and when the caller gives up, the exchange goes on without it.
GoogleGiveUp(s) ==
  /\ orphans[s] < MaxOrphans
  /\ orphans' = [orphans EXCEPT ![s] = @ + 1]
  /\ UNCHANGED <<sources, opened, drops, held, old, minted, made, excused>>

\* An exchange nobody waits for ends: for nothing, or with a token for the next.
OrphanEnds(s) ==
  /\ orphans[s] > 0
  /\ orphans' = [orphans EXCEPT ![s] = @ - 1]
  /\ \/ ~Good(s) /\ Make(s)
     \/ UNCHANGED <<minted, held, old, made>>
  /\ UNCHANGED <<sources, opened, drops, excused>>

\* Time: a token comes to the end of the lifetime it is handed out for.
Age(s) ==
  /\ Good(s)
  /\ excused[s] < MaxExcused
  /\ old' = [old EXCEPT ![s] = TRUE]
  /\ excused' = [excused EXCEPT ![s] = @ + 1]
  /\ UNCHANGED <<sources, opened, drops, held, minted, orphans, made>>

-----------------------------------------------------------------------------
\* The map is a function, within its cap, and the counters count.
TokenTypeOK ==
  /\ opened \in 0..MaxSources /\ drops \in Nat
  /\ sources \subseteq Identities \X (1..opened)
  /\ Cardinality(sources) <= MaxCached
  /\ Cardinality({e[1] : e \in sources}) = Cardinality(sources)
  /\ held \in [Sources -> 0..minted] /\ old \in [Sources -> BOOLEAN]
  /\ minted \in 0..MaxMinted /\ made \in [Sources -> 0..MaxMinted]
  /\ orphans \in [Sources -> 0..MaxOrphans] /\ excused \in [Sources -> 0..MaxExcused]

\* Apple counts the tokens it is shown, so a source makes one more only for one
\* that aged or was refused, however many attempts ask it at once; and an identity
\* gets a second source only when the map was full (Open: "a second source would
\* mean a second token where one was still good").
TokensAccountedFor ==
  /\ \A s \in Sources : made[s] <= 1 + excused[s]
  /\ opened = Cardinality(sources) + MaxCached * drops
=============================================================================
