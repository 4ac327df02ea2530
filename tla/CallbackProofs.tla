--------------------------- MODULE CallbackProofs ---------------------------
(***************************************************************************)
(* Proofs about Callback, for any number of API requests, announcements,   *)
(* addresses and secrets, and any limit the configuration accepts.         *)
(***************************************************************************)
EXTENDS Callback, TLAPS

-----------------------------------------------------------------------------
(* The inductive invariant.                                                *)

\* A request holds the address it was asked for, and one past the first reading of
\* a row has one under it: rows are never deleted.
RequestsGrounded ==
  \A c \in Callers :
    /\ pc[c] \in {"read", "create", "redirect"} => want[c] \in Urls
    /\ pc[c] \in {"redirect", "issue", "rotate"} => Exists

\* An announcement has read a row.
WorkersGrounded == \A w \in Workers : at[w] # "idle" => Exists

\* The secret there is now is one of those stored since an announcement read the row.
SealedSince == \A w \in Calling : secret \in sealed[w]

IInv ==
  /\ TypeOK /\ RequestsGrounded /\ WorkersGrounded /\ SealedSince
  /\ CallsAsRegistered /\ DeadIsSwitchedOff

-----------------------------------------------------------------------------
LEMMA InitInv == Init => IInv
<1>. SUFFICES ASSUME Init PROVE IInv
  OBVIOUS
<1>1. RowTypeOK
  <2>1. active \in BOOLEAN /\ ~active
    BY Zenon DEF Init
  <2>. QED  BY <2>1, CallbackAssumption DEF Init, RowTypeOK, Addresses, Nobody
<1>2. CallsTypeOK /\ WorkTypeOK
  BY CallbackAssumption DEF Init, CallsTypeOK, WorkTypeOK, Addresses, Nobody
<1>3. KnowledgeTypeOK
  <2>1. unheard \in BOOLEAN
    BY Zenon DEF Init
  <2>. QED  BY <2>1, CallbackAssumption DEF Init, KnowledgeTypeOK, Addresses, Nobody
<1>4. RequestsGrounded /\ WorkersGrounded
  BY DEF Init, RequestsGrounded, WorkersGrounded
<1>5. SealedSince /\ CallsAsRegistered
  BY DEF Init, SealedSince, Calling, CallsAsRegistered
<1>6. DeadIsSwitchedOff
  BY Zenon DEF Init, DeadIsSwitchedOff
<1>. QED  BY <1>1, <1>2, <1>3, <1>4, <1>5, <1>6 DEF IInv, TypeOK

-----------------------------------------------------------------------------
(* What Return, Registered and Leave do to the one they are about.         *)

LEMMA ReturnType ==
  ASSUME CallsTypeOK, NEW c \in Callers, Return(c)
  PROVE  /\ CallsTypeOK'
         /\ \A d \in Callers : pc'[d] # "idle" => pc'[d] = pc[d] /\ want'[d] = want[d]
BY DEF CallsTypeOK, Return, Addresses

LEMMA RegisteredType ==
  ASSUME CallsTypeOK, NEW c \in Callers, Registered(c)
  PROVE  /\ CallsTypeOK'
         /\ \A d \in Callers : pc'[d] # "idle" =>
              want'[d] = want[d] /\ (pc'[d] = pc[d] \/ pc'[d] = "issue")
<1>1. CASE Return(c)
  BY <1>1, ReturnType
<1>2. CASE pc' = [pc EXCEPT ![c] = "issue"] /\ UNCHANGED <<want, found>>
  BY <1>2 DEF CallsTypeOK
<1>. QED  BY <1>1, <1>2 DEF Registered

LEMMA LeaveType ==
  ASSUME WorkTypeOK, NEW w \in Workers, Leave(w)
  PROVE  /\ WorkTypeOK'
         /\ \A v \in Workers : v # w => at'[v] = at[v]
         /\ at'[w] = "idle"
BY CallbackAssumption DEF WorkTypeOK, Leave, Goto, Addresses, Nobody

\* Announcements that neither start nor read anything new keep what is known of them.
LEMMA KeptKnown ==
  ASSUME WorkTypeOK, SealedSince, CallsAsRegistered, UNCHANGED <<url, secret, asked>>,
         \A w \in Workers : at'[w] \in {"sign", "call"} =>
           at'[w] = at[w] /\ UNCHANGED <<seen[w], signed[w], stood[w], sealed[w]>>
  PROVE  SealedSince' /\ CallsAsRegistered'
BY DEF SealedSince, CallsAsRegistered, Calling

LEMMA LeftKnown ==
  ASSUME WorkTypeOK, SealedSince, CallsAsRegistered, NEW w \in Workers, Leave(w),
         UNCHANGED <<url, secret, asked, stood, sealed>>
  PROVE  SealedSince' /\ CallsAsRegistered'
<1>1. \A v \in Workers : at'[v] # "idle" => UNCHANGED <<at[v], seen[v], signed[v]>>
  BY DEF Leave, Goto, WorkTypeOK
<1>. QED  BY <1>1, KeptKnown

\* Called clears what is known of one announcement.
LEMMA CalledType ==
  ASSUME KnowledgeTypeOK, NEW w \in Workers, Called(w)
  PROVE  /\ stood' \in [Workers -> SUBSET Addresses]
         /\ sealed' \in [Workers -> SUBSET (0..MaxSecrets)]
         /\ \A v \in Workers : v # w => UNCHANGED <<stood[v], sealed[v]>>
BY DEF KnowledgeTypeOK, Called

-----------------------------------------------------------------------------
(* A step of an API request.                                               *)

\* A step that writes no more than a request's own locals.
LEMMA OnlyTheRequest ==
  ASSUME IInv, UNCHANGED <<row, work, history, since>>, CallsTypeOK', RequestsGrounded'
  PROVE  IInv'
<1>. USE DEF IInv, TypeOK, row, work, history, since
<1>1. RowTypeOK' /\ WorkTypeOK' /\ KnowledgeTypeOK'
  BY DEF RowTypeOK, WorkTypeOK, KnowledgeTypeOK, Exists
<1>2. WorkersGrounded' /\ DeadIsSwitchedOff'
  BY DEF WorkersGrounded, DeadIsSwitchedOff, Exists
<1>3. SealedSince' /\ CallsAsRegistered'
  BY KeptKnown
<1>. QED  BY <1>1, <1>2, <1>3

LEMMA RegisterStep ==
  ASSUME IInv, NEW c \in Callers, NEW u \in Urls, Register(c, u)
  PROVE  IInv'
<1>1. CallsTypeOK' /\ RequestsGrounded'
  BY DEF IInv, TypeOK, Register, CallsTypeOK, RequestsGrounded, row, Exists, Addresses
<1>. QED  BY <1>1, OnlyTheRequest DEF Register

LEMMA ReadStep ==
  ASSUME IInv, NEW c \in Callers, Read(c) \/ Rotate(c)
  PROVE  IInv'
<1>1. CallsTypeOK' /\ RequestsGrounded'
  BY DEF IInv, TypeOK, Read, Rotate, CallsTypeOK, RequestsGrounded, row, Exists
<1>. QED  BY <1>1, OnlyTheRequest DEF Read, Rotate

LEMMA CallFailsStep ==
  ASSUME IInv, NEW c \in Callers, CallFails(c)
  PROVE  IInv'
<1>1. CallsTypeOK' /\ RequestsGrounded'
  BY ReturnType DEF IInv, TypeOK, CallFails, RequestsGrounded, row, Exists
<1>. QED  BY <1>1, OnlyTheRequest DEF CallFails

\* The row gets the address of c, is switched on and has failed at nothing.
LEMMA AddressWritten ==
  ASSUME IInv, NEW c \in Callers, want[c] \in Urls, Registered(c),
         Stands(c), failures' = 0, unheard' \in {unheard, FALSE},
         UNCHANGED <<secret, work, minted, sealed>>
  PROVE  IInv'
<1>. USE CallbackAssumption DEF IInv, TypeOK, Stands
<1>1. Exists'
  BY DEF Exists
<1>2. CallsTypeOK' /\ RequestsGrounded'
  BY <1>1, RegisteredType DEF RequestsGrounded
<1>3. RowTypeOK'
  <2>1. active' \in BOOLEAN
    OBVIOUS
  <2>. QED  BY <1>1, <2>1 DEF RowTypeOK, Addresses
<1>4. WorkTypeOK' /\ WorkersGrounded'
  BY <1>1 DEF WorkTypeOK, WorkersGrounded, work
<1>5. KnowledgeTypeOK'
  <2>1. unheard' \in BOOLEAN
    BY Zenon DEF KnowledgeTypeOK
  <2>. QED  BY <2>1 DEF KnowledgeTypeOK, Addresses
<1>6. SealedSince' /\ CallsAsRegistered'
  <2>1. Calling' = Calling
    BY DEF Calling, work
  <2>2. \A w \in Calling : stood'[w] = stood[w] \cup {want[c]}
    BY DEF Calling
  <2>. QED  BY <2>1, <2>2 DEF SealedSince, CallsAsRegistered, work
<1>7. DeadIsSwitchedOff'
  <2>1. ~(failures' >= MaxFailures)
    OBVIOUS
  <2>. QED  BY <2>1, Zenon DEF DeadIsSwitchedOff
<1>. QED  BY <1>2, <1>3, <1>4, <1>5, <1>6, <1>7

LEMMA CreateStep ==
  ASSUME IInv, NEW c \in Callers, Create(c)
  PROVE  IInv'
<1>1. CASE Exists /\ Return(c) /\ UNCHANGED <<row, asked, stood>>
  <2>1. CallsTypeOK' /\ RequestsGrounded'
    BY <1>1, ReturnType DEF IInv, TypeOK, RequestsGrounded, row, Exists
  <2>. QED  BY <1>1, <2>1, OnlyTheRequest DEF Create, history, since
<1>2. CASE ~Exists /\ Stands(c) /\ failures' = 0 /\ Registered(c) /\ UNCHANGED secret
  <2>1. want[c] \in Urls
    BY DEF Create, IInv, RequestsGrounded
  <2>. QED  BY <1>2, <2>1, AddressWritten DEF Create
<1>. QED  BY <1>1, <1>2 DEF Create

LEMMA RedirectStep ==
  ASSUME IInv, NEW c \in Callers, Redirect(c)
  PROVE  IInv'
<1>1. want[c] \in Urls
  BY DEF Redirect, IInv, RequestsGrounded
<1>. QED  BY <1>1, AddressWritten DEF Redirect

LEMMA IssueStep ==
  ASSUME IInv, NEW c \in Callers, Issue(c)
  PROVE  IInv'
<1>. USE CallbackAssumption DEF IInv, TypeOK
<1>1. Exists /\ Exists'
  BY DEF Issue, RequestsGrounded, Exists
<1>2. CallsTypeOK' /\ RequestsGrounded'
  BY <1>1, ReturnType DEF Issue, RequestsGrounded
<1>3. minted + 1 \in 1..MaxSecrets
  BY DEF Issue, KnowledgeTypeOK
<1>4. RowTypeOK'
  BY <1>1, <1>3 DEF Issue, RowTypeOK
<1>5. WorkTypeOK' /\ WorkersGrounded'
  BY <1>1 DEF Issue, WorkTypeOK, WorkersGrounded, work
<1>6. sealed' \in [Workers -> SUBSET (0..MaxSecrets)]
  BY <1>3 DEF Issue, KnowledgeTypeOK
<1>7. KnowledgeTypeOK'
  <2>1. unheard' \in BOOLEAN
    BY Zenon DEF Issue, KnowledgeTypeOK
  <2>. QED  BY <1>3, <1>6, <2>1 DEF Issue, KnowledgeTypeOK
<1>8. Calling' = Calling /\ \A w \in Calling : sealed'[w] = sealed[w] \cup {minted + 1}
  BY DEF Issue, Calling, work
<1>9. SealedSince' /\ CallsAsRegistered'
  BY <1>8 DEF Issue, SealedSince, CallsAsRegistered, Calling, work
<1>10. DeadIsSwitchedOff'
  BY DEF Issue, DeadIsSwitchedOff, work
<1>. QED  BY <1>2, <1>4, <1>5, <1>7, <1>9, <1>10

-----------------------------------------------------------------------------
(* A step of the source's switch and of an announcement.                   *)

LEMMA SetActiveStep ==
  ASSUME IInv, NEW on \in BOOLEAN, SetActive(on), on => Exists,
         UNCHANGED <<calls, asked, minted, since>>,
         WorkTypeOK', WorkersGrounded',
         \A w \in Workers : at'[w] = "idle" \/ UNCHANGED <<at[w], seen[w], signed[w]>>,
         on => UNCHANGED at
  PROVE  IInv'
<1>. USE CallbackAssumption DEF IInv, TypeOK
<1>1. Exists' <=> Exists
  BY DEF SetActive, Exists
<1>2. CallsTypeOK' /\ RequestsGrounded'
  BY <1>1 DEF CallsTypeOK, RequestsGrounded, calls
<1>3. active' = on /\ active' \in BOOLEAN /\ unheard' \in BOOLEAN
  BY Zenon DEF SetActive, KnowledgeTypeOK
<1>4. RowTypeOK'
  <2>1. failures' \in {0, failures}
    BY DEF SetActive
  <2>2. ~Exists => ~active'
    BY <1>3
  <2>. QED  BY <1>1, <1>3, <2>1, <2>2 DEF SetActive, RowTypeOK
<1>5. KnowledgeTypeOK'
  BY <1>3 DEF KnowledgeTypeOK, since
<1>6. SealedSince' /\ CallsAsRegistered'
  BY KeptKnown DEF SetActive, since
<1>7. DeadIsSwitchedOff'
  <2>1. CASE ~on
    BY <1>3, <2>1 DEF DeadIsSwitchedOff
  <2>2. CASE on /\ ~active
    <3>1. failures' = 0
      BY <2>2 DEF SetActive
    <3>2. ~(failures' >= MaxFailures)
      BY <3>1
    <3>. QED  BY <3>2, Zenon DEF DeadIsSwitchedOff
  <2>3. CASE on /\ active
    <3>1. failures' = failures /\ at' = at /\ (unheard => unheard')
      BY <2>3 DEF SetActive
    <3>. QED  BY <2>3, <3>1, Zenon DEF DeadIsSwitchedOff
  <2>. QED  BY <2>1, <2>2, <2>3
<1>. QED  BY <1>2, <1>4, <1>5, <1>6, <1>7

LEMMA SwitchStep ==
  ASSUME IInv, NEW on \in BOOLEAN, Switch(on)
  PROVE  IInv'
<1>1. WorkTypeOK' /\ WorkersGrounded' /\ UNCHANGED <<at, seen, signed>>
  BY DEF IInv, TypeOK, Switch, SetActive, work, WorkTypeOK, WorkersGrounded, Exists
<1>. QED  BY <1>1, SetActiveStep DEF Switch

LEMMA DeactivateStep ==
  ASSUME IInv, NEW w \in Workers, Deactivate(w)
  PROVE  IInv'
<1>1. WorkTypeOK' /\ WorkersGrounded'
  BY LeaveType DEF IInv, TypeOK, Deactivate, SetActive, WorkersGrounded, Exists
<1>2. \A v \in Workers : at'[v] = "idle" \/ UNCHANGED <<at[v], seen[v], signed[v]>>
  BY DEF IInv, TypeOK, WorkTypeOK, Deactivate, Leave, Goto
<1>3. SetActive(FALSE) /\ UNCHANGED <<calls, asked, minted, since>>
  BY DEF Deactivate
<1>. QED  BY <1>1, <1>2, <1>3, SetActiveStep

\* A step of an announcement that leaves the row and what the source knows alone.
LEMMA OnlyTheWorker ==
  ASSUME IInv, UNCHANGED <<row, calls, history>>,
         WorkTypeOK', WorkersGrounded', SealedSince', CallsAsRegistered',
         stood' \in [Workers -> SUBSET Addresses],
         sealed' \in [Workers -> SUBSET (0..MaxSecrets)],
         \A v \in Workers : at[v] = "deactivate" => at'[v] = "deactivate"
  PROVE  IInv'
<1>. USE DEF IInv, TypeOK
<1>1. RowTypeOK' /\ CallsTypeOK' /\ RequestsGrounded'
  BY DEF RowTypeOK, CallsTypeOK, RequestsGrounded, Exists, row, calls
<1>2. KnowledgeTypeOK'
  BY DEF KnowledgeTypeOK, history
<1>3. DeadIsSwitchedOff'
  BY DEF DeadIsSwitchedOff, row, history
<1>. QED  BY <1>1, <1>2, <1>3

LEMMA AnnounceStep ==
  ASSUME IInv, NEW w \in Workers, Announce(w)
  PROVE  IInv'
<1>. USE DEF IInv, TypeOK
<1>1. WorkTypeOK' /\ WorkersGrounded'
  BY DEF Announce, Goto, row, RowTypeOK, WorkTypeOK, WorkersGrounded, Exists
<1>2. /\ stood' \in [Workers -> SUBSET Addresses]
      /\ sealed' \in [Workers -> SUBSET (0..MaxSecrets)]
  BY DEF Announce, KnowledgeTypeOK, RowTypeOK
<1>3. seen'[w] = url /\ stood'[w] = {asked} /\ sealed'[w] = {secret} /\ at'[w] = "sign"
  BY DEF Announce, Goto, WorkTypeOK, KnowledgeTypeOK
<1>4. \A v \in Workers : v # w =>
        UNCHANGED <<at[v], seen[v], signed[v], stood[v], sealed[v]>>
  BY DEF Announce, Goto, WorkTypeOK, KnowledgeTypeOK
<1>5. SealedSince'
  BY <1>3, <1>4 DEF Announce, row, SealedSince, Calling
<1>6. CallsAsRegistered'
  BY <1>3, <1>4 DEF Announce, row, history, CallsAsRegistered, Calling
<1>7. \A v \in Workers : at[v] = "deactivate" => at'[v] = "deactivate"
  BY DEF WorkTypeOK, Announce, Goto
<1>. QED  BY <1>1, <1>2, <1>5, <1>6, <1>7, OnlyTheWorker DEF Announce

LEMMA SignStep ==
  ASSUME IInv, NEW w \in Workers, Sign(w)
  PROVE  IInv'
<1>. USE DEF IInv, TypeOK
<1>1. WorkTypeOK' /\ WorkersGrounded'
  BY DEF Sign, Goto, row, RowTypeOK, WorkTypeOK, WorkersGrounded, Exists
<1>2. \A v \in Workers : at[v] = "deactivate" => at'[v] = "deactivate"
  BY DEF WorkTypeOK, Sign, Goto
<1>3. \A v \in Workers : v # w => UNCHANGED <<at[v], seen[v], signed[v]>>
  BY DEF Sign, Goto, WorkTypeOK
<1>4. CASE secret # Nobody /\ signed' = [signed EXCEPT ![w] = secret] /\ Goto(w, "call")
           /\ UNCHANGED since
  <2>1. /\ stood' \in [Workers -> SUBSET Addresses]
        /\ sealed' \in [Workers -> SUBSET (0..MaxSecrets)]
    BY <1>4 DEF KnowledgeTypeOK, since
  <2>2. at'[w] = "call" /\ signed'[w] = secret /\ secret \in sealed[w] /\ seen[w] \in stood[w]
    BY <1>4 DEF Sign, Goto, WorkTypeOK, SealedSince, CallsAsRegistered, Calling
  <2>3. SealedSince' /\ CallsAsRegistered'
    BY <1>3, <1>4, <2>2 DEF Sign, row, history, since, SealedSince, CallsAsRegistered, Calling
  <2>. QED  BY <1>1, <1>2, <2>1, <2>3, OnlyTheWorker DEF Sign
<1>5. CASE Goto(w, "failure") /\ Called(w) /\ UNCHANGED signed
  <2>1. at'[w] = "failure"
    BY <1>5 DEF Goto, WorkTypeOK
  <2>2. SealedSince' /\ CallsAsRegistered'
    BY <1>3, <1>5, <2>1, CalledType, KeptKnown DEF Sign, row, history
  <2>. QED  BY <1>1, <1>2, <1>5, <2>2, CalledType, OnlyTheWorker DEF Sign
<1>. QED  BY <1>4, <1>5 DEF Sign

LEMMA NotifyStep ==
  ASSUME IInv, NEW w \in Workers, Notify(w)
  PROVE  IInv'
<1>. USE DEF IInv, TypeOK
<1>1. WorkTypeOK' /\ WorkersGrounded'
  BY DEF Notify, Goto, row, WorkTypeOK, WorkersGrounded, Exists
<1>2. \A v \in Workers : at[v] = "deactivate" => at'[v] = "deactivate"
  BY DEF WorkTypeOK, Notify, Goto
<1>3. /\ \A v \in Workers : v # w => UNCHANGED <<at[v], seen[v], signed[v]>>
      /\ at'[w] \in {"success", "failure"}
  BY DEF Notify, Goto, WorkTypeOK
<1>4. SealedSince' /\ CallsAsRegistered'
  BY <1>3, CalledType, KeptKnown DEF Notify, row, history
<1>. QED  BY <1>1, <1>2, <1>4, CalledType, OnlyTheWorker DEF Notify

LEMMA RecordSuccessStep ==
  ASSUME IInv, NEW w \in Workers, RecordSuccess(w)
  PROVE  IInv'
<1>. USE CallbackAssumption DEF IInv, TypeOK
<1>1. WorkTypeOK' /\ WorkersGrounded'
  BY LeaveType DEF RecordSuccess, WorkersGrounded, Exists
<1>2. RowTypeOK' /\ CallsTypeOK' /\ RequestsGrounded'
  BY DEF RecordSuccess, RowTypeOK, CallsTypeOK, RequestsGrounded, Exists, calls
<1>3. unheard' \in BOOLEAN
  BY Zenon DEF RecordSuccess
<1>4. KnowledgeTypeOK'
  BY <1>3 DEF RecordSuccess, KnowledgeTypeOK, since
<1>6. SealedSince' /\ CallsAsRegistered'
  BY LeftKnown DEF RecordSuccess, since
<1>5. DeadIsSwitchedOff'
  <2>1. ~(failures' >= MaxFailures)
    BY DEF RecordSuccess
  <2>. QED  BY <2>1, Zenon DEF DeadIsSwitchedOff
<1>. QED  BY <1>1, <1>2, <1>4, <1>5, <1>6

LEMMA RecordFailureStep ==
  ASSUME IInv, NEW w \in Workers, RecordFailure(w)
  PROVE  IInv'
<1>. USE CallbackAssumption DEF IInv, TypeOK
<1>1. Exists
  BY DEF RecordFailure, WorkersGrounded
<1>2. WorkTypeOK' /\ \A v \in Workers : v # w => at'[v] = at[v]
  <2>1. CASE Leave(w)
    BY <2>1, LeaveType
  <2>2. CASE Goto(w, "deactivate") /\ UNCHANGED <<seen, signed>>
    BY <2>2 DEF Goto, WorkTypeOK
  <2>. QED  BY <2>1, <2>2 DEF RecordFailure
<1>3. WorkersGrounded'
  BY <1>1 DEF RecordFailure, WorkersGrounded, Exists
<1>4. RowTypeOK' /\ CallsTypeOK' /\ RequestsGrounded'
  BY <1>1 DEF RecordFailure, RowTypeOK, CallsTypeOK, RequestsGrounded, Exists, calls
<1>5. KnowledgeTypeOK'
  BY DEF RecordFailure, KnowledgeTypeOK, history, since
<1>7. SealedSince' /\ CallsAsRegistered'
  <2>1. CASE Leave(w)
    BY <2>1, LeftKnown DEF RecordFailure, since, history
  <2>2. CASE Goto(w, "deactivate") /\ UNCHANGED <<seen, signed>>
    <3>1. \A v \in Workers : at'[v] \in {"sign", "call"} => at'[v] = at[v]
      BY <2>2 DEF Goto, WorkTypeOK
    <3>. QED  BY <2>2, <3>1, KeptKnown DEF RecordFailure, since, history
  <2>. QED  BY <2>1, <2>2 DEF RecordFailure
<1>6. DeadIsSwitchedOff'
  <2>1. CASE Limit(failures + 1)
    <3>1. at'[w] = "deactivate"
      BY <2>1 DEF RecordFailure, Goto, WorkTypeOK
    <3>. QED  BY <3>1 DEF DeadIsSwitchedOff
  <2>2. CASE ~Limit(failures + 1)
    <3>1. ~(failures' >= MaxFailures)
      BY <2>2 DEF RecordFailure, Limit
    <3>. QED  BY <3>1, Zenon DEF DeadIsSwitchedOff
  <2>. QED  BY <2>1, <2>2
<1>. QED  BY <1>2, <1>3, <1>4, <1>5, <1>6, <1>7

LEMMA RecordFailsStep ==
  ASSUME IInv, NEW w \in Workers, RecordFails(w)
  PROVE  IInv'
<1>. USE CallbackAssumption DEF IInv, TypeOK
<1>1. WorkTypeOK' /\ (\A v \in Workers : v # w => at'[v] = at[v]) /\ at'[w] = "idle"
  BY LeaveType DEF RecordFails
<1>2. WorkersGrounded'
  BY <1>1 DEF RecordFails, WorkersGrounded, Exists, row
<1>3. RowTypeOK' /\ CallsTypeOK' /\ RequestsGrounded'
  BY DEF RecordFails, RowTypeOK, CallsTypeOK, RequestsGrounded, Exists, calls, row
<1>4. unheard' \in BOOLEAN
  BY Zenon DEF RecordFails
<1>5. KnowledgeTypeOK'
  BY <1>4, CalledType DEF RecordFails, KnowledgeTypeOK
<1>7. SealedSince' /\ CallsAsRegistered'
  <2>1. \A v \in Workers : at'[v] # "idle" => UNCHANGED <<at[v], seen[v], signed[v]>>
    BY DEF RecordFails, Leave, Goto, WorkTypeOK
  <2>. QED  BY <1>1, <2>1, CalledType, KeptKnown DEF RecordFails, row
<1>6. DeadIsSwitchedOff'
  <2>1. (unheard => unheard') /\ (at[w] = "deactivate" => unheard') /\ UNCHANGED <<active, failures>>
    BY DEF RecordFails, row
  <2>. QED  BY <1>1, <2>1 DEF DeadIsSwitchedOff
<1>. QED  BY <1>1, <1>2, <1>3, <1>5, <1>6, <1>7

LEMMA NextInv == IInv /\ [Next]_vars => IInv'
<1>. SUFFICES ASSUME IInv, [Next]_vars PROVE IInv'
  OBVIOUS
<1>1. CASE UNCHANGED vars
  <2>1. CallsTypeOK' /\ RequestsGrounded'
    BY <1>1 DEF vars, calls, row, Exists, IInv, TypeOK, CallsTypeOK, RequestsGrounded
  <2>. QED  BY <1>1, <2>1, OnlyTheRequest DEF vars
<1>. QED
  BY <1>1, RegisterStep, ReadStep, CallFailsStep, CreateStep, RedirectStep, IssueStep, SwitchStep,
     AnnounceStep, SignStep, NotifyStep, RecordSuccessStep, RecordFailureStep, DeactivateStep,
     RecordFailsStep DEF Next

LEMMA Inductive == Spec => []IInv
BY InitInv, NextInv, PTL DEF Spec

\* Every variable of a callback's row, its API requests, and announcements has
\* its type, and nothing is active, failing or signed without a row.
THEOREM TypeCorrect == Spec => []TypeOK
BY Inductive, PTL DEF IInv

\* However many announcements are in flight while the source moves its callback,
\* registers twice or rotates its secret: the row holds the address it asked for last;
\* an announcement calls an address that was the last one asked for at some moment
\* since it read the row, and signs with a secret that was stored at some moment since
\* (announce and Notify read the row and the secret separately; the statements of
\* webhook.sql write no more than their own columns).
THEOREM CalledAsRegistered == Spec => []CallsAsRegistered
BY Inductive, PTL DEF IInv

\* However many announcements fail at the same time, and for every limit: an active
\* row whose run has reached the limit has somebody on the way to switch it off, or
\* a statement of theirs failed (RecordFailure, then Deactivate).
THEOREM DeadSwitchedOff == Spec => []DeadIsSwitchedOff
BY Inductive, PTL DEF IInv
=============================================================================
