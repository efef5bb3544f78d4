---------------------------- MODULE Upload_proofs ----------------------------
(***************************************************************************)
(* Proofs about the metadata record of a session and about uploads of the  *)
(* same content, for any writers, requests, fields, retries, updates and   *)
(* failed commands.                                                        *)
(***************************************************************************)
EXTENDS SessionMetadata, UploadDedup, TLAPS

-----------------------------------------------------------------------------
(* The type invariant *)

LEMMA StoreType ==
  ASSUME MetaTypeOK, NEW w \in Writers, Store(w)
  PROVE  /\ record' \in Records /\ merged' \in Records /\ writes' \in Nat
         /\ touched' \in [Writers -> BOOLEAN] /\ stored' \in [Writers -> BOOLEAN]
         /\ plainSets' \in BOOLEAN
<1>1. copy[w] \in Records
  BY DEF MetaTypeOK
<1>2. \A base \in Records : Merge(base, w) \in Records
  BY DEF Merge, Records
<1>3. record' \in Records /\ merged' \in Records
  BY <1>1, <1>2 DEF MetaTypeOK, Store
<1>4. QED
  BY <1>3 DEF MetaTypeOK, Store

(* A step stores or it does not. *)
LEMMA StoresType ==
  ASSUME MetaTypeOK, NEW w \in Writers, Store(w) \/ NoStore
  PROVE  /\ record' \in Records /\ merged' \in Records /\ writes' \in Nat
         /\ touched' \in [Writers -> BOOLEAN] /\ stored' \in [Writers -> BOOLEAN]
         /\ plainSets' \in BOOLEAN
BY StoreType DEF NoStore, MetaTypeOK

(* A writer in a round has rounds left. *)
RoundsLeft == \A w \in Writers : step[w] \in Protected => rounds[w] < MaxRetries

Typed == MetaTypeOK /\ RoundsLeft

LEMMA TypedInit == MetaInit => Typed
<1> SUFFICES ASSUME MetaInit PROVE Typed
  OBVIOUS
<1>1. record \in Records /\ merged \in Records /\ copy \in [Writers -> Records]
  BY DEF MetaInit, Records
<1>2. rounds \in [Writers -> 0 .. MaxRetries] /\ metaFaults \in 0 .. MaxMetaFaults /\ RoundsLeft
  BY MetadataAssumption DEF MetadataAssumption, MetaInit, RoundsLeft, Protected
<1>3. QED
  BY <1>1, <1>2 DEF MetaInit, Typed, MetaTypeOK

LEMMA TypedStep == Typed /\ [MetaNext]_metaVars => Typed'
<1> SUFFICES ASSUME MetaTypeOK, RoundsLeft, [MetaNext]_metaVars PROVE Typed'
  BY DEF Typed
<1> USE MetadataAssumption DEF MetadataAssumption
<1>1. ASSUME NEW w \in Writers, Call(w) PROVE Typed'
  BY <1>1 DEF Call, Goto, Typed, MetaTypeOK, RoundsLeft, Protected, Unprotected
<1>2. ASSUME NEW w \in Writers, Watch(w) PROVE Typed'
  BY <1>2 DEF Watch, Goto, Typed, MetaTypeOK, RoundsLeft, Protected, Unprotected
<1>3. ASSUME NEW w \in Writers, Get(w) PROVE Typed'
  BY <1>3 DEF Get, Goto, Typed, MetaTypeOK, RoundsLeft, Protected, Unprotected
<1>4. ASSUME NEW w \in Writers, Exec(w) PROVE Typed'
  BY <1>4, StoreType DEF Exec, Answer, Goto, Typed, MetaTypeOK, RoundsLeft, Protected, Unprotected
<1>5. ASSUME NEW w \in Writers, LoseRound(w) PROVE Typed'
  BY <1>5 DEF LoseRound, NoStore, Goto, Typed, MetaTypeOK, RoundsLeft, Protected, Unprotected
<1>6. ASSUME NEW w \in Writers, RoundFails(w) PROVE Typed'
  <2>1. Store(w) \/ NoStore
    BY <1>6 DEF RoundFails
  <2>2. QED
    BY <1>6, <2>1, StoresType
       DEF RoundFails, FaultOccurs, Goto, Typed, MetaTypeOK, RoundsLeft, Protected, Unprotected
<1>7. ASSUME NEW w \in Writers, Reread(w) PROVE Typed'
  BY <1>7 DEF Reread, Goto, Typed, MetaTypeOK, RoundsLeft, Protected, Unprotected
<1>8. ASSUME NEW w \in Writers, Set(w) PROVE Typed'
  BY <1>8, StoreType DEF Set, Answer, Goto, Typed, MetaTypeOK, RoundsLeft, Protected, Unprotected
<1>9. ASSUME NEW w \in Writers, MergeFails(w) PROVE Typed'
  <2>1. Store(w) \/ NoStore
    BY <1>9 DEF MergeFails
  <2>2. QED
    BY <1>9, <2>1, StoresType
       DEF MergeFails, FaultOccurs, Answer, Goto, Typed, MetaTypeOK, RoundsLeft, Protected, Unprotected
<1>10. CASE Delete
  BY <1>10 DEF Delete, Typed, MetaTypeOK, RoundsLeft, Records
<1>11. CASE UNCHANGED metaVars
  BY <1>11 DEF metaVars, Typed, MetaTypeOK, RoundsLeft
<1>12. QED
  BY <1>1, <1>2, <1>3, <1>4, <1>5, <1>6, <1>7, <1>8, <1>9, <1>10, <1>11 DEF MetaNext, MetaStep

(* Every reachable state of the metadata record and of the calls that      *)
(* update it is well typed, and a call in a round of WATCH never exceeds   *)
(* max_retries.                                                            *)
THEOREM MetaTypeCorrect == MetaSpec => []MetaTypeOK
<1>1. MetaInit => Typed
  BY TypedInit
<1>2. Typed /\ [MetaNext]_metaVars => Typed'
  BY TypedStep
<1>3. Typed => MetaTypeOK
  BY DEF Typed
<1>4. QED
  BY <1>1, <1>2, <1>3, PTL DEF MetaSpec

-----------------------------------------------------------------------------
(* What an answer says *)

(* A call that has left its rounds has a reason. *)
RouteKnown ==
  \A w \in Writers :
    step[w] \in Unprotected =>
      \/ route[w] = "plain" /\ w \in PlainWriters
      \/ route[w] = "failed" /\ metaFaults > 0
      \/ route[w] = "exhausted" /\ rounds[w] = MaxRetries

AnswerInv == Typed /\ RouteKnown /\ AnsweredIsStored

LEMMA AnswerInit == MetaInit => AnswerInv
BY TypedInit DEF MetaInit, AnswerInv, RouteKnown, AnsweredIsStored, Unprotected

LEMMA RouteStep == Typed /\ RouteKnown /\ [MetaNext]_metaVars => RouteKnown'
<1> SUFFICES ASSUME MetaTypeOK, RoundsLeft, RouteKnown, [MetaNext]_metaVars PROVE RouteKnown'
  BY DEF Typed
<1> USE MetadataAssumption DEF MetadataAssumption, RouteKnown, Unprotected, MetaTypeOK
<1>1. ASSUME NEW w \in Writers, Call(w) PROVE RouteKnown'
  BY <1>1 DEF Call, Goto
<1>2. ASSUME NEW w \in Writers, Watch(w) \/ Get(w) PROVE RouteKnown'
  BY <1>2 DEF Watch, Get, Goto
<1>3. ASSUME NEW w \in Writers, Exec(w) \/ Set(w) PROVE RouteKnown'
  BY <1>3 DEF Exec, Set, Answer, Goto
<1>4. ASSUME NEW w \in Writers, LoseRound(w) PROVE RouteKnown'
  BY <1>4 DEF LoseRound, Goto
<1>5. ASSUME NEW w \in Writers, RoundFails(w) PROVE RouteKnown'
  BY <1>5 DEF RoundFails, FaultOccurs, Goto
<1>6. ASSUME NEW w \in Writers, Reread(w) PROVE RouteKnown'
  BY <1>6 DEF Reread, Goto
<1>7. ASSUME NEW w \in Writers, MergeFails(w) PROVE RouteKnown'
  BY <1>7 DEF MergeFails, FaultOccurs, Answer, Goto
<1>8. CASE Delete
  BY <1>8 DEF Delete
<1>9. CASE UNCHANGED metaVars
  BY <1>9 DEF metaVars
<1>10. QED
  BY <1>1, <1>2, <1>3, <1>4, <1>5, <1>6, <1>7, <1>8, <1>9 DEF MetaNext, MetaStep

LEMMA AnswersStep == AnswerInv /\ [MetaNext]_metaVars => AnsweredIsStored'
<1> SUFFICES ASSUME MetaTypeOK, RouteKnown, AnsweredIsStored, [MetaNext]_metaVars
             PROVE  AnsweredIsStored'
  BY DEF AnswerInv, Typed
<1> USE MetadataAssumption DEF MetadataAssumption, AnsweredIsStored, MetaTypeOK
<1>1. ASSUME NEW w \in Writers, Call(w) PROVE AnsweredIsStored'
  BY <1>1 DEF Call, Goto
<1>2. ASSUME NEW w \in Writers, Watch(w) \/ Get(w) \/ Reread(w) PROVE AnsweredIsStored'
  BY <1>2 DEF Watch, Get, Reread, Goto
<1>3. ASSUME NEW w \in Writers, Exec(w) \/ Set(w) PROVE AnsweredIsStored'
  BY <1>3 DEF Exec, Set, Store, Answer, Goto
<1>4. ASSUME NEW w \in Writers, LoseRound(w) PROVE AnsweredIsStored'
  BY <1>4 DEF LoseRound, NoStore, Goto
<1>5. ASSUME NEW w \in Writers, RoundFails(w) PROVE AnsweredIsStored'
  BY <1>5 DEF RoundFails, FaultOccurs, Store, NoStore, Goto
<1>6. ASSUME NEW w \in Writers, MergeFails(w) PROVE AnsweredIsStored'
  BY <1>6 DEF MergeFails, FaultOccurs, Store, NoStore, Answer, Goto, RouteKnown, Unprotected
<1>7. CASE Delete
  BY <1>7 DEF Delete
<1>8. CASE UNCHANGED metaVars
  BY <1>8 DEF metaVars
<1>9. QED
  BY <1>1, <1>2, <1>3, <1>4, <1>5, <1>6, <1>7, <1>8 DEF MetaNext, MetaStep

(* A call of update_active_pipeline_metadata that answers with the merged  *)
(* record has stored its fields; one that hands back its own fields has    *)
(* not only after its transaction and its fallback both failed.            *)
THEOREM AnswersAreStored == MetaSpec => []AnsweredIsStored
<1>1. MetaInit => AnswerInv
  BY AnswerInit
<1>2. AnswerInv /\ [MetaNext]_metaVars => AnswerInv'
  BY TypedStep, RouteStep, AnswersStep DEF AnswerInv
<1>3. AnswerInv => AnsweredIsStored
  BY DEF AnswerInv
<1>4. QED
  BY <1>1, <1>2, <1>3, PTL DEF MetaSpec

-----------------------------------------------------------------------------
(* What a lost update takes *)

(* Every round lost since the call began has cost a write by another, and  *)
(* so does a broken WATCH, or a record that changed under a merge.         *)
WritesCount ==
  /\ writes >= 1
  /\ \A w \in Writers :
       /\ writes >= rounds[w] + 1
       /\ step[w] \in {"get", "exec"} /\ touched[w] => writes >= rounds[w] + 2
       /\ step[w] = "set" /\ copy[w] # record => writes >= rounds[w] + 2

(* An unbroken WATCH: what the call read is still the record. *)
CopyIsCurrent == \A w \in Writers : step[w] = "exec" /\ ~touched[w] => copy[w] = record

LossInv == Typed /\ RouteKnown /\ WritesCount /\ CopyIsCurrent /\ LossHasCause

LEMMA LossInit == MetaInit => LossInv
BY TypedInit
   DEF MetaInit, LossInv, RouteKnown, WritesCount, CopyIsCurrent, LossHasCause, Unprotected

LEMMA CopyStep == Typed /\ CopyIsCurrent /\ [MetaNext]_metaVars => CopyIsCurrent'
<1> SUFFICES ASSUME MetaTypeOK, CopyIsCurrent, [MetaNext]_metaVars PROVE CopyIsCurrent'
  BY DEF Typed
<1> USE DEF CopyIsCurrent, MetaTypeOK
<1>1. ASSUME NEW w \in Writers, Store(w) PROVE CopyIsCurrent'
  BY <1>1 DEF Store
<1>2. ASSUME NEW w \in Writers, Call(w) PROVE CopyIsCurrent'
  BY <1>2 DEF Call, Goto
<1>3. ASSUME NEW w \in Writers, Watch(w) \/ Get(w) \/ Reread(w) PROVE CopyIsCurrent'
  BY <1>3 DEF Watch, Get, Reread, Goto
<1>4. ASSUME NEW w \in Writers, LoseRound(w) PROVE CopyIsCurrent'
  BY <1>4 DEF LoseRound, NoStore, Goto
<1>5. ASSUME NEW w \in Writers, RoundFails(w) PROVE CopyIsCurrent'
  BY <1>1, <1>5 DEF RoundFails, NoStore, Goto
<1>6. ASSUME NEW w \in Writers, MergeFails(w) PROVE CopyIsCurrent'
  BY <1>1, <1>6 DEF MergeFails, NoStore, Answer, Goto
<1>7. CASE Delete
  BY <1>7 DEF Delete
<1>8. CASE UNCHANGED metaVars
  BY <1>8 DEF metaVars
<1>9. QED
  BY <1>1, <1>2, <1>3, <1>4, <1>5, <1>6, <1>7, <1>8 DEF MetaNext, MetaStep, Exec, Set

(* A store by w, at which no other call gains or loses a round. *)
LEMMA CountAtStore ==
  ASSUME MetaTypeOK, WritesCount, NEW w \in Writers, Store(w),
         NEW s, Goto(w, s), s \in {"idle", "reread"},
         UNCHANGED rounds, UNCHANGED copy
  PROVE  WritesCount'
<1>1. writes' = writes + 1 /\ writes \in Nat
  BY DEF Store, MetaTypeOK
<1>2. \A v \in Writers : rounds[v] \in Nat
  BY MetadataAssumption DEF MetaTypeOK, MetadataAssumption
<1>3. \A v \in Writers : step'[v] = step[v] \/ step'[v] \in {"idle", "reread"}
  BY DEF Goto, MetaTypeOK
<1>4. QED
  BY <1>1, <1>2, <1>3 DEF WritesCount

LEMMA CountStep == Typed /\ CopyIsCurrent /\ WritesCount /\ [MetaNext]_metaVars => WritesCount'
<1> SUFFICES ASSUME MetaTypeOK, CopyIsCurrent, WritesCount, [MetaNext]_metaVars PROVE WritesCount'
  BY DEF Typed
<1>0. writes \in Nat /\ \A v \in Writers : rounds[v] \in Nat
  BY MetadataAssumption DEF MetaTypeOK, MetadataAssumption
<1> USE <1>0 DEF WritesCount, MetaTypeOK
<1>1. ASSUME NEW w \in Writers, Call(w) PROVE WritesCount'
  BY <1>1 DEF Call, Goto
<1>2. ASSUME NEW w \in Writers, Watch(w) \/ Get(w) \/ Reread(w) PROVE WritesCount'
  BY <1>2 DEF Watch, Get, Reread, Goto
<1>3. ASSUME NEW w \in Writers, Exec(w) \/ Set(w) PROVE WritesCount'
  BY <1>3, CountAtStore DEF Exec, Set, Answer
<1>4. ASSUME NEW w \in Writers, LoseRound(w) PROVE WritesCount'
  BY <1>4 DEF LoseRound, NoStore, Goto
<1>5. ASSUME NEW w \in Writers, RoundFails(w) PROVE WritesCount'
  <2>1. CASE Store(w)
    BY <1>5, <2>1, CountAtStore DEF RoundFails
  <2>2. CASE NoStore
    BY <1>5, <2>2 DEF RoundFails, NoStore, Goto
  <2>3. QED
    BY <1>5, <2>1, <2>2 DEF RoundFails
<1>6. ASSUME NEW w \in Writers, MergeFails(w) PROVE WritesCount'
  <2>1. CASE Store(w)
    BY <1>6, <2>1, CountAtStore DEF MergeFails, Answer
  <2>2. CASE NoStore
    BY <1>6, <2>2 DEF MergeFails, NoStore, Answer, Goto
  <2>3. QED
    BY <1>6, <2>1, <2>2 DEF MergeFails
<1>7. CASE Delete
  BY <1>7 DEF Delete
<1>8. CASE UNCHANGED metaVars
  BY <1>8 DEF metaVars
<1>9. QED
  BY <1>1, <1>2, <1>3, <1>4, <1>5, <1>6, <1>7, <1>8 DEF MetaNext, MetaStep

(* A store that follows the record as it is keeps the two histories equal. *)
LEMMA FollowingStore ==
  ASSUME NEW w \in Writers, Store(w), copy[w] = record, LossHasCause, writes \in Nat,
         metaFaults' = metaFaults, MaxRetries \in Nat
  PROVE  LossHasCause'
<1>1. CASE record = merged
  BY <1>1 DEF Store, LossHasCause
<1>2. CASE plainSets
  BY <1>2 DEF Store, LossHasCause
<1>3. CASE metaFaults > 0
  BY <1>3 DEF LossHasCause
<1>4. CASE writes > MaxRetries + 2
  <2>1. writes' = writes + 1
    BY DEF Store
  <2>2. QED
    BY <1>4, <2>1 DEF LossHasCause
<1>5. QED
  BY <1>1, <1>2, <1>3, <1>4 DEF LossHasCause

LEMMA SetHasCause ==
  ASSUME MetaTypeOK, RouteKnown, WritesCount, LossHasCause, NEW w \in Writers, Set(w)
  PROVE  LossHasCause'
<1>0. /\ writes \in Nat /\ rounds[w] \in Nat /\ MaxRetries \in Nat
      /\ Store(w) /\ metaFaults' = metaFaults /\ metaFaults \in Nat
  BY MetadataAssumption DEF MetaTypeOK, MetadataAssumption, Set
<1>1. CASE copy[w] = record
  BY <1>0, <1>1, FollowingStore
<1>2. CASE route[w] = "plain"
  BY <1>0, <1>2 DEF Set, RouteKnown, Unprotected, Store, LossHasCause
<1>3. CASE route[w] = "failed"
  BY <1>0, <1>3 DEF Set, RouteKnown, Unprotected, LossHasCause
<1>4. CASE copy[w] # record /\ route[w] = "exhausted"
  <2>1. rounds[w] = MaxRetries
    BY <1>4 DEF Set, RouteKnown, Unprotected
  <2>2. writes >= MaxRetries + 2
    BY <1>4, <2>1 DEF Set, WritesCount
  <2>3. writes' = writes + 1
    BY <1>0 DEF Store
  <2>4. QED
    BY <1>0, <2>2, <2>3 DEF LossHasCause
<1>5. QED
  BY <1>1, <1>2, <1>3, <1>4 DEF Set, RouteKnown, Unprotected

LEMMA LossStep == LossInv /\ [MetaNext]_metaVars => LossHasCause'
<1> SUFFICES ASSUME LossInv, [MetaNext]_metaVars PROVE LossHasCause'
  OBVIOUS
<1>0. /\ MetaTypeOK /\ RouteKnown /\ WritesCount /\ CopyIsCurrent /\ LossHasCause
      /\ writes \in Nat /\ metaFaults \in Nat /\ MaxRetries \in Nat
  BY MetadataAssumption DEF LossInv, Typed, MetaTypeOK, MetadataAssumption
<1>1. ASSUME NEW w \in Writers, Call(w) \/ Watch(w) \/ Get(w) \/ LoseRound(w) \/ Reread(w)
      PROVE  LossHasCause'
  BY <1>0, <1>1 DEF Call, Watch, Get, LoseRound, NoStore, Reread, LossHasCause
<1>2. ASSUME NEW w \in Writers, Exec(w) PROVE LossHasCause'
  BY <1>0, <1>2, FollowingStore DEF Exec, CopyIsCurrent
<1>3. ASSUME NEW w \in Writers, Set(w) PROVE LossHasCause'
  BY <1>0, <1>3, SetHasCause
<1>4. ASSUME NEW w \in Writers, RoundFails(w) \/ MergeFails(w) PROVE LossHasCause'
  <2>1. metaFaults' > 0
    BY <1>0, <1>4 DEF RoundFails, MergeFails, FaultOccurs
  <2>2. QED
    BY <2>1 DEF LossHasCause
<1>5. CASE Delete
  BY <1>5 DEF Delete, LossHasCause
<1>6. CASE UNCHANGED metaVars
  BY <1>0, <1>6 DEF metaVars, LossHasCause
<1>7. QED
  BY <1>1, <1>2, <1>3, <1>4, <1>5, <1>6 DEF MetaNext, MetaStep

(* An update is lost only beside a plain writer, after a failed command,   *)
(* or when max_retries + 2 writes and more have come together on the key:  *)
(* for any number of writers, fields and retries.                          *)
THEOREM LostUpdatesHaveCause == MetaSpec => []LossHasCause
<1>1. MetaInit => LossInv
  BY LossInit
<1>2. LossInv /\ [MetaNext]_metaVars => LossInv'
  BY TypedStep, RouteStep, CopyStep, CountStep, LossStep DEF LossInv
<1>3. LossInv => LossHasCause
  BY DEF LossInv
<1>4. QED
  BY <1>1, <1>2, <1>3, PTL DEF MetaSpec

-----------------------------------------------------------------------------
(* Uploads *)

(* Whoever is named by the claim has asked for it once and asks no more.   *)
(* While no call fails, whoever is or was named has claimed the content.   *)
Asking == {"new", "conflict", "checking", "deleting", "reclaiming"}
ClaimantWon ==
  claim # NoClaim => /\ pc[claim] \notin Asking
                     /\ uploadFaults = 0 => claim \in Winners
FoundWon ==
  uploadFaults = 0 => \A r \in Requests : existing[r] # NoClaim => existing[r] \in Winners

UploadInv == UploadTypeOK /\ ClaimantWon /\ FoundWon

(* A step in which a call of r fails, or none does. *)
FaultStep(r) == Fault(r) \/ NoFault

LEMMA FaultCounts ==
  ASSUME UploadTypeOK, NEW r \in Requests, FaultStep(r)
  PROVE  /\ uploadFaults' \in 0 .. MaxUploadFaults
         /\ uploadFaults' = 0 => uploadFaults = 0 /\ NoFault
         /\ hit' \in [Requests -> SUBSET PC]
<1>1. uploadFaults \in Nat /\ uploadFaults <= MaxUploadFaults /\ MaxUploadFaults \in Nat
  BY DedupAssumption DEF DedupAssumption, UploadTypeOK
<1>2. hit \in [Requests -> SUBSET PC] /\ pc[r] \in PC
  BY DEF UploadTypeOK
<1>3. CASE Fault(r)
  BY <1>1, <1>2, <1>3 DEF Fault
<1>4. CASE NoFault
  BY <1>1, <1>2, <1>4 DEF NoFault
<1>5. QED
  BY <1>3, <1>4 DEF FaultStep

LEMMA UploadInvInit == UploadInit => UploadInv
BY DedupAssumption DEF DedupAssumption, UploadInit, UploadInv, UploadTypeOK, Status, PC, ClaimantWon,
                       FoundWon

LEMMA FaultsOfStep ==
  ASSUME NEW r \in Requests, RequestStep(r) \/ WorkerStep(r)
  PROVE  FaultStep(r)
<1>1. ASSUME TryClaim(r) \/ ClaimFails(r) \/ ReadClaim(r) \/ CheckExisting(r) \/ DeleteClaim(r)
             \/ Reclaim(r) \/ TakeoverFails(r)
      PROVE  FaultStep(r)
  BY <1>1 DEF TryClaim, ClaimFails, ReadClaim, CheckExisting, DeleteClaim, Reclaim, TakeoverFails,
              ClaimOr, Judge, FaultStep
<1>2. ASSUME Verify(r) \/ WriteMetadata(r) \/ Register(r) \/ ProbeWorker(r) \/ SubmitTask(r)
             \/ CleanClaim(r) \/ ForgetMetadata(r)
      PROVE  FaultStep(r)
  BY <1>2 DEF Verify, WriteMetadata, Register, ProbeWorker, SubmitTask, CleanClaim, ForgetMetadata,
              FaultStep
<1>3. ASSUME WorkerStep(r) PROVE FaultStep(r)
  BY <1>3 DEF WorkerStep, StartRun, Pause, EndRun, ReleaseAfterFailure, Live, FaultStep
<1>4. QED
  BY <1>1, <1>2, <1>3 DEF RequestStep

(* After a step in which a call failed there has been a fault. *)
LEMMA FaultShows ==
  ASSUME UploadTypeOK, NEW r \in Requests, Fault(r)
  PROVE  uploadFaults' # 0 /\ hit' = [hit EXCEPT ![r] = @ \cup {pc[r]}]
<1>1. uploadFaults \in Nat
  BY DedupAssumption DEF DedupAssumption, UploadTypeOK
<1>2. QED
  BY <1>1 DEF Fault

LEMMA ClaimInv ==
  ASSUME UploadInv, NEW r \in Requests,
         TryClaim(r) \/ ClaimFails(r) \/ ReadClaim(r) \/ DeleteClaim(r) \/ Reclaim(r)
  PROVE  UploadInv'
<1> USE DEF UploadInv, UploadTypeOK, PC, Answers, At, ClaimantWon, FoundWon, Winners, Asking
<1>1. /\ uploadFaults' \in 0 .. MaxUploadFaults /\ hit' \in [Requests -> SUBSET PC]
      /\ uploadFaults' = 0 => uploadFaults = 0
  BY FaultCounts, FaultsOfStep DEF RequestStep
<1>0. Fault(r) => uploadFaults' # 0
  BY FaultShows
<1>2. CASE TryClaim(r)
  BY <1>1, <1>2 DEF TryClaim, ClaimOr
<1>3. CASE ClaimFails(r)
  BY <1>0, <1>1, <1>3 DEF ClaimFails
<1>4. CASE ReadClaim(r)
  <2>1. UploadTypeOK'
    BY <1>1, <1>4 DEF ReadClaim
  <2>2. UNCHANGED claim /\ Winners \subseteq Winners'
    BY <1>4 DEF ReadClaim
  <2>3. ClaimantWon'
    <3>1. claim # NoClaim => pc'[claim] \notin Asking
      BY <1>4 DEF ReadClaim
    <3>2. QED
      BY <1>1, <2>2, <3>1 DEF Winners
  <2>4. FoundWon'
    <3>1. \A q \in Requests : existing'[q] # NoClaim => existing'[q] = existing[q] \/ existing'[q] = claim
      BY <1>4 DEF ReadClaim
    <3>2. QED
      BY <1>1, <2>2, <3>1
  <2>5. QED
    BY <2>1, <2>3, <2>4
<1>5. CASE DeleteClaim(r)
  BY <1>1, <1>5 DEF DeleteClaim
<1>6. CASE Reclaim(r)
  BY <1>1, <1>6 DEF Reclaim, ClaimOr
<1>7. QED
  BY <1>2, <1>3, <1>4, <1>5, <1>6

LEMMA SubmissionInv ==
  ASSUME UploadInv, NEW r \in Requests, RequestStep(r)
  PROVE  UploadInv'
<1> USE DEF UploadInv, UploadTypeOK, PC, Answers, At, ClaimantWon, FoundWon, Winners, Asking
<1>1. /\ uploadFaults' \in 0 .. MaxUploadFaults /\ hit' \in [Requests -> SUBSET PC]
      /\ uploadFaults' = 0 => uploadFaults = 0
  BY FaultCounts, FaultsOfStep
<1>0. Fault(r) => uploadFaults' # 0
  BY FaultShows
<1>2. CASE CheckExisting(r)
  BY <1>1, <1>2 DEF CheckExisting, Judge, LooksActive
<1>3. CASE TakeoverFails(r)
  BY <1>0, <1>1, <1>3 DEF TakeoverFails
<1>4. CASE Verify(r)
  BY <1>1, <1>4 DEF Verify
<1>5. CASE WriteMetadata(r)
  BY <1>0, <1>1, <1>5 DEF WriteMetadata, Status
<1>6. CASE Register(r) \/ ProbeWorker(r)
  BY <1>1, <1>6 DEF Register, ProbeWorker
<1>7. CASE SubmitTask(r)
  BY <1>1, <1>7 DEF SubmitTask
<1>8. CASE CleanClaim(r)
  BY <1>0, <1>1, <1>8 DEF CleanClaim
<1>9. CASE ForgetMetadata(r)
  BY <1>0, <1>1, <1>9 DEF ForgetMetadata, Status
<1>10. QED
  BY <1>2, <1>3, <1>4, <1>5, <1>6, <1>7, <1>8, <1>9, ClaimInv DEF RequestStep

LEMMA WorkerInv ==
  ASSUME UploadInv, NEW r \in Requests, WorkerStep(r)
  PROVE  UploadInv'
<1> USE DEF UploadInv, UploadTypeOK, ClaimantWon, FoundWon, Winners, Asking, NoFault
<1>1. CASE StartRun(r) \/ Pause(r)
  BY <1>1 DEF StartRun, Pause, Live, Status
<1>2. CASE EndRun(r)
  BY <1>2 DEF EndRun, Live, Status
<1>3. CASE ReleaseAfterFailure(r)
  BY <1>3 DEF ReleaseAfterFailure
<1>4. QED
  BY <1>1, <1>2, <1>3 DEF WorkerStep

LEMMA UploadInvStep == UploadInv /\ [UploadNext]_uploadVars => UploadInv'
<1> SUFFICES ASSUME UploadInv, [UploadNext]_uploadVars PROVE UploadInv'
  OBVIOUS
<1>1. CASE UNCHANGED uploadVars
  BY <1>1 DEF uploadVars, UploadInv, UploadTypeOK, ClaimantWon, FoundWon, Winners, Asking
<1>2. QED
  BY <1>1, SubmissionInv, WorkerInv DEF UploadNext

-----------------------------------------------------------------------------
(* A request that deleted a dead claim finds either no claim or that of a  *)
(* third request.                                                          *)
TakenByThird ==
  \A r \in Requests :
    pc[r] = "reclaiming" /\ claim # NoClaim /\ uploadFaults = 0 => claim \notin {r, existing[r]}

FreshInv == UploadInv /\ TakenByThird /\ NoFalseDuplicate

LEMMA WinnersGrow ==
  ASSUME UploadInv, [UploadNext]_uploadVars
  PROVE  Winners \subseteq Winners'
<1> USE DEF UploadInv, UploadTypeOK, Winners, At
<1>1. ASSUME NEW r \in Requests,
             TryClaim(r) \/ ClaimFails(r) \/ ReadClaim(r) \/ CheckExisting(r) \/ DeleteClaim(r)
               \/ Reclaim(r) \/ TakeoverFails(r)
      PROVE  Winners \subseteq Winners'
  BY <1>1 DEF TryClaim, ClaimFails, ReadClaim, CheckExisting, DeleteClaim, Reclaim, TakeoverFails,
              ClaimOr, Judge
<1>2. ASSUME NEW r \in Requests,
             Verify(r) \/ WriteMetadata(r) \/ Register(r) \/ ProbeWorker(r) \/ SubmitTask(r)
               \/ CleanClaim(r) \/ ForgetMetadata(r)
      PROVE  Winners \subseteq Winners'
  BY <1>2 DEF Verify, WriteMetadata, Register, ProbeWorker, SubmitTask, CleanClaim, ForgetMetadata
<1>3. ASSUME NEW r \in Requests, WorkerStep(r) PROVE Winners \subseteq Winners'
  BY <1>3 DEF WorkerStep, StartRun, Pause, EndRun, ReleaseAfterFailure, Live
<1>4. CASE UNCHANGED uploadVars
  BY <1>4 DEF uploadVars
<1>5. QED
  BY <1>1, <1>2, <1>3, <1>4 DEF UploadNext, RequestStep

(* What a request knows of another changes only while it asks.             *)
LEMMA KnowledgeStays ==
  ASSUME UploadInv, [UploadNext]_uploadVars, NEW r \in Requests, pc[r] \in {"reclaiming", "dup409"}
  PROVE  existing'[r] = existing[r] /\ seen'[r] = seen[r]
<1> USE DEF UploadInv, UploadTypeOK, At
<1>1. ASSUME NEW q \in Requests, RequestStep(q)
      PROVE  existing'[r] = existing[r] /\ seen'[r] = seen[r]
  <2>1. CASE ReadClaim(q) \/ CheckExisting(q)
    BY <2>1 DEF ReadClaim, CheckExisting, Judge
  <2>2. CASE ~(ReadClaim(q) \/ CheckExisting(q))
    BY <1>1, <2>2 DEF RequestStep, TryClaim, ClaimFails, DeleteClaim, Reclaim, TakeoverFails, ClaimOr,
                      Verify, WriteMetadata, Register, ProbeWorker, SubmitTask, CleanClaim, ForgetMetadata
  <2>3. QED
    BY <2>1, <2>2
<1>2. ASSUME NEW q \in Requests, WorkerStep(q)
      PROVE  existing'[r] = existing[r] /\ seen'[r] = seen[r]
  BY <1>2 DEF WorkerStep, StartRun, Pause, EndRun, ReleaseAfterFailure, Live
<1>3. QED
  BY <1>1, <1>2 DEF UploadNext, uploadVars

(* A step that names somebody new in the claim makes a winner of it.       *)
LEMMA ClaimChanges ==
  ASSUME UploadInv, [UploadNext]_uploadVars, claim' # NoClaim, uploadFaults' = 0
  PROVE  claim' = claim \/ (claim' \in Requests \ Winners /\ claim' \in Winners')
<1> USE DEF UploadInv, UploadTypeOK, At, Winners, PC, Answers
<1>0. ASSUME NEW q \in Requests PROVE ~Fault(q)
  BY FaultShows
<1>1. ASSUME NEW q \in Requests, RequestStep(q)
      PROVE  claim' = claim \/ (claim' \in Requests \ Winners /\ claim' \in Winners')
  <2>1. CASE TryClaim(q) \/ Reclaim(q)
    BY <2>1 DEF TryClaim, Reclaim, ClaimOr
  <2>2. CASE ClaimFails(q) \/ TakeoverFails(q)
    BY <1>0, <2>2 DEF ClaimFails, TakeoverFails
  <2>3. CASE ~(TryClaim(q) \/ Reclaim(q) \/ ClaimFails(q) \/ TakeoverFails(q))
    BY <1>0, <1>1, <2>3 DEF RequestStep, ReadClaim, CheckExisting, Judge, DeleteClaim,
                      Verify, WriteMetadata, Register, ProbeWorker, SubmitTask, CleanClaim, ForgetMetadata
  <2>4. QED
    BY <2>1, <2>2, <2>3
<1>2. ASSUME NEW q \in Requests, WorkerStep(q) PROVE claim' = claim
  BY <1>2 DEF WorkerStep, StartRun, Pause, EndRun, ReleaseAfterFailure, Live
<1>3. QED
  BY <1>1, <1>2 DEF UploadNext, uploadVars

(* How a request comes to the two places the invariant is about.           *)
LEMMA Arrivals ==
  ASSUME UploadInv, [UploadNext]_uploadVars, NEW r \in Requests, pc'[r] # pc[r]
  PROVE  /\ pc'[r] = "reclaiming" => claim' = NoClaim
         /\ pc'[r] = "dup409" =>
              \/ seen'[r] \in LooksActive
              \/ uploadFaults' # 0
              \/ Reclaim(r) /\ claim # NoClaim
<1> USE DEF UploadInv, UploadTypeOK, At, PC, Answers
<1>1. PICK q \in Requests : RequestStep(q)
  BY DEF UploadNext, uploadVars, WorkerStep, StartRun, Pause, EndRun, ReleaseAfterFailure, Live
<1>2. CASE CheckExisting(q)
  BY <1>2 DEF CheckExisting, Judge
<1>3. CASE TakeoverFails(q)
  <2>1. uploadFaults' # 0
    BY <1>3, FaultShows DEF TakeoverFails
  <2>2. QED
    BY <1>3, <2>1 DEF TakeoverFails
<1>4. CASE DeleteClaim(q)
  BY <1>4 DEF DeleteClaim
<1>5. CASE Reclaim(q)
  BY <1>5 DEF Reclaim, ClaimOr
<1>6. CASE TryClaim(q) \/ ClaimFails(q) \/ ReadClaim(q)
  BY <1>6 DEF TryClaim, ClaimFails, ReadClaim, ClaimOr
<1>7. CASE Verify(q) \/ WriteMetadata(q) \/ Register(q) \/ ProbeWorker(q) \/ SubmitTask(q)
             \/ CleanClaim(q) \/ ForgetMetadata(q)
  BY <1>7 DEF Verify, WriteMetadata, Register, ProbeWorker, SubmitTask, CleanClaim, ForgetMetadata
<1>8. QED
  BY <1>1, <1>2, <1>3, <1>4, <1>5, <1>6, <1>7 DEF RequestStep

LEMMA FaultsStay ==
  ASSUME UploadInv, [UploadNext]_uploadVars, uploadFaults' = 0
  PROVE  uploadFaults = 0
BY FaultsOfStep, FaultCounts DEF UploadNext, UploadInv, uploadVars

LEMMA FreshStep == FreshInv /\ [UploadNext]_uploadVars => FreshInv'
<1> SUFFICES ASSUME FreshInv, [UploadNext]_uploadVars PROVE FreshInv'
  OBVIOUS
<1> USE DEF FreshInv
<1>1. UploadInv'
  BY UploadInvStep
<1>2. TakenByThird'
  <2> SUFFICES ASSUME NEW r \in Requests, pc'[r] = "reclaiming", claim' # NoClaim, uploadFaults' = 0
               PROVE  claim' \notin {r, existing'[r]}
    BY DEF TakenByThird
  <2>0. uploadFaults = 0
    BY FaultsStay
  <2>1. pc[r] = "reclaiming"
    BY Arrivals
  <2>2. existing'[r] = existing[r] /\ existing[r] \in Requests /\ existing[r] \in Winners
    <3>1. existing'[r] = existing[r]
      BY <2>1, KnowledgeStays
    <3>2. existing[r] \in Requests /\ existing[r] # NoClaim
      BY <2>1, DedupAssumption DEF UploadInv, UploadTypeOK, DedupAssumption
    <3>3. QED
      BY <2>0, <3>1, <3>2 DEF UploadInv, FoundWon
  <2>3. CASE claim' = claim
    BY <2>0, <2>1, <2>2, <2>3 DEF TakenByThird
  <2>4. CASE claim' \in Requests \ Winners /\ claim' \in Winners'
    BY <2>2, <2>4 DEF Winners
  <2>5. QED
    BY <2>3, <2>4, ClaimChanges
<1>3. NoFalseDuplicate'
  <2> SUFFICES ASSUME NEW r \in Requests, pc'[r] = "dup409", seen'[r] \notin LooksActive,
                      uploadFaults' = 0
               PROVE  Winners' \ {r, existing'[r]} # {}
    BY DEF NoFalseDuplicate
  <2>1. CASE pc[r] = "dup409"
    <3>1. existing'[r] = existing[r] /\ seen'[r] = seen[r] /\ uploadFaults = 0
      BY <2>1, KnowledgeStays, FaultsStay
    <3>2. QED
      BY <2>1, <3>1, WinnersGrow DEF NoFalseDuplicate
  <2>2. CASE pc[r] # "dup409"
    <3>0. uploadFaults = 0
      BY FaultsStay
    <3>1. Reclaim(r) /\ claim # NoClaim
      BY <2>2, Arrivals
    <3>2. pc[r] = "reclaiming" /\ claim \in Winners
      BY <3>0, <3>1 DEF Reclaim, ClaimOr, At, UploadInv, ClaimantWon
    <3>3. claim \notin {r, existing[r]} /\ existing'[r] = existing[r]
      BY <3>0, <3>1, <3>2, KnowledgeStays DEF TakenByThird
    <3>4. QED
      BY <3>2, <3>3, WinnersGrow
  <2>3. QED
    BY <2>1, <2>2
<1>4. QED
  BY <1>1, <1>2, <1>3

-----------------------------------------------------------------------------
(* What a refused request leaves behind *)

(* Where a request that has stored nothing is. *)
Unstored == {"new", "conflict", "checking", "deleting", "reclaiming", "dup409", "claimed", "verified",
             "bad400"}

(* Where one may be that has dispatched its session. *)
Dispatched == {"accepted", "cleaning", "forgetting", "failed"}

(* Failed calls after which a record may stay. *)
Leaving == {"verified", "probing", "cleaning", "forgetting"}

StoredInv ==
  \A r \in Requests :
    /\ life[r] # "none" => pc[r] \in Dispatched
    /\ life[r] # "none" /\ pc[r] # "accepted" => "submitting" \in hit[r]
    /\ pc[r] \in Unstored => meta[r] = "none"
    /\ pc[r] = "failed" /\ meta[r] # "none" => life[r] # "none" \/ hit[r] \cap Leaving # {}

LEMMA StoredInvStep == UploadInv /\ StoredInv /\ [UploadNext]_uploadVars => StoredInv'
<1> SUFFICES ASSUME UploadInv, StoredInv, [UploadNext]_uploadVars PROVE StoredInv'
  OBVIOUS
<1>1. ASSUME NEW r \in Requests, RequestStep(r) PROVE StoredInv'
  <2>0. CASE hit' # hit
    <3>1. Fault(r)
      BY <1>1, <2>0, FaultsOfStep DEF FaultStep, NoFault
    <3>2. hit' = [hit EXCEPT ![r] = @ \cup {pc[r]}]
      BY <3>1, FaultShows DEF UploadInv
    <3> USE <3>2 DEF UploadInv, UploadTypeOK, StoredInv, Unstored, Dispatched, Leaving, At
    <3>3. CASE ClaimFails(r)
      BY <3>3 DEF ClaimFails
    <3>4. CASE TakeoverFails(r)
      BY <3>4 DEF TakeoverFails
    <3>5. CASE WriteMetadata(r)
      BY <2>0, <3>5 DEF WriteMetadata, NoFault
    <3>6. CASE Register(r) \/ ProbeWorker(r)
      BY <2>0, <3>6 DEF Register, ProbeWorker, NoFault
    <3>7. CASE SubmitTask(r)
      BY <2>0, <3>7 DEF SubmitTask, NoFault
    <3>8. CASE CleanClaim(r) \/ ForgetMetadata(r)
      BY <2>0, <3>8 DEF CleanClaim, ForgetMetadata, NoFault
    <3>9. CASE TryClaim(r) \/ ReadClaim(r) \/ CheckExisting(r) \/ DeleteClaim(r) \/ Reclaim(r)
               \/ Verify(r)
      BY <2>0, <3>9 DEF TryClaim, ReadClaim, CheckExisting, Judge, DeleteClaim, Reclaim, ClaimOr,
                        Verify, NoFault
    <3>10. QED
      BY <1>1, <3>3, <3>4, <3>5, <3>6, <3>7, <3>8, <3>9 DEF RequestStep
  <2>1. CASE hit' = hit
    <3>1. [hit EXCEPT ![r] = @ \cup {pc[r]}][r] = hit[r] \cup {pc[r]}
      BY DEF UploadInv, UploadTypeOK
    <3>2. Fault(r) => pc[r] \in hit'[r]
      BY <3>1, FaultShows DEF UploadInv
    <3> USE <2>1 DEF UploadInv, UploadTypeOK, StoredInv, Unstored, Dispatched, Leaving, At
    <3>3. CASE TryClaim(r) \/ Reclaim(r)
      BY <3>3 DEF TryClaim, Reclaim, ClaimOr
    <3>4. CASE ClaimFails(r) \/ ReadClaim(r)
      BY <3>4 DEF ClaimFails, ReadClaim
    <3>5. CASE CheckExisting(r) \/ DeleteClaim(r) \/ TakeoverFails(r)
      BY <3>5 DEF CheckExisting, Judge, DeleteClaim, TakeoverFails
    <3>6. CASE Verify(r)
      BY <3>6 DEF Verify
    <3>7. CASE WriteMetadata(r)
      BY <3>2, <3>7 DEF WriteMetadata
    <3>8. CASE Register(r) \/ ProbeWorker(r)
      BY <3>2, <3>8 DEF Register, ProbeWorker
    <3>9. CASE SubmitTask(r)
      BY <3>2, <3>9 DEF SubmitTask
    <3>10. CASE CleanClaim(r)
      BY <3>2, <3>10 DEF CleanClaim
    <3>11. CASE ForgetMetadata(r)
      BY <3>2, <3>11 DEF ForgetMetadata
    <3>12. QED
      BY <1>1, <3>3, <3>4, <3>5, <3>6, <3>7, <3>8, <3>9, <3>10, <3>11 DEF RequestStep
  <2>2. QED
    BY <2>0, <2>1
<1>2. ASSUME NEW r \in Requests, WorkerStep(r) PROVE StoredInv'
  <2> USE DEF UploadInv, UploadTypeOK, StoredInv, Unstored, Dispatched, NoFault
  <2>1. CASE StartRun(r) \/ Pause(r)
    BY <2>1 DEF StartRun, Pause, Live
  <2>2. CASE EndRun(r)
    BY <2>2 DEF EndRun, Live
  <2>3. CASE ReleaseAfterFailure(r)
    BY <2>3 DEF ReleaseAfterFailure
  <2>4. QED
    BY <1>2, <2>1, <2>2, <2>3 DEF WorkerStep
<1>3. CASE UNCHANGED uploadVars
  BY <1>3 DEF uploadVars, StoredInv
<1>4. QED
  BY <1>1, <1>2, <1>3 DEF UploadNext

(* Every reachable state of the uploads is well typed.                     *)
THEOREM UploadTypeCorrect == UploadSpec => []UploadTypeOK
<1>1. UploadInv => UploadTypeOK
  BY DEF UploadInv
<1>2. QED
  BY <1>1, UploadInvInit, UploadInvStep, PTL DEF UploadSpec

(* For any number of requests that race to take over a dead claim, one     *)
(* that is told "duplicate" lost it to a third that has it.                *)
THEOREM DuplicatesAreReal == UploadSpec => []NoFalseDuplicate
<1>1. UploadInit => FreshInv
  <2>1. UploadInit => TakenByThird /\ NoFalseDuplicate
    BY DEF UploadInit, TakenByThird, NoFalseDuplicate
  <2>2. QED
    BY <2>1, UploadInvInit DEF FreshInv
<1>2. FreshInv => NoFalseDuplicate
  BY DEF FreshInv
<1>3. QED
  BY <1>1, <1>2, FreshStep, PTL DEF UploadSpec

(* A request that is answered with an error has left no session and no     *)
(* record but those its own failed calls explain: a submission that raised *)
(* after it was applied, a failed write or clean-up, a probe that raised.  *)
THEOREM RefusalsLeaveNothing == UploadSpec => []FailedUploadLeavesNoSession
<1>1. UploadInit => StoredInv
  BY DEF UploadInit, StoredInv
<1>2. UploadInv /\ StoredInv => FailedUploadLeavesNoSession
  BY DEF UploadInv, StoredInv, FailedUploadLeavesNoSession, Answers, Unstored, Leaving
<1>3. QED
  BY <1>1, <1>2, UploadInvInit, UploadInvStep, StoredInvStep, PTL DEF UploadSpec
=============================================================================
