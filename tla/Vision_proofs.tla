---------------------------- MODULE Vision_proofs ----------------------------
(***************************************************************************)
(* Proofs about the shared visual context and the calls of the visual model *)
(* it rests on, for any calls, sessions, models, times to live, retries and *)
(* number of failures.                                                     *)
(***************************************************************************)
EXTENDS VisualContext, GeminiCalls, FiniteSetTheorems, TLAPS

-----------------------------------------------------------------------------
(* The type invariant *)

LEMMA FaultType ==
  ASSUME VisualTypeOK, RedisFault \/ UNCHANGED <<excused, visualFaults>>
  PROVE  excused' \in BOOLEAN /\ visualFaults' \in 0 .. MaxTroubles
<1>1. CASE RedisFault
  <2>1. excused' = TRUE /\ visualFaults' = visualFaults + 1 /\ visualFaults + deaths < MaxTroubles
    BY <1>1 DEF RedisFault, Trouble
  <2>2. visualFaults \in Nat /\ deaths \in Nat /\ MaxTroubles \in Nat
    BY VisualAssumption DEF VisualTypeOK, VisualAssumption
  <2>3. visualFaults' \in 0 .. MaxTroubles
    BY <2>1, <2>2
  <2>4. QED
    BY <2>1, <2>3
<1>2. CASE UNCHANGED <<excused, visualFaults>>
  BY <1>2 DEF VisualTypeOK
<1>3. QED
  BY <1>1, <1>2

LEMMA ReadType ==
  ASSUME VisualTypeOK, NEW p \in Preflights, Found(p) \/ Missed(p)
  PROVE  /\ has' \subseteq Preflights
         /\ excused' \in BOOLEAN /\ visualFaults' \in 0 .. MaxTroubles
<1>1. RedisFault \/ UNCHANGED <<excused, visualFaults>>
  BY DEF Found, Missed
<1>2. has' \subseteq Preflights
  BY DEF VisualTypeOK, Found, Missed, Hold
<1>3. QED
  BY <1>1, <1>2, FaultType

LEMMA TypeInit == VisualInit => VisualTypeOK
<1> SUFFICES ASSUME VisualInit PROVE VisualTypeOK
  OBVIOUS
<1>1. 0 \in 0 .. LockTTL /\ 0 \in 0 .. ReadTTL /\ 0 \in 0 .. MaxTroubles
  BY VisualAssumption DEF VisualAssumption
<1>2. QED
  BY <1>1 DEF VisualInit, VisualTypeOK

LEMMA StepType ==
  ASSUME VisualTypeOK, NEW p \in Preflights, VisualStep(p)
  PROVE  VisualTypeOK'
<1> USE VisualAssumption DEF VisualAssumption, Ended, Go, Create
<1>1. CASE Look(p)
  BY <1>1, ReadType DEF Look, VisualTypeOK
<1>2. CASE Elect(p)
  BY <1>2, FaultType DEF Elect, VisualTypeOK
<1>3. CASE Wait(p)
  BY <1>3, ReadType DEF Wait, VisualTypeOK
<1>4. CASE Peek(p)
  BY <1>4, FaultType DEF Peek, VisualTypeOK
<1>5. CASE Recheck(p)
  BY <1>5, ReadType DEF Recheck, VisualTypeOK
<1>6. CASE Created(p)
  BY <1>6 DEF Created, Hold, VisualTypeOK
<1>7. CASE CreationFails(p)
  BY <1>7 DEF CreationFails, AfterSave, VisualTypeOK
<1>8. CASE SaveSession(p)
  BY <1>8, FaultType DEF SaveSession, AfterSave, VisualTypeOK
<1>9. CASE SaveHash(p)
  BY <1>9, FaultType DEF SaveHash, AfterSave, VisualTypeOK
<1>10. CASE Release(p)
  BY <1>10, FaultType DEF Release, VisualTypeOK
<1>11. CASE DeleteLock(p)
  BY <1>11, FaultType DEF DeleteLock, VisualTypeOK
<1>12. QED
  BY <1>1, <1>2, <1>3, <1>4, <1>5, <1>6, <1>7, <1>8, <1>9, <1>10, <1>11 DEF VisualStep

LEMMA TypeStep == VisualTypeOK /\ [VisualNext]_visualVars => VisualTypeOK'
<1> SUFFICES ASSUME VisualTypeOK, [VisualNext]_visualVars PROVE VisualTypeOK'
  OBVIOUS
<1>1. ASSUME NEW p \in Preflights, VisualStep(p) PROVE VisualTypeOK'
  BY <1>1, StepType
<1>2. ASSUME NEW p \in Preflights, ElectNobody(p) PROVE VisualTypeOK'
  BY <1>2, FaultType DEF ElectNobody, Create, Go, VisualTypeOK, Ended
<1>3. ASSUME NEW p \in Preflights, Die(p) PROVE VisualTypeOK'
  BY <1>3, VisualAssumption DEF Die, Trouble, Go, VisualTypeOK, Ended, VisualAssumption
<1>4. CASE Tick
  BY <1>4, VisualAssumption DEF Tick, Less, VisualTypeOK, VisualAssumption
<1>5. CASE UNCHANGED visualVars
  BY <1>5 DEF visualVars, VisualTypeOK
<1>6. QED
  BY <1>1, <1>2, <1>3, <1>4, <1>5 DEF VisualNext

(* Every reachable state of the election, the wait and the two caches is   *)
(* well typed.                                                             *)
THEOREM VisualTypeCorrect == VisualSpec => []VisualTypeOK
<1>1. VisualInit => VisualTypeOK
  BY TypeInit
<1>2. VisualTypeOK /\ [VisualNext]_visualVars => VisualTypeOK'
  BY TypeStep
<1>3. QED
  BY <1>1, <1>2, PTL DEF VisualSpec

-----------------------------------------------------------------------------
(* The lock *)

AsOwner == {"recheck", "create", "saveSession", "saveHash", "release", "delete", "dead"}

(* The lock holds the token of a call that has still to give it back, or   *)
(* whose process died, or Redis failed.                                    *)
OwnerAtWork ==
  \A p \in Preflights : lock = p => visualFaults > 0 \/ (p \in owns /\ at[p] \in AsOwner)

(* Faults are never forgotten. *)
LEMMA FaultsGrow ==
  ASSUME VisualTypeOK, [VisualNext]_visualVars
  PROVE  visualFaults \in Nat /\ visualFaults' \in Nat /\ visualFaults' >= visualFaults
<1>0. visualFaults \in Nat
  BY VisualAssumption DEF VisualAssumption, VisualTypeOK
<1>1. ASSUME NEW p \in Preflights, VisualStep(p)
      PROVE  RedisFault \/ visualFaults' = visualFaults
  BY <1>1 DEF VisualStep, Look, Elect, Wait, Peek, Recheck, Created, CreationFails, SaveSession,
              SaveHash, Release, DeleteLock, Found, Missed
<1>2. ASSUME NEW p \in Preflights, ElectNobody(p) \/ Die(p)
      PROVE  RedisFault \/ visualFaults' = visualFaults
  BY <1>2 DEF ElectNobody, Die
<1>3. ASSUME Tick \/ UNCHANGED visualVars
      PROVE  visualFaults' = visualFaults
  BY <1>3 DEF Tick, visualVars
<1>4. RedisFault \/ visualFaults' = visualFaults
  BY <1>1, <1>2, <1>3 DEF VisualNext
<1>5. RedisFault => visualFaults' = visualFaults + 1
  BY DEF RedisFault
<1>6. QED
  BY <1>0, <1>4, <1>5

LEMMA OwnerStep ==
  ASSUME VisualTypeOK, OwnerAtWork, visualFaults' = visualFaults, NEW p \in Preflights, VisualStep(p)
  PROVE  OwnerAtWork'
<1> USE VisualAssumption DEF VisualAssumption, OwnerAtWork, AsOwner, Go, Create, VisualTypeOK
<1>0. ~RedisFault
  BY DEF RedisFault
<1>1. CASE Look(p)
  BY <1>1 DEF Look
<1>2. CASE Elect(p)
  BY <1>0, <1>2 DEF Elect
<1>3. CASE Wait(p)
  BY <1>3 DEF Wait
<1>4. CASE Peek(p)
  BY <1>4 DEF Peek
<1>5. CASE Recheck(p)
  BY <1>5 DEF Recheck
<1>6. CASE Created(p)
  BY <1>6 DEF Created
<1>7. CASE CreationFails(p)
  BY <1>7 DEF CreationFails, AfterSave
<1>8. CASE SaveSession(p)
  BY <1>8 DEF SaveSession, AfterSave
<1>9. CASE SaveHash(p)
  BY <1>9 DEF SaveHash, AfterSave
<1>10. CASE Release(p)
  BY <1>0, <1>10 DEF Release
<1>11. CASE DeleteLock(p)
  BY <1>0, <1>11 DEF DeleteLock
<1>12. QED
  BY <1>1, <1>2, <1>3, <1>4, <1>5, <1>6, <1>7, <1>8, <1>9, <1>10, <1>11 DEF VisualStep

LEMMA OwnerAlways == VisualTypeOK /\ OwnerAtWork /\ [VisualNext]_visualVars => OwnerAtWork'
<1> SUFFICES ASSUME VisualTypeOK, OwnerAtWork, [VisualNext]_visualVars PROVE OwnerAtWork'
  OBVIOUS
<1>1. CASE visualFaults' # visualFaults
  <2>1. visualFaults' > 0
    BY <1>1, FaultsGrow
  <2>2. QED
    BY <2>1 DEF OwnerAtWork
<1>2. CASE visualFaults' = visualFaults
  <2>1. ASSUME NEW p \in Preflights, VisualStep(p) PROVE OwnerAtWork'
    BY <1>2, <2>1, OwnerStep
  <2>2. ASSUME NEW p \in Preflights, ElectNobody(p) PROVE OwnerAtWork'
    <3>1. visualFaults' # visualFaults
      BY <2>2, VisualAssumption DEF ElectNobody, RedisFault, VisualTypeOK, VisualAssumption
    <3>2. QED
      BY <1>2, <3>1
  <2>3. ASSUME NEW p \in Preflights, Die(p) PROVE OwnerAtWork'
    BY <2>3 DEF Die, OwnerAtWork, Go, AsOwner, VisualTypeOK
  <2>4. CASE Tick
    BY <2>4, VisualAssumption DEF Tick, OwnerAtWork, VisualAssumption
  <2>5. CASE UNCHANGED visualVars
    BY <2>5 DEF visualVars, OwnerAtWork
  <2>6. QED
    BY <2>1, <2>2, <2>3, <2>4, <2>5 DEF VisualNext
<1>3. QED
  BY <1>1, <1>2

(* The elected creator gives its lock back on every way out of             *)
(* create_visual_context_preflight: a hit after the second look, a read, a *)
(* failed creation, a failed save.                                         *)
THEOREM LockIsReturned == VisualSpec => []NoLockLeftBehind
<1>1. VisualInit => VisualTypeOK /\ OwnerAtWork
  BY TypeInit, VisualAssumption DEF VisualInit, OwnerAtWork, VisualAssumption
<1>2. VisualTypeOK /\ OwnerAtWork /\ [VisualNext]_visualVars => (VisualTypeOK /\ OwnerAtWork)'
  BY TypeStep, OwnerAlways
<1>3. OwnerAtWork => NoLockLeftBehind
  BY DEF OwnerAtWork, NoLockLeftBehind, AsOwner
<1>4. QED
  BY <1>1, <1>2, <1>3, PTL DEF VisualSpec

-----------------------------------------------------------------------------
(* The result *)

(* A context in hand is about to be stored for the session, or has been.   *)
HeldIsStored ==
  \A p \in Preflights :
    p \in has => \/ at[p] \in {"saveSession", "dead"}
                 \/ SessionOf[p] \in shown \/ visualFaults > 0

LEMMA HeldStep ==
  ASSUME VisualTypeOK, HeldIsStored, visualFaults' = visualFaults, NEW p \in Preflights, VisualStep(p)
  PROVE  HeldIsStored'
<1> USE DEF HeldIsStored, Go, Create, VisualTypeOK
<1>0. ~RedisFault
  BY VisualAssumption DEF RedisFault, VisualAssumption
<1>1. CASE Look(p)
  BY <1>1 DEF Look, Found, Missed, Hold
<1>2. CASE Elect(p) \/ Peek(p)
  BY <1>2 DEF Elect, Peek
<1>3. CASE Wait(p)
  BY <1>3 DEF Wait, Found, Missed, Hold
<1>4. CASE Recheck(p)
  BY <1>4 DEF Recheck, Found, Missed, Hold
<1>5. CASE Created(p)
  BY <1>5 DEF Created, Hold
<1>6. CASE CreationFails(p)
  BY <1>6 DEF CreationFails
<1>7. CASE SaveSession(p)
  BY <1>0, <1>7 DEF SaveSession
<1>8. CASE SaveHash(p)
  BY <1>8 DEF SaveHash
<1>9. CASE Release(p) \/ DeleteLock(p)
  BY <1>9 DEF Release, DeleteLock
<1>10. QED
  BY <1>1, <1>2, <1>3, <1>4, <1>5, <1>6, <1>7, <1>8, <1>9 DEF VisualStep

LEMMA HeldAlways == VisualTypeOK /\ HeldIsStored /\ [VisualNext]_visualVars => HeldIsStored'
<1> SUFFICES ASSUME VisualTypeOK, HeldIsStored, [VisualNext]_visualVars PROVE HeldIsStored'
  OBVIOUS
<1>1. CASE visualFaults' # visualFaults
  <2>1. visualFaults' > 0
    BY <1>1, FaultsGrow
  <2>2. QED
    BY <2>1 DEF HeldIsStored
<1>2. CASE visualFaults' = visualFaults
  <2>1. ASSUME NEW p \in Preflights, VisualStep(p) PROVE HeldIsStored'
    BY <1>2, <2>1, HeldStep
  <2>2. ASSUME NEW p \in Preflights, ElectNobody(p) PROVE HeldIsStored'
    BY <1>2, <2>2, VisualAssumption
       DEF ElectNobody, RedisFault, VisualTypeOK, VisualAssumption
  <2>3. ASSUME NEW p \in Preflights, Die(p) PROVE HeldIsStored'
    BY <2>3 DEF Die, HeldIsStored, Go, VisualTypeOK
  <2>4. CASE Tick
    BY <2>4 DEF Tick, HeldIsStored
  <2>5. CASE UNCHANGED visualVars
    BY <2>5 DEF visualVars, HeldIsStored
  <2>6. QED
    BY <2>1, <2>2, <2>3, <2>4, <2>5 DEF VisualNext
<1>3. QED
  BY <1>1, <1>2

(* Whoever created it, a call that returns a context has stored it for its *)
(* own session first.                                                      *)
THEOREM ContextIsStored == VisualSpec => []ResultIsVisible
<1>1. VisualInit => VisualTypeOK /\ HeldIsStored
  BY TypeInit DEF VisualInit, HeldIsStored
<1>2. VisualTypeOK /\ HeldIsStored /\ [VisualNext]_visualVars => (VisualTypeOK /\ HeldIsStored)'
  BY TypeStep, HeldAlways
<1>3. HeldIsStored => ResultIsVisible
  BY DEF HeldIsStored, ResultIsVisible
<1>4. QED
  BY <1>1, <1>2, <1>3, PTL DEF VisualSpec
-----------------------------------------------------------------------------
(* Single flight *)

(* Nothing has failed or expired, and the file has no context yet. *)
Quiet == ~excused /\ cached = 0

(* Then whoever asked the model, or is about to, holds the lock; whoever   *)
(* waits finds it held and has time left; and nobody is giving it back.    *)
SoleCreator ==
  /\ ~excused => \A p \in Preflights : at[p] \in {"wait", "peek"} => patience[p] > 0
  /\ Quiet =>
       \A p \in Preflights :
         /\ at[p] \in {"wait", "peek"} => lock # NoOne
         /\ at[p] \notin {"release", "delete"}
         /\ p \in asked \/ at[p] \in {"recheck", "create"} => lock = p

LEMMA SoleInit == VisualInit => SoleCreator
BY DEF VisualInit, SoleCreator

LEMMA SoleStep ==
  ASSUME VisualTypeOK, SoleCreator, NEW p \in Preflights, VisualStep(p), ~excused'
  PROVE  SoleCreator'
<1> USE VisualAssumption DEF VisualAssumption, SoleCreator, Quiet, Go, Create, VisualTypeOK
<1>0. ~RedisFault
  BY DEF RedisFault
<1>1. CASE Look(p)
  BY <1>0, <1>1 DEF Look, Found, Missed, Hold
<1>2. CASE Elect(p)
  BY <1>0, <1>2 DEF Elect
<1>3. CASE Wait(p)
  BY <1>0, <1>3 DEF Wait, Found, Missed, Hold
<1>4. CASE Peek(p)
  BY <1>0, <1>4 DEF Peek
<1>5. CASE Recheck(p)
  BY <1>0, <1>5 DEF Recheck, Found, Missed, Hold
<1>6. CASE Created(p)
  BY <1>6 DEF Created
<1>7. CASE CreationFails(p)
  BY <1>7 DEF CreationFails
<1>8. CASE SaveSession(p)
  BY <1>0, <1>8 DEF SaveSession
<1>9. CASE SaveHash(p)
  BY <1>0, <1>9 DEF SaveHash, AfterSave
<1>10. CASE Release(p)
  BY <1>0, <1>10 DEF Release
<1>11. CASE DeleteLock(p)
  BY <1>0, <1>11 DEF DeleteLock
<1>12. QED
  BY <1>1, <1>2, <1>3, <1>4, <1>5, <1>6, <1>7, <1>8, <1>9, <1>10, <1>11 DEF VisualStep

LEMMA SoleTick ==
  ASSUME VisualTypeOK, SoleCreator, Tick, ~excused'
  PROVE  SoleCreator'
<1> USE VisualAssumption DEF VisualAssumption, VisualTypeOK
<1>1. /\ ~excused /\ at' = at /\ asked' = asked
      /\ ~(lock # NoOne /\ lock' = NoOne) /\ cached # 1
      /\ ~ \E p \in Preflights : at[p] \in {"wait", "peek"} /\ patience[p] = 1
  BY DEF Tick
<1>2. cached' = 0 => cached = 0
  BY <1>1 DEF Tick, Less
<1>3. lock' = lock
  BY <1>1 DEF Tick
<1>4. ASSUME NEW p \in Preflights, at[p] \in {"wait", "peek"}
      PROVE  patience'[p] > 0
  <2>1. patience[p] > 0 /\ patience[p] \in Nat /\ patience[p] # 1
    BY <1>1, <1>4 DEF SoleCreator
  <2>2. patience'[p] = patience[p] - 1
    BY <1>4, <2>1 DEF Tick, Less
  <2>3. QED
    BY <2>1, <2>2
<1>5. QED
  BY <1>1, <1>2, <1>3, <1>4 DEF SoleCreator, Quiet

LEMMA SoleAlways == VisualTypeOK /\ SoleCreator /\ [VisualNext]_visualVars => SoleCreator'
<1> SUFFICES ASSUME VisualTypeOK, SoleCreator, [VisualNext]_visualVars PROVE SoleCreator'
  OBVIOUS
<1>1. CASE excused'
  BY <1>1 DEF SoleCreator, Quiet
<1>2. CASE ~excused'
  <2>1. ASSUME NEW p \in Preflights, VisualStep(p) PROVE SoleCreator'
    BY <1>2, <2>1, SoleStep
  <2>2. ASSUME NEW p \in Preflights, ElectNobody(p) \/ Die(p) PROVE SoleCreator'
    BY <1>2, <2>2 DEF ElectNobody, RedisFault, Die
  <2>3. CASE Tick
    BY <1>2, <2>3, SoleTick
  <2>4. CASE UNCHANGED visualVars
    BY <2>4 DEF visualVars, SoleCreator, Quiet
  <2>5. QED
    BY <2>1, <2>2, <2>3, <2>4 DEF VisualNext
<1>3. QED
  BY <1>1, <1>2

(* "a short-lived Redis SETNX lock keyed by sha256 elects ONE creator"     *)
(* (core/visual_context_store.py:457): until the context of the file is    *)
(* stored, and unless something failed or expired.                         *)
THEOREM OneCreatorElected == VisualSpec => []FirstCreationAlone
<1>1. VisualInit => VisualTypeOK /\ SoleCreator
  BY TypeInit, SoleInit
<1>2. VisualTypeOK /\ SoleCreator /\ [VisualNext]_visualVars => (VisualTypeOK /\ SoleCreator)'
  BY TypeStep, SoleAlways
<1>3. VisualTypeOK /\ SoleCreator => FirstCreationAlone
  <2> SUFFICES ASSUME VisualTypeOK, SoleCreator, ~excused, ~(cached > 0)
               PROVE  ~(Cardinality(asked) > 1)
    BY DEF FirstCreationAlone
  <2>0. Quiet
    BY VisualAssumption DEF Quiet, VisualTypeOK, VisualAssumption
  <2>1. asked \subseteq {lock}
    BY <2>0 DEF SoleCreator, VisualTypeOK
  <2>2. IsFiniteSet({lock}) /\ Cardinality({lock}) = 1
    BY FS_Singleton
  <2>3. Cardinality(asked) \in Nat /\ Cardinality(asked) <= 1
    BY <2>1, <2>2, FS_Subset, FS_CardinalityType
  <2>4. QED
    BY <2>3
<1>4. QED
  BY <1>1, <1>2, <1>3, PTL DEF VisualSpec

-----------------------------------------------------------------------------
(* The attempts of a walk *)

LEMMA Times == \A c \in Visions : TimesEach(c) \in Nat \ {0} /\ TimesEach(c) <= Retries
BY GeminiAssumption DEF GeminiAssumption, TimesEach

LEMMA BlockOf ==
  ASSUME NEW t \in Nat \ {0}, NEW k \in Nat
  PROVE  (k * t) \div t = k /\ k * t \in Nat
OBVIOUS

LEMMA BlockIn ==
  ASSUME NEW t \in Nat \ {0}, NEW n \in Nat, NEW i \in 1 .. n * t
  PROVE  (i - 1) \div t \in 0 .. n - 1
OBVIOUS

(* The attempts of a preflight go through every model. *)
LEMMA EveryModelHasAttempt ==
  ASSUME NEW c \in Visions, NEW k \in DOMAIN Cascade
  PROVE  \E j \in Attempts(c) : ModelAt(c, j) = Cascade[k]
<1> DEFINE t == TimesEach(c)
           j == (k - 1) * t + 1
<1>1. t \in Nat \ {0} /\ k \in Nat \ {0} /\ k <= Len(Cascade) /\ Len(Cascade) \in Nat
  BY Times, GeminiAssumption DEF GeminiAssumption
<1>2. (k - 1) * t \in Nat /\ ((k - 1) * t) \div t = k - 1
  <2>1. k - 1 \in Nat
    BY <1>1
  <2>2. QED
    BY <1>1, <2>1, BlockOf
<1>3. j <= Len(Cascade) * t
  <2>1. (k - 1) * t + t = k * t
    BY <1>1
  <2>2. k * t <= Len(Cascade) * t
    BY <1>1
  <2>3. QED
    BY <1>1, <1>2, <2>1, <2>2
<1>4. j \in Attempts(c) /\ ((j - 1) \div t) + 1 = k
  BY <1>1, <1>2, <1>3 DEF Attempts
<1>5. QED
  BY <1>4 DEF ModelAt

LEMMA AttemptAsksModel ==
  ASSUME NEW c \in Visions, NEW j \in Attempts(c)
  PROVE  ModelAt(c, j) \in VisionModels
<1>1. TimesEach(c) \in Nat \ {0} /\ Len(Cascade) \in Nat /\ DOMAIN Cascade = 1 .. Len(Cascade)
  BY Times, GeminiAssumption DEF GeminiAssumption
<1>2. (j - 1) \div TimesEach(c) \in 0 .. Len(Cascade) - 1
  BY <1>1, BlockIn DEF Attempts
<1>3. QED
  BY <1>1, <1>2 DEF ModelAt, VisionModels

LEMMA AttemptsFit ==
  ASSUME NEW c \in Visions PROVE Attempts(c) \subseteq 0 .. Len(Cascade) * Retries
<1>1. TimesEach(c) \in Nat \ {0} /\ TimesEach(c) <= Retries /\ Len(Cascade) \in Nat /\ Retries \in Nat
  BY Times, GeminiAssumption DEF GeminiAssumption
<1>2. Len(Cascade) * TimesEach(c) <= Len(Cascade) * Retries
  BY <1>1
<1>3. QED
  BY <1>1, <1>2 DEF Attempts

-----------------------------------------------------------------------------
(* Where a preflight has got to *)

BeforeWalk == {"ask", "local", "upload", "poll", "encode"}
NotUploaded == {"ask", "local", "upload", "encode"}

(* The types, and the counters and the name that a preflight has no use    *)
(* for yet.                                                                *)
Started ==
  /\ \A c \in Visions : phase[c] \in BeforeWalk => attempt[c] = 0
  /\ \A c \in Visions : phase[c] \in InPool \cup {"slot"} => attempt[c] \in Attempts(c)
  /\ \A c \in Visions : phase[c] = "upload" => c \in Native
  /\ \A c \in Visions : phase[c] \in NotUploaded => c \notin named

GeminiInv == GeminiTypeOK /\ Started

LEMMA GeminiInvInit == GeminiInit => GeminiInv
<1> SUFFICES ASSUME GeminiInit PROVE GeminiInv
  OBVIOUS
<1>1. 0 \in 0 .. Len(Cascade) * Retries
  <2>1. Len(Cascade) \in Nat /\ Retries \in Nat
    BY GeminiAssumption DEF GeminiAssumption
  <2>2. Len(Cascade) * Retries \in Nat
    BY <2>1
  <2>3. QED
    BY <2>2
<1>2. 0 \in 0 .. Cooldown /\ 0 \in 0 .. MaxCuts
  BY GeminiAssumption DEF GeminiAssumption
<1>3. QED
  BY <1>1, <1>2 DEF GeminiInit, GeminiInv, GeminiTypeOK, Started, InPool, BeforeWalk, NotUploaded

LEMMA AskedIsModel ==
  ASSUME GeminiInv, NEW c \in Visions, phase[c] \in InPool
  PROVE  Asked(c) \in VisionModels
BY AttemptAsksModel DEF GeminiInv, Started, Asked

LEMMA DiscardTypes ==
  ASSUME GeminiTypeOK, NEW c \in Visions, c \in Native \/ c \notin named, Discard(c)
  PROVE  /\ named' \subseteq uploads' /\ uploads' \subseteq Native /\ loose' \subseteq Native
         /\ named' = named \ {c}
BY DEF GeminiTypeOK, Discard

LEMMA KeepTypes ==
  ASSUME GeminiTypeOK, NEW c \in Visions, NEW reader \in {"gemini", "ensemble"}, Keep(c, reader)
  PROVE  /\ given' \in [Visions -> {"none", "read", "empty", "raised", "exhausted", "refused", "cancelled"}]
         /\ kept' \subseteq Files
         /\ readers' \in [Visions \cup Files -> {"nobody", "gemini", "ensemble"}]
BY GeminiAssumption DEF GeminiTypeOK, Keep, Result, GeminiAssumption

LEMMA QuitTypes ==
  ASSUME GeminiInv, NEW c \in Visions, Quit(c)
  PROVE  /\ phase' \in [Visions -> {"ask", "local", "upload", "poll", "encode", "turn", "slot",
                                    "sweep", "done"} \cup InPool]
         /\ phase' = [phase EXCEPT ![c] = "done"]
         /\ attempt' \in [Visions -> 0 .. Len(Cascade) * Retries]
         /\ \A d \in Visions : d # c => attempt'[d] = attempt[d]
         /\ toSkip' \in [Visions -> SUBSET VisionModels] /\ tried' \in [Visions -> SUBSET VisionModels]
         /\ lastError' \in [Visions -> {"none", "transient", "other"}]
<1>1. 0 \in 0 .. Len(Cascade) * Retries
  <2>1. Len(Cascade) \in Nat /\ Retries \in Nat
    BY GeminiAssumption DEF GeminiAssumption
  <2>2. Len(Cascade) * Retries \in Nat
    BY <2>1
  <2>3. QED
    BY <2>2
<1>2. attempt' \in [Visions -> 0 .. Len(Cascade) * Retries]
  BY <1>1 DEF Quit, GeminiInv, GeminiTypeOK
<1>3. QED
  BY <1>2 DEF Quit, Move, GeminiInv, GeminiTypeOK

(* The return of a call, when what it leaves behind is well typed. *)
LEMMA QuitStep ==
  ASSUME GeminiInv, NEW c \in Visions, Quit(c), UNCHANGED healthVars, cuts' \in 0 .. MaxCuts,
         given' \in [Visions -> {"none", "read", "empty", "raised", "exhausted", "refused", "cancelled"}],
         kept' \subseteq Files, readers' \in [Visions \cup Files -> {"nobody", "gemini", "ensemble"}],
         named' \subseteq uploads', uploads' \subseteq Native, loose' \subseteq Native,
         named' \subseteq named
  PROVE  GeminiInv'
<1>1. GeminiTypeOK'
  BY QuitTypes DEF GeminiInv, GeminiTypeOK, healthVars
<1>2. phase' = [phase EXCEPT ![c] = "done"] /\ phase \in [Visions -> {"ask", "local", "upload", "poll",
        "encode", "turn", "slot", "sweep", "done"} \cup InPool]
      /\ \A d \in Visions : d # c => attempt'[d] = attempt[d]
  BY QuitTypes DEF GeminiInv, GeminiTypeOK
<1>3. Started'
  BY <1>2 DEF GeminiInv, Started, InPool, BeforeWalk, NotUploaded
<1>4. QED
  BY <1>1, <1>3 DEF GeminiInv

LEMMA NextAttemptTypes ==
  ASSUME GeminiInv, NEW c \in Visions, phase[c] \in InPool,
         NEW error \in {"transient", "other"}, NEW skip \in BOOLEAN, NextAttempt(c, error, skip),
         UNCHANGED cuts
  PROVE  GeminiInv'
<1>1. Asked(c) \in VisionModels
  BY AskedIsModel
<1>2. toSkip' \in [Visions -> SUBSET VisionModels] /\ tried' \in [Visions -> SUBSET VisionModels]
  BY <1>1 DEF NextAttempt, GeminiInv, GeminiTypeOK
<1>3. phase' \in [Visions -> {"ask", "local", "upload", "poll", "encode", "turn", "slot",
                              "sweep", "done"} \cup InPool]
      /\ phase' = [phase EXCEPT ![c] = "turn"]
  BY DEF NextAttempt, Move, GeminiInv, GeminiTypeOK
<1>4. GeminiTypeOK'
  BY <1>2, <1>3 DEF NextAttempt, GeminiInv, GeminiTypeOK, fileVars, healthVars, cacheVars
<1>5. Started'
  BY <1>3 DEF NextAttempt, GeminiInv, GeminiTypeOK, Started, fileVars, InPool, BeforeWalk, NotUploaded
<1>6. QED
  BY <1>4, <1>5 DEF GeminiInv

(* The steps before the walk. *)
LEMMA DeliveryTypes ==
  ASSUME GeminiInv, NEW c \in Visions, UNCHANGED cuts,
         Preflight(c) \/ ReadLocally(c) \/ Upload(c) \/ Poll(c) \/ Encode(c)
  PROVE  GeminiInv'
<1> USE DEF GeminiInv, GeminiTypeOK, Started, InPool, BeforeWalk, NotUploaded, fileVars, healthVars,
            cacheVars, walkVars
<1>1. CASE Preflight(c)
  <2>1. CASE FileOf[c] \in kept
    <3>1. Quit(c) /\ Result(c, "read") /\ readers' = [readers EXCEPT ![c] = readers[FileOf[c]]]
          /\ UNCHANGED <<fileVars, healthVars, kept>>
      BY <1>1, <2>1 DEF Preflight
    <3>2. QED
      BY <3>1, QuitStep, GeminiAssumption DEF Result, GeminiAssumption
  <2>2. CASE FileOf[c] \notin kept
    <3>1. /\ Move(c, IF InCooldown THEN "local" ELSE Delivery(c))
          /\ UNCHANGED <<given, walkVars, readers, fileVars, healthVars, kept>>
          /\ phase[c] = "ask"
      BY <1>1, <2>2 DEF Preflight
    <3>2. QED
      BY <3>1 DEF Move, Delivery
  <2>3. QED
    BY <2>1, <2>2
<1>2. CASE ReadLocally(c)
  <2>1. given' \in [Visions -> {"none", "read", "empty", "raised", "exhausted", "refused", "cancelled"}]
        /\ kept' \subseteq Files /\ readers' \in [Visions \cup Files -> {"nobody", "gemini", "ensemble"}]
    BY <1>2, KeepTypes DEF ReadLocally, Result
  <2>2. Quit(c) /\ UNCHANGED <<fileVars, healthVars>>
    BY <1>2 DEF ReadLocally
  <2>3. QED
    BY <2>1, <2>2, QuitStep
<1>3. CASE Upload(c)
  BY <1>3 DEF Upload, Move
<1>4. CASE Poll(c)
  <2>1. CASE UNCHANGED fileVars
    <3>1. phase'[c] # "encode" \/ c \notin named
      BY <1>4, <2>1 DEF Poll, Move, Discard
    <3>2. QED
      BY <1>4, <2>1, <3>1 DEF Poll, Move
  <2>2. CASE Discard(c) /\ Move(c, "encode")
    BY <1>4, <2>2, DiscardTypes DEF Poll, Move
  <2>3. QED
    BY <1>4, <2>1, <2>2 DEF Poll
<1>5. CASE Encode(c)
  <2>1. CASE Quit(c)
    <3>1. given' \in [Visions -> {"none", "read", "empty", "raised", "exhausted", "refused", "cancelled"}]
          /\ UNCHANGED <<fileVars, healthVars, cacheVars>>
      BY <1>5, <2>1 DEF Encode, Result
    <3>2. QED
      BY <2>1, <3>1, QuitStep
  <2>2. CASE ~Quit(c)
    BY <1>5, <2>2 DEF Encode, Move
  <2>3. QED
    BY <2>1, <2>2
<1>6. QED
  BY <1>1, <1>2, <1>3, <1>4, <1>5

LEMMA WalkTypes ==
  ASSUME GeminiInv, NEW c \in Visions, UNCHANGED cuts,
         NextModel(c) \/ EnterPool(c) \/ Guard(c) \/ AttemptFails(c) \/ Refused(c) \/ ReadByModel(c)
           \/ Exhausted(c) \/ Sweep(c)
  PROVE  GeminiInv'
<1> USE DEF GeminiInv, GeminiTypeOK, Started, InPool, BeforeWalk, NotUploaded, fileVars, healthVars,
            cacheVars, walkVars
<1>1. CASE NextModel(c)
  <2>1. PICK i \in Rest(c) : attempt' = [attempt EXCEPT ![c] = i]
    BY <1>1 DEF NextModel
  <2>2. i \in Attempts(c) /\ i \in 0 .. Len(Cascade) * Retries
    BY AttemptsFit DEF Rest
  <2>3. QED
    BY <1>1, <2>1, <2>2 DEF NextModel, Move
<1>2. CASE EnterPool(c)
  BY <1>2 DEF EnterPool, Move
<1>3. CASE Guard(c)
  <2>1. CASE Move(c, "post")
    BY <1>3, <2>1 DEF Guard, Move, NextAttempt
  <2>2. CASE NextAttempt(c, "transient", TRUE)
    BY <1>3, <2>2, NextAttemptTypes DEF Guard
  <2>3. QED
    BY <1>3, <2>1, <2>2 DEF Guard
<1>4. CASE AttemptFails(c)
  BY <1>4, NextAttemptTypes DEF AttemptFails
<1>5. CASE Refused(c)
  BY <1>5, QuitStep DEF Refused, Result
<1>6. CASE ReadByModel(c)
  BY <1>6, GeminiAssumption DEF ReadByModel, Result, Move, GeminiAssumption
<1>7. CASE Exhausted(c)
  <2>1. transientFails' \in Nat /\ cooling' \in 0 .. Cooldown /\ outages' \subseteq Visions
    BY <1>7, GeminiAssumption DEF Exhausted, GeminiAssumption
  <2>2. QED
    BY <1>7, <2>1 DEF Exhausted, Result, Move
<1>8. CASE Sweep(c)
  <2>1. Quit(c) /\ Discard(c) /\ UNCHANGED healthVars
    BY <1>8 DEF Sweep
  <2>2. named' \subseteq uploads' /\ uploads' \subseteq Native /\ loose' \subseteq Native
        /\ named' \subseteq named
    BY <2>1, DiscardTypes
  <2>3. given' \in [Visions -> {"none", "read", "empty", "raised", "exhausted", "refused", "cancelled"}]
        /\ kept' \subseteq Files /\ readers' \in [Visions \cup Files -> {"nobody", "gemini", "ensemble"}]
    <3>1. CASE given[c] = "read"
      BY <1>8, <3>1, KeepTypes DEF Sweep
    <3>2. CASE given[c] = "empty"
      BY <1>8, <3>2 DEF Sweep, Result
    <3>3. CASE given[c] \notin {"read", "empty"}
      BY <1>8, <3>3 DEF Sweep
    <3>4. QED
      BY <3>1, <3>2, <3>3
  <2>4. QED
    BY <2>1, <2>2, <2>3, QuitStep
<1>9. QED
  BY <1>1, <1>2, <1>3, <1>4, <1>5, <1>6, <1>7, <1>8

LEMMA GeminiInvStep == GeminiInv /\ [GeminiNext]_geminiVars => GeminiInv'
<1> SUFFICES ASSUME GeminiInv, [GeminiNext]_geminiVars PROVE GeminiInv'
  OBVIOUS
<1>1. ASSUME NEW c \in Visions, CutVision(c) PROVE GeminiInv'
  <2>1. cuts' \in 0 .. MaxCuts
    BY <1>1, GeminiAssumption DEF CutVision, GeminiInv, GeminiTypeOK, GeminiAssumption
  <2>2. Quit(c) /\ UNCHANGED <<named, loose, healthVars, cacheVars>>
        /\ given' \in [Visions -> {"none", "read", "empty", "raised", "exhausted", "refused", "cancelled"}]
    BY <1>1 DEF CutVision, Result, GeminiInv, GeminiTypeOK
  <2>3. uploads \subseteq uploads' /\ uploads' \subseteq Native
    BY <1>1 DEF CutVision, GeminiInv, GeminiTypeOK, Started
  <2>4. QED
    BY <2>1, <2>2, <2>3, QuitStep DEF GeminiInv, GeminiTypeOK, cacheVars
<1>2. CASE CoolDown
  BY <1>2, GeminiAssumption DEF CoolDown, GeminiInv, GeminiTypeOK, Started, walkVars, fileVars, cacheVars,
                                GeminiAssumption
<1>3. CASE UNCHANGED geminiVars
  BY <1>3 DEF geminiVars, GeminiInv, GeminiTypeOK, Started
<1>4. QED
  BY <1>1, <1>2, <1>3, DeliveryTypes, WalkTypes DEF GeminiNext, VisionStep

-----------------------------------------------------------------------------
(* The file at the provider *)

Excused(c) == given[c] \in {"refused", "cancelled"}

(* A file the provider has is known by name, or lost, or its call was cut  *)
(* short; and a call that ended otherwise knows no name any more.          *)
FileAccounted ==
  \A c \in Visions :
    /\ c \in uploads => c \in named \/ c \in loose \/ (phase[c] = "done" /\ Excused(c))
    /\ phase[c] = "done" => c \notin named \/ Excused(c)

LEMMA DiscardAccounts ==
  ASSUME GeminiInv, NEW c \in Visions, Discard(c)
  PROVE  /\ c \notin named' /\ (c \in uploads' => (c \in uploads /\ c \notin named) \/ c \in loose')
         /\ loose \subseteq loose'
         /\ \A d \in Visions : d # c => (d \in named' <=> d \in named) /\ (d \in uploads' <=> d \in uploads)
BY DEF Discard, GeminiInv, GeminiTypeOK

LEMMA FileAccountedStep == GeminiInv /\ FileAccounted /\ [GeminiNext]_geminiVars => FileAccounted'
<1> SUFFICES ASSUME GeminiInv, FileAccounted, [GeminiNext]_geminiVars PROVE FileAccounted'
  OBVIOUS
<1> USE DEF GeminiInv, GeminiTypeOK, Started, FileAccounted, Excused, NotUploaded, fileVars
<1>1. ASSUME NEW c \in Visions, VisionStep(c) PROVE FileAccounted'
  <2>1. CASE Preflight(c)
    BY <2>1 DEF Preflight, Quit, Move, Result, Delivery
  <2>2. CASE ReadLocally(c)
    BY <2>2 DEF ReadLocally, Quit, Move, Result, Keep
  <2>3. CASE Upload(c)
    BY <2>3 DEF Upload, Move
  <2>4. CASE Poll(c)
    BY <2>4, DiscardAccounts DEF Poll, Move
  <2>5. CASE Encode(c)
    BY <2>5 DEF Encode, Quit, Move, Result
  <2>6. CASE NextModel(c) \/ EnterPool(c) \/ Guard(c) \/ AttemptFails(c)
    <3>1. UNCHANGED <<given, fileVars>> /\ phase[c] # "done" /\ phase'[c] # "done"
          /\ \A d \in Visions : d # c => phase'[d] = phase[d]
      BY <2>6 DEF NextModel, EnterPool, Guard, AttemptFails, NextAttempt, Move, InPool
    <3>2. QED
      BY <3>1
  <2>7. CASE Refused(c)
    BY <2>7 DEF Refused, Quit, Move, Result
  <2>8. CASE ReadByModel(c) \/ Exhausted(c)
    BY <2>8 DEF ReadByModel, Exhausted, Move, Result
  <2>9. CASE Sweep(c)
    <3>1. /\ Discard(c) /\ phase[c] = "sweep" /\ phase' = [phase EXCEPT ![c] = "done"]
          /\ \A d \in Visions : d # c => given'[d] = given[d]
      BY <2>9 DEF Sweep, Quit, Move, Keep, Result
    <3>2. QED
      BY <3>1, DiscardAccounts
  <2>10. QED
    BY <1>1, <2>1, <2>2, <2>3, <2>4, <2>5, <2>6, <2>7, <2>8, <2>9 DEF VisionStep
<1>2. ASSUME NEW c \in Visions, CutVision(c) PROVE FileAccounted'
  BY <1>2 DEF CutVision, Quit, Move, Result
<1>3. CASE CoolDown \/ UNCHANGED geminiVars
  BY <1>3 DEF CoolDown, geminiVars
<1>4. QED
  BY <1>1, <1>2, <1>3 DEF GeminiNext

-----------------------------------------------------------------------------
(* The walk *)

(* What a preflight has passed by, it has asked or found blocked. *)
Passed(c) ==
  /\ toSkip[c] \subseteq tried[c]
  /\ \A j \in Attempts(c) :
       j < attempt[c] \/ (phase[c] = "turn" /\ j = attempt[c]) => ModelAt(c, j) \in tried[c]
  /\ phase[c] = "sweep" /\ given[c] = "exhausted" => tried[c] = VisionModels

LEMMA ExhaustedTriedAll ==
  ASSUME GeminiInv, NEW c \in Visions, Passed(c), phase[c] = "turn", Rest(c) = {}
  PROVE  tried[c] = VisionModels
<1>1. attempt[c] \in Nat
  <2>1. Len(Cascade) \in Nat /\ Retries \in Nat
    BY GeminiAssumption DEF GeminiAssumption
  <2>2. Len(Cascade) * Retries \in Nat
    BY <2>1
  <2>3. QED
    BY <2>2 DEF GeminiInv, GeminiTypeOK
<1>2. ASSUME NEW k \in DOMAIN Cascade PROVE Cascade[k] \in tried[c]
  <2>1. PICK j \in Attempts(c) : ModelAt(c, j) = Cascade[k]
    BY EveryModelHasAttempt
  <2>2. j \in Nat
    BY GeminiAssumption, Times DEF Attempts, GeminiAssumption
  <2>3. CASE j > attempt[c]
    BY <2>1, <2>3 DEF Rest, Passed
  <2>4. CASE ~(j > attempt[c])
    BY <1>1, <2>1, <2>2, <2>4 DEF Passed
  <2>5. QED
    BY <2>3, <2>4
<1>3. QED
  BY <1>2 DEF VisionModels, GeminiInv, GeminiTypeOK

(* What a step of another call leaves alone. *)
LEMMA PassedElsewhere ==
  ASSUME NEW c \in Visions, Passed(c), toSkip'[c] = toSkip[c], tried'[c] = tried[c],
         attempt'[c] = attempt[c], phase'[c] = phase[c], given'[c] = given[c]
  PROVE  Passed(c)'
BY DEF Passed, ModelAt, Attempts, TimesEach

LEMMA PassedAfresh ==
  ASSUME GeminiInv, NEW c \in Visions, attempt'[c] = 0, toSkip'[c] = {},
         phase'[c] # "sweep"
  PROVE  Passed(c)'
<1>1. \A j \in Attempts(c) : j \in Nat /\ j > 0
  BY GeminiAssumption, Times DEF Attempts, GeminiAssumption
<1>2. QED
  BY <1>1 DEF Passed, ModelAt, Attempts, TimesEach

(* The next attempt: those between were skipped, for a spent model. *)
LEMMA PassedNext ==
  ASSUME GeminiInv, NEW c \in Visions, Passed(c), NextModel(c)
  PROVE  Passed(c)'
<1>1. PICK i \in Rest(c) : (\A j \in Rest(c) : i <= j) /\ attempt' = [attempt EXCEPT ![c] = i]
  BY DEF NextModel
<1>2. phase[c] = "turn" /\ phase'[c] = "slot" /\ toSkip' = toSkip /\ tried' = tried /\ attempt'[c] = i
  BY <1>1 DEF NextModel, Move, GeminiInv, GeminiTypeOK
<1>3. attempt[c] \in Nat /\ i \in Nat /\ \A j \in Attempts(c) : j \in Nat
  <2>1. Len(Cascade) \in Nat /\ Retries \in Nat
    BY GeminiAssumption DEF GeminiAssumption
  <2>2. Len(Cascade) * Retries \in Nat
    BY <2>1
  <2>3. QED
    BY <2>2, AttemptsFit DEF GeminiInv, GeminiTypeOK, Rest
<1>4. ASSUME NEW j \in Attempts(c), j < i PROVE ModelAt(c, j) \in tried[c]
  <2>1. CASE j > attempt[c]
    <3>1. j \notin Rest(c)
      BY <1>1, <1>3, <1>4
    <3>2. ModelAt(c, j) \in toSkip[c]
      BY <2>1, <3>1 DEF Rest
    <3>3. QED
      BY <3>2 DEF Passed
  <2>2. CASE ~(j > attempt[c])
    BY <1>2, <1>3, <2>2 DEF Passed
  <2>3. QED
    BY <2>1, <2>2
<1>5. QED
  BY <1>2, <1>4 DEF Passed, ModelAt, Attempts, TimesEach

LEMMA PassedAttempt ==
  ASSUME GeminiInv, NEW c \in Visions, Passed(c), NEW error, NEW skip \in BOOLEAN,
         phase[c] \in InPool, NextAttempt(c, error, skip)
  PROVE  Passed(c)'
<1>1. attempt[c] \in Attempts(c) /\ attempt' = attempt /\ phase'[c] = "turn"
  BY DEF NextAttempt, Move, GeminiInv, GeminiTypeOK, Started
<1>2. tried'[c] = tried[c] \cup {Asked(c)} /\ toSkip'[c] \subseteq toSkip[c] \cup {Asked(c)}
  BY DEF NextAttempt, GeminiInv, GeminiTypeOK
<1>3. ModelAt(c, attempt[c]) = Asked(c)
  BY DEF Asked
<1>4. QED
  BY <1>1, <1>2, <1>3 DEF Passed, ModelAt, Attempts, TimesEach

LEMMA PassedStep ==
  ASSUME GeminiInv, [GeminiNext]_geminiVars, NEW c \in Visions, Passed(c)
  PROVE  Passed(c)'
<1> USE DEF GeminiInv, GeminiTypeOK, walkVars
<1>1. ASSUME NEW d \in Visions, VisionStep(d), d # c PROVE Passed(c)'
  <2>1. toSkip'[c] = toSkip[c] /\ tried'[c] = tried[c] /\ attempt'[c] = attempt[c]
        /\ phase'[c] = phase[c] /\ given'[c] = given[c]
    <3>1. CASE Preflight(d) \/ ReadLocally(d) \/ Upload(d) \/ Poll(d) \/ Encode(d)
      BY <1>1, <3>1 DEF Preflight, ReadLocally, Upload, Poll, Encode, Quit, Move, Result, Keep
    <3>2. CASE NextModel(d) \/ EnterPool(d) \/ Guard(d) \/ AttemptFails(d)
      BY <1>1, <3>2 DEF NextModel, EnterPool, Guard, AttemptFails, NextAttempt, Move
    <3>3. CASE Refused(d) \/ ReadByModel(d) \/ Exhausted(d)
      BY <1>1, <3>3 DEF Refused, ReadByModel, Exhausted, Quit, Move, Result
    <3>4. CASE Sweep(d)
      BY <1>1, <3>4 DEF Sweep, Quit, Move, Result, Keep
    <3>5. QED
      BY <1>1, <3>1, <3>2, <3>3, <3>4 DEF VisionStep
  <2>2. QED
    BY <2>1, PassedElsewhere
<1>2. ASSUME VisionStep(c) PROVE Passed(c)'
  <2>1. ASSUME Quit(c) PROVE Passed(c)'
    BY <2>1, PassedAfresh DEF Quit, Move
  <2>2. CASE NextModel(c)
    BY <2>2, PassedNext
  <2>3. CASE Guard(c) \/ AttemptFails(c)
    <3>1. CASE NextAttempt(c, "transient", TRUE) \/ NextAttempt(c, "transient", FALSE)
               \/ NextAttempt(c, "other", TRUE) \/ NextAttempt(c, "other", FALSE)
      BY <2>3, <3>1, PassedAttempt DEF Guard, AttemptFails, InPool
    <3>2. CASE Guard(c) /\ Move(c, "post") /\ UNCHANGED <<given, walkVars>>
      BY <3>2 DEF Guard, Move, Passed, ModelAt, Attempts, TimesEach
    <3>3. QED
      BY <2>3, <3>1, <3>2 DEF Guard, AttemptFails
  <2>4. CASE Exhausted(c)
    <3>1. tried[c] = VisionModels
      BY <2>4, ExhaustedTriedAll DEF Exhausted
    <3>2. QED
      BY <2>4, <3>1 DEF Exhausted, Move, Passed, ModelAt, Attempts, TimesEach, VisionModels
  <2>5. CASE ReadByModel(c)
    BY <2>5 DEF ReadByModel, Move, Result, Passed, ModelAt, Attempts, TimesEach
  <2>6. CASE EnterPool(c)
    BY <2>6 DEF EnterPool, Move, Passed, ModelAt, Attempts, TimesEach
  <2>7. CASE UNCHANGED walkVars /\ phase[c] \in BeforeWalk /\ phase'[c] # "sweep"
    <3>1. attempt[c] = 0
      BY <2>7 DEF Started
    <3>2. attempt'[c] = 0 /\ \A j \in Attempts(c) : j \in Nat /\ j > 0
      BY <2>7, <3>1, GeminiAssumption, Times DEF Attempts, GeminiAssumption
    <3>3. QED
      BY <2>7, <3>2 DEF Passed, ModelAt, Attempts, TimesEach
  <2>8. CASE Preflight(c) \/ ReadLocally(c) \/ Upload(c) \/ Poll(c) \/ Encode(c) \/ Refused(c) \/ Sweep(c)
    <3>1. Quit(c) \/ (UNCHANGED walkVars /\ phase[c] \in BeforeWalk /\ phase'[c] # "sweep")
      BY <2>8 DEF Preflight, ReadLocally, Upload, Poll, Encode, Refused, Sweep, Move, Delivery,
                  BeforeWalk
    <3>2. QED
      BY <2>1, <2>7, <3>1
  <2>9. QED
    BY <1>2, <2>2, <2>3, <2>4, <2>5, <2>6, <2>8 DEF VisionStep
<1>3. ASSUME NEW d \in Visions, CutVision(d) PROVE Passed(c)'
  <2>1. CASE d = c
    BY <1>3, <2>1, PassedAfresh DEF CutVision, Quit, Move
  <2>2. CASE d # c
    BY <1>3, <2>2, PassedElsewhere DEF CutVision, Quit, Move, Result
  <2>3. QED
    BY <2>1, <2>2
<1>4. CASE CoolDown \/ UNCHANGED geminiVars
  BY <1>4, PassedElsewhere DEF CoolDown, geminiVars
<1>5. QED
  BY <1>1, <1>2, <1>3, <1>4 DEF GeminiNext

-----------------------------------------------------------------------------
(* The cooldown *)

(* The counter counts the walks that ended in an outage, each once. *)
OutagesCounted ==
  /\ IsFiniteSet(outages) /\ Cardinality(outages) = transientFails
  /\ \A c \in outages : phase[c] \in {"sweep", "done"}
  /\ cooling > 0 => transientFails >= FailLimit

LEMMA OutagesStep == GeminiInv /\ OutagesCounted /\ [GeminiNext]_geminiVars => OutagesCounted'
<1> SUFFICES ASSUME GeminiInv, OutagesCounted, [GeminiNext]_geminiVars PROVE OutagesCounted'
  OBVIOUS
<1> USE DEF GeminiInv, GeminiTypeOK, OutagesCounted, healthVars
<1>1. ASSUME UNCHANGED <<transientFails, outages>>, cooling' > 0 => cooling > 0,
             \A c \in Visions : phase[c] \in {"sweep", "done"} => phase'[c] \in {"sweep", "done"}
      PROVE  OutagesCounted'
  BY <1>1
<1>2. ASSUME NEW c \in Visions, VisionStep(c) PROVE OutagesCounted'
  <2>1. CASE ReadByModel(c)
    BY <2>1, FS_EmptySet DEF ReadByModel
  <2>2. CASE Exhausted(c) /\ lastError[c] = "transient"
    <3>1. phase[c] = "turn" /\ phase' = [phase EXCEPT ![c] = "sweep"] /\ outages' = outages \cup {c}
          /\ transientFails' = transientFails + 1
          /\ cooling' = IF transientFails + 1 >= FailLimit THEN Cooldown ELSE cooling
      BY <2>2 DEF Exhausted, Move
    <3>2. c \notin outages
      BY <3>1
    <3>3. IsFiniteSet(outages') /\ Cardinality(outages') = transientFails'
      BY <3>1, <3>2, FS_AddElement
    <3>4. cooling' > 0 => transientFails' >= FailLimit
      BY <3>1, GeminiAssumption DEF GeminiAssumption
    <3>5. QED
      BY <3>1, <3>3, <3>4
  <2>3. CASE ~ReadByModel(c) /\ ~(Exhausted(c) /\ lastError[c] = "transient")
    <3>1. UNCHANGED healthVars
      BY <1>2, <2>3 DEF VisionStep, Preflight, ReadLocally, Upload, Poll, Encode, NextModel, EnterPool,
                        Guard, AttemptFails, NextAttempt, Refused, Exhausted, Sweep
    <3>2. \A d \in Visions : phase[d] \in {"sweep", "done"} => phase'[d] \in {"sweep", "done"}
      BY <1>2 DEF VisionStep, Preflight, ReadLocally, Upload, Poll, Encode, NextModel, EnterPool, Guard,
                  AttemptFails, NextAttempt, Refused, ReadByModel, Exhausted, Sweep, Quit, Move, InPool
    <3>3. QED
      BY <1>1, <3>1, <3>2, GeminiAssumption DEF GeminiAssumption
  <2>4. QED
    BY <2>1, <2>2, <2>3
<1>3. ASSUME NEW c \in Visions, CutVision(c) PROVE OutagesCounted'
  BY <1>1, <1>3, GeminiAssumption DEF CutVision, Quit, Move, GeminiAssumption
<1>4. CASE CoolDown
  BY <1>1, <1>4, GeminiAssumption DEF CoolDown, GeminiAssumption
<1>5. CASE UNCHANGED geminiVars
  BY <1>5 DEF geminiVars
<1>6. QED
  BY <1>2, <1>3, <1>4, <1>5 DEF GeminiNext

(* Every reachable state of the vision model's client is well typed.       *)
THEOREM GeminiTypeCorrect == GeminiSpec => []GeminiTypeOK
<1>1. GeminiInv => GeminiTypeOK
  BY DEF GeminiInv
<1>2. QED
  BY <1>1, GeminiInvInit, GeminiInvStep, PTL DEF GeminiSpec

(* For any number of preflights, models and failures: a preflight that     *)
(* ended has taken its file back from the provider, but for the causes     *)
(* the property names.                                                     *)
THEOREM UploadsComeBack == GeminiSpec => []UploadsAreRemoved
<1>1. GeminiInit => FileAccounted
  BY DEF GeminiInit, FileAccounted
<1>2. FileAccounted => UploadsAreRemoved
  BY DEF FileAccounted, UploadsAreRemoved, Excused
<1>3. QED
  BY <1>1, <1>2, GeminiInvInit, GeminiInvStep, FileAccountedStep, PTL DEF GeminiSpec

(* For any cascade and any number of preflights: a walk gives up only      *)
(* after every model, and a cooldown has as many outages behind it as the  *)
(* threshold says.                                                         *)
THEOREM FilesAreNotStranded == GeminiSpec => []NoFileStranded
<1> DEFINE Walks == \A c \in Visions : Passed(c)
<1>1. GeminiInit => Walks /\ OutagesCounted
  <2> SUFFICES ASSUME GeminiInit PROVE Walks /\ OutagesCounted
    OBVIOUS
  <2>1. ASSUME NEW c \in Visions PROVE Passed(c)
    <3>1. \A j \in Attempts(c) : j \in Nat /\ j > 0
      BY GeminiAssumption, Times DEF Attempts, GeminiAssumption
    <3>2. QED
      BY <3>1 DEF GeminiInit, Passed
  <2>2. OutagesCounted
    BY FS_EmptySet DEF GeminiInit, OutagesCounted
  <2>3. QED
    BY <2>1, <2>2
<1>2. GeminiInv /\ Walks /\ [GeminiNext]_geminiVars => Walks'
  BY PassedStep
<1>3. Walks /\ OutagesCounted => NoFileStranded
  BY DEF Passed, OutagesCounted, NoFileStranded
<1> HIDE DEF Walks
<1>4. QED
  BY <1>1, <1>2, <1>3, GeminiInvInit, GeminiInvStep, OutagesStep, PTL DEF GeminiSpec
=============================================================================
