---------------------------- MODULE Queue_proofs -----------------------------
(***************************************************************************)
(* Proofs about the work queue, for any set of sessions, any concurrency,  *)
(* and any number of shutdowns, crashes and Redis failures: its type and   *)
(* safety invariants, the refinement of DispatchOnce, and the terminations *)
(* beside the queue.  What is on the list does not matter to those: the    *)
(* rewrite of the list may drop sessions and bring sessions back.          *)
(***************************************************************************)
EXTENDS QueuePruning, FiniteSetTheorems, SequenceTheorems, TLAPS

-----------------------------------------------------------------------------
(* Every step of the queue, its API and its worker keeps the state well    *)
(* typed.                                                                  *)
LEMMA TypeStep == TypeOK /\ [Next]_qvars => TypeOK'
<1> SUFFICES ASSUME TypeOK, [Next]_qvars
             PROVE  TypeOK'
  OBVIOUS
<1> USE QueueAssumption DEF TypeOK
<1>1. ASSUME NEW s \in Sessions, Submit(s) \/ SubmitFails(s) \/ SubmitUndo(s)
      PROVE  TypeOK'
  <2>1. CASE Submit(s)
    BY <2>1 DEF Submit, Enqueue, TaskStatus
  <2>2. CASE SubmitFails(s)
    <3>1. faults' \in 0 .. MaxFaults
      BY <2>2 DEF SubmitFails
    <3>2. queue' \in Seq(Sessions) /\ tasks' \in [Sessions -> TaskStatus]
      <4>1. CASE Enqueue(s)
        BY <4>1 DEF Enqueue, TaskStatus
      <4>2. CASE UNCHANGED <<queue, tasks>>
        BY <4>2
      <4>3. QED
        BY <2>2, <4>1, <4>2 DEF SubmitFails
    <3>3. QED
      BY <2>2, <3>1, <3>2 DEF SubmitFails
  <2>3. CASE SubmitUndo(s)
    <3>1. faults' \in 0 .. MaxFaults
      BY <2>3 DEF SubmitUndo
    <3>2. tasks' \in [Sessions -> TaskStatus]
      BY <2>3 DEF SubmitUndo, TaskStatus
    <3>3. QED
      BY <2>3, <3>1, <3>2 DEF SubmitUndo
  <2>4. QED
    BY <1>1, <2>1, <2>2, <2>3
<1>2. CASE Pop
  <2>1. Head(queue) \in Sessions /\ Tail(queue) \in Seq(Sessions)
    BY ONLY <1>2, queue \in Seq(Sessions), HeadTailProperties DEF Pop
  <2>2. held' \in Sessions /\ held' # NoSession /\ queue' \in Seq(Sessions)
    BY <1>2, <2>1 DEF Pop
  <2>3. QED
    BY <1>2, <2>2 DEF Pop
<1>3. CASE StartJob
  <2>1. held \in Sessions
    BY <1>3 DEF StartJob
  <2>2. runs' \in [Sessions -> 0 .. MaxRuns]
    BY <1>3, <2>1 DEF StartJob
  <2>3. job' \in [Jobs -> JobState]
    BY <1>3 DEF StartJob, JobState
  <2>4. QED
    BY <1>3, <2>2, <2>3 DEF StartJob
<1>4. CASE SkipMissing \/ FetchFails
  BY <1>4 DEF SkipMissing, FetchFails
<1>5. ASSUME NEW j \in Jobs, BeginJob(j) \/ BeginFails(j) \/ HandlerEnds(j) \/ CloseJob(j)
      PROVE  TypeOK'
  <2> j[1] \in Sessions
    BY DEF Jobs
  <2>1. CASE BeginJob(j)
    BY <2>1 DEF BeginJob, TaskStatus, JobState
  <2>2. CASE BeginFails(j)
    BY <2>2 DEF BeginFails, JobState
  <2>3. CASE HandlerEnds(j)
    BY <2>3 DEF HandlerEnds, JobState
  <2>4. CASE CloseJob(j)
    <3>1. faults' \in 0 .. MaxFaults
      BY <2>4 DEF CloseJob
    <3>2. tasks' \in [Sessions -> TaskStatus]
      BY <2>4 DEF CloseJob, TaskStatus
    <3>3. QED
      BY <2>4, <3>1, <3>2 DEF CloseJob, JobState
  <2>5. QED
    BY <1>5, <2>1, <2>2, <2>3, <2>4
<1>6. CASE Shutdown \/ Drained \/ Restart
  BY <1>6 DEF Shutdown, Drained, Restart
<1>7. CASE Crash
  BY <1>7 DEF Crash, JobState
<1>8. CASE UNCHANGED qvars
  BY <1>8 DEF qvars
<1>9. QED
  BY <1>1, <1>2, <1>3, <1>4, <1>5, <1>6, <1>7, <1>8
     DEF Next, ApiStep, LoopStep, JobStep, ProcessStep

(* The state of the queue is well typed: in particular the task hash never *)
(* holds the status CANCELLED that InvestigationStatus declares.           *)
THEOREM TypeCorrect == Spec => []TypeOK
<1>1. Init => TypeOK
  BY QueueAssumption DEF Init, TypeOK, TaskStatus, JobState
<1>2. QED
  BY <1>1, TypeStep, PTL DEF Spec

-----------------------------------------------------------------------------
(* The inductive invariant behind DispatchedAtMostOnce.  A session is in   *)
(* at most one of three places, and once at most: a position of the list,  *)
(* the hand of the loop, or a job.  Only an upload that has not submitted  *)
(* yet can put it on the list.                                             *)
OnePlace ==
  /\ \A a, b \in 1 .. Len(queue) : queue[a] = queue[b] => a = b
  /\ \A a \in 1 .. Len(queue) :
       request[queue[a]] # "new" /\ runs[queue[a]] = 0 /\ queue[a] # held
  /\ held # NoSession => request[held] # "new" /\ runs[held] = 0
  /\ \A s \in Sessions : runs[s] > 0 => request[s] # "new"
  /\ \A s \in Sessions : runs[s] <= 1

(* Pushing a session that never was in the system keeps OnePlace. *)
LEMMA EnqueueKeepsOnePlace ==
  ASSUME TypeOK, OnePlace, NEW s \in Sessions,
         request[s] = "new", Enqueue(s),
         request' \in [Sessions -> {"new", "accepted", "undoing", "rejected"}],
         request'[s] # "new",
         \A t \in Sessions : t # s => request'[t] = request[t],
         UNCHANGED <<held, runs>>
  PROVE  OnePlace'
<1>1. /\ Len(queue') = Len(queue) + 1
      /\ queue'[Len(queue) + 1] = s
      /\ \A a \in 1 .. Len(queue) : queue'[a] = queue[a] /\ queue[a] \in Sessions
      /\ Len(queue) \in Nat
  BY DEF TypeOK, Enqueue
<1>2. \A a \in 1 .. Len(queue) : queue[a] # s
  BY DEF OnePlace
<1>3. runs[s] = 0 /\ held # s
  BY QueueAssumption DEF OnePlace, TypeOK
<1>4. \A a, b \in 1 .. Len(queue') : queue'[a] = queue'[b] => a = b
  BY <1>1, <1>2 DEF OnePlace
<1>5. \A a \in 1 .. Len(queue') :
        request'[queue'[a]] # "new" /\ runs[queue'[a]] = 0 /\ queue'[a] # held
  BY <1>1, <1>3 DEF OnePlace
<1>6. QED
  BY <1>3, <1>4, <1>5 DEF OnePlace, TypeOK

(* What is left of the list after a pop: one entry fewer, shifted by one.  *)
LEMMA TailShift ==
  ASSUME TypeOK, queue # <<>>
  PROVE  /\ Len(queue) \in Nat \ {0}
         /\ Head(queue) = queue[1]
         /\ Len(Tail(queue)) = Len(queue) - 1
         /\ \A a \in 1 .. Len(Tail(queue)) : Tail(queue)[a] = queue[a + 1]
         /\ \A a \in 1 .. Len(queue) : queue[a] \in Sessions
  BY HeadTailProperties, LenProperties, ElementOfSeq, EmptySeq DEF TypeOK

LEMMA OnePlaceInductive == TypeOK /\ OnePlace /\ [Next]_qvars => OnePlace'
<1> SUFFICES ASSUME TypeOK, OnePlace, [Next]_qvars
             PROVE  OnePlace'
  OBVIOUS
<1> USE QueueAssumption
<1>1. ASSUME NEW s \in Sessions, Submit(s) \/ SubmitFails(s) \/ SubmitUndo(s)
      PROVE  OnePlace'
  <2>1. CASE Submit(s)
    BY <2>1, EnqueueKeepsOnePlace DEF Submit, TypeOK
  <2>2. CASE SubmitFails(s)
    <3>1. CASE Enqueue(s)
      BY <2>2, <3>1, EnqueueKeepsOnePlace DEF SubmitFails, TypeOK
    <3>2. CASE UNCHANGED <<queue, tasks>>
      BY <2>2, <3>2 DEF SubmitFails, OnePlace, TypeOK
    <3>3. QED
      BY <2>2, <3>1, <3>2 DEF SubmitFails
  <2>3. CASE SubmitUndo(s)
    BY <2>3 DEF SubmitUndo, OnePlace, TypeOK
  <2>4. QED
    BY <1>1, <2>1, <2>2, <2>3
<1>2. CASE Pop
  <2>1. /\ held' = queue[1]
        /\ Len(queue') = Len(queue) - 1
        /\ \A a \in 1 .. Len(queue') : queue'[a] = queue[a + 1]
        /\ Len(queue) \in Nat \ {0}
        /\ UNCHANGED <<request, runs>>
    BY <1>2, TailShift DEF Pop
  <2>2. \A a, b \in 1 .. Len(queue') : queue'[a] = queue'[b] => a = b
    BY <2>1 DEF OnePlace
  <2>3. \A a \in 1 .. Len(queue') :
          request'[queue'[a]] # "new" /\ runs'[queue'[a]] = 0 /\ queue'[a] # held'
    BY <2>1 DEF OnePlace
  <2>4. request'[held'] # "new" /\ runs'[held'] = 0
    BY <2>1 DEF OnePlace
  <2>5. QED
    BY <2>1, <2>2, <2>3, <2>4 DEF OnePlace
<1>3. CASE StartJob
  <2>1. held \in Sessions /\ held # NoSession /\ held' = NoSession
    BY <1>3 DEF StartJob, TypeOK
  <2>2. runs' = [runs EXCEPT ![held] = runs[held] + 1] /\ runs[held] = 0
    BY <1>3, <2>1 DEF StartJob, OnePlace
  <2>3. \A a \in 1 .. Len(queue) : queue[a] \in Sessions /\ queue[a] # held
    BY ElementOfSeq DEF OnePlace, TypeOK
  <2>4. UNCHANGED <<queue, request>>
    BY <1>3 DEF StartJob
  <2>5. QED
    BY <2>1, <2>2, <2>3, <2>4 DEF OnePlace, TypeOK
<1>4. CASE SkipMissing \/ FetchFails \/ Shutdown \/ Crash
  <2>1. held' = NoSession /\ UNCHANGED <<queue, request, runs>>
    BY <1>4 DEF SkipMissing, FetchFails, Shutdown, Crash
  <2>2. \A a \in 1 .. Len(queue) : queue[a] # NoSession
    BY ElementOfSeq DEF TypeOK
  <2>3. QED
    BY <2>1, <2>2 DEF OnePlace
<1>5. CASE JobStep \/ Drained \/ Restart \/ UNCHANGED qvars
  <2>1. UNCHANGED <<queue, request, runs, held>>
    BY <1>5 DEF JobStep, BeginJob, BeginFails, HandlerEnds, CloseJob, Drained, Restart, qvars
  <2>2. QED
    BY <2>1 DEF OnePlace
<1>6. QED
  BY <1>1, <1>2, <1>3, <1>4, <1>5 DEF Next, ApiStep, LoopStep, ProcessStep

(* Whatever fails, stops, crashes or restarts, no session's pipeline is    *)
(* started twice, and a started session is neither queued nor held.        *)
THEOREM AtMostOneDispatch == Spec => []DispatchedAtMostOnce
<1>1. Init => OnePlace
  BY DEF Init, OnePlace
<1>2. TypeOK /\ OnePlace => DispatchedAtMostOnce
  <2> SUFFICES ASSUME TypeOK, OnePlace, NEW s \in Sessions
               PROVE  /\ runs[s] <= 1
                      /\ runs[s] = 1 => ~Queued(s) /\ held # s
    BY DEF DispatchedAtMostOnce
  <2>1. runs[s] = 1 => held # s
    BY QueueAssumption DEF OnePlace, TypeOK
  <2>2. runs[s] = 1 => ~Queued(s)
    BY DEF OnePlace, Queued
  <2>3. QED
    BY <2>1, <2>2 DEF OnePlace
<1>3. QED
  BY <1>1, <1>2, OnePlaceInductive, TypeCorrect, PTL DEF Spec

-----------------------------------------------------------------------------
(* The active jobs are finitely many, and they and the one about to be     *)
(* created fit the slots.                                                  *)
SlotInv == IsFiniteSet(ActiveJobs) /\ ConcurrencyRespected

(* The part of the type invariant this argument needs: it does not depend  *)
(* on what is on the list.                                                 *)
JobsOK == job \in [Jobs -> JobState]

(* Steps that create no job and do not pop leave the slots respected. *)
LEMMA FewerJobs ==
  ASSUME SlotInv, ActiveJobs' \subseteq ActiveJobs,
         loop' = "fetching" => loop = "fetching"
  PROVE  SlotInv'
<1>1. /\ IsFiniteSet(ActiveJobs')
      /\ Cardinality(ActiveJobs') <= Cardinality(ActiveJobs)
  BY FS_Subset DEF SlotInv
<1>2. Cardinality(ActiveJobs') \in Nat /\ Cardinality(ActiveJobs) \in Nat
  BY <1>1, FS_CardinalityType DEF SlotInv
<1>3. QED
  BY <1>1, <1>2, QueueAssumption DEF SlotInv, ConcurrencyRespected

LEMMA SlotInvInductive == JobsOK /\ SlotInv /\ [Next]_qvars => SlotInv'
<1> SUFFICES ASSUME JobsOK, SlotInv, [Next]_qvars
             PROVE  SlotInv'
  OBVIOUS
<1>1. CASE ApiStep
  BY <1>1, FewerJobs DEF ApiStep, Submit, SubmitFails, SubmitUndo, ActiveJobs
<1>2. CASE Pop
  <2>1. ActiveJobs' = ActiveJobs
    BY <1>2 DEF Pop, ActiveJobs
  <2>2. Cardinality(ActiveJobs) \in Nat /\ Cardinality(ActiveJobs) < Concurrency
    BY <1>2, FS_CardinalityType DEF Pop, SlotInv
  <2>3. QED
    BY <2>1, <2>2, QueueAssumption DEF SlotInv, ConcurrencyRespected
<1>3. CASE StartJob
  <2> DEFINE new == <<held, runs[held] + 1>>
  <2>1. ActiveJobs' \subseteq ActiveJobs \cup {new}
    BY <1>3 DEF StartJob, ActiveJobs, JobsOK
  <2>2. /\ IsFiniteSet(ActiveJobs \cup {new})
        /\ Cardinality(ActiveJobs \cup {new}) <= Cardinality(ActiveJobs) + 1
        /\ Cardinality(ActiveJobs) \in Nat
    <3> HIDE DEF new
    <3>1. IsFiniteSet(ActiveJobs) /\ Cardinality(ActiveJobs) \in Nat
      BY FS_CardinalityType DEF SlotInv
    <3>2. /\ IsFiniteSet(ActiveJobs \cup {new})
          /\ Cardinality(ActiveJobs \cup {new}) =
               IF new \in ActiveJobs THEN Cardinality(ActiveJobs) ELSE Cardinality(ActiveJobs) + 1
      BY <3>1, FS_AddElement
    <3>3. QED
      BY <3>1, <3>2
  <2>3. /\ IsFiniteSet(ActiveJobs')
        /\ Cardinality(ActiveJobs') \in Nat
        /\ Cardinality(ActiveJobs') <= Cardinality(ActiveJobs \cup {new})
    BY <2>1, <2>2, FS_Subset, FS_CardinalityType
  <2>4. Cardinality(ActiveJobs) + 1 <= Concurrency
    BY <1>3 DEF StartJob, SlotInv, ConcurrencyRespected
  <2>5. Cardinality(ActiveJobs \cup {new}) \in Nat
    BY <2>2, FS_CardinalityType
  <2>6. loop' = "polling"
    BY <1>3 DEF StartJob
  <2>7. QED
    BY <2>2, <2>3, <2>4, <2>5, <2>6, QueueAssumption DEF SlotInv, ConcurrencyRespected
<1>4. CASE SkipMissing \/ FetchFails
  BY <1>4, FewerJobs DEF SkipMissing, FetchFails, ActiveJobs
<1>5. ASSUME NEW j \in Jobs, BeginJob(j) \/ BeginFails(j) \/ HandlerEnds(j) \/ CloseJob(j)
      PROVE  SlotInv'
  <2>1. ActiveJobs' \subseteq ActiveJobs
    BY <1>5 DEF BeginJob, BeginFails, HandlerEnds, CloseJob, ActiveJobs, Unfinished, JobsOK
  <2>2. UNCHANGED loop
    BY <1>5 DEF BeginJob, BeginFails, HandlerEnds, CloseJob
  <2>3. QED
    BY <2>1, <2>2, FewerJobs
<1>6. CASE ProcessStep
  <2>1. ActiveJobs' \subseteq ActiveJobs
    BY <1>6 DEF ProcessStep, Shutdown, Drained, Crash, Restart, ActiveJobs, Unfinished
  <2>2. loop' # "fetching"
    BY <1>6 DEF ProcessStep, Shutdown, Drained, Crash, Restart
  <2>3. QED
    BY <2>1, <2>2, FewerJobs
<1>7. CASE UNCHANGED qvars
  BY <1>7, FewerJobs DEF qvars, ActiveJobs
<1>8. QED
  BY <1>1, <1>2, <1>3, <1>4, <1>5, <1>6, <1>7 DEF Next, LoopStep, JobStep

(* The worker never exceeds WORKER_CONCURRENCY unfinished jobs, although   *)
(* the slot is checked before BLPOP and used two awaits later.             *)
THEOREM SlotsRespected == Spec => []ConcurrencyRespected
<1>1. Init => SlotInv
  <2> SUFFICES ASSUME Init PROVE SlotInv
    OBVIOUS
  <2>1. ActiveJobs = {}
    BY DEF Init, ActiveJobs, Unfinished
  <2>2. QED
    BY <2>1, FS_EmptySet, QueueAssumption DEF SlotInv, ConcurrencyRespected, Init
<1>2. TypeOK => JobsOK
  BY DEF TypeOK, JobsOK
<1>3. QED
  BY <1>1, <1>2, SlotInvInductive, TypeCorrect, PTL DEF Spec, SlotInv

-----------------------------------------------------------------------------
(* A worker that stopped gracefully left no job of its own unfinished. *)
THEOREM GracefulStopDrains == Spec => []StoppedMeansDrained
<1>1. Init => StoppedMeansDrained
  BY DEF Init, StoppedMeansDrained
<1>2. TypeOK /\ StoppedMeansDrained /\ [Next]_qvars => StoppedMeansDrained'
  <2> SUFFICES ASSUME TypeOK, StoppedMeansDrained, [Next]_qvars
               PROVE  StoppedMeansDrained'
    OBVIOUS
  <2>1. CASE ApiStep
    <3>1. UNCHANGED <<job, loop, held>>
      BY <2>1 DEF ApiStep, Submit, SubmitFails, SubmitUndo
    <3>2. QED
      BY <3>1 DEF StoppedMeansDrained, ActiveJobs
  <2>2. CASE LoopStep
    BY <2>2 DEF LoopStep, Pop, StartJob, SkipMissing, FetchFails, StoppedMeansDrained
  <2>3. ASSUME NEW j \in Jobs, BeginJob(j) \/ BeginFails(j) \/ HandlerEnds(j) \/ CloseJob(j)
        PROVE  StoppedMeansDrained'
    <3>1. j \in ActiveJobs /\ UNCHANGED loop
      BY <2>3 DEF BeginJob, BeginFails, HandlerEnds, CloseJob, ActiveJobs, Unfinished
    <3>2. QED
      BY <3>1 DEF StoppedMeansDrained
  <2>4. CASE Drained
    BY <2>4 DEF Drained, StoppedMeansDrained, ActiveJobs, TypeOK
  <2>5. CASE Shutdown \/ Crash \/ Restart
    BY <2>5 DEF Shutdown, Crash, Restart, StoppedMeansDrained
  <2>6. CASE UNCHANGED qvars
    BY <2>6 DEF qvars, StoppedMeansDrained, ActiveJobs
  <2>7. QED
    BY <2>1, <2>2, <2>3, <2>4, <2>5, <2>6 DEF Next, JobStep, ProcessStep
<1>3. QED
  BY <1>1, <1>2, TypeCorrect, PTL DEF Spec

-----------------------------------------------------------------------------
(* The refinement of DispatchOnce.  A job exists only for a run that was   *)
(* counted, so that with at most one run per session (OnePlace) what the   *)
(* jobs say of a session is what its first job says.                       *)
JobsCounted == \A s \in Sessions, k \in Runs : job[<<s, k>>] # "none" => k <= runs[s]

RefInv == TypeOK /\ OnePlace /\ JobsCounted

FirstJob(s) == job[<<s, 1>>]
Waits(s) == Queued(s) \/ held = s

(* PhaseOf with its cases in order; they exclude each other under RefInv.  *)
Mapped(s) ==
  IF FirstJob(s) \in Unfinished THEN "running"
  ELSE IF FirstJob(s) = "done" THEN "finished"
  ELSE IF runs[s] = 0 /\ Waits(s) THEN "pending"
  ELSE IF runs[s] = 0 /\ request[s] = "new" THEN "idle"
  ELSE "gone"

PhaseMap == [s \in Sessions |-> PhaseOf(s)]
MappedMap == [s \in Sessions |-> Mapped(s)]
MapsAgree == PhaseMap = MappedMap

LEMMA OneRun ==
  ASSUME RefInv, NEW s \in Sessions
  PROVE  /\ 1 \in Runs /\ runs[s] \in {0, 1}
         /\ \A k \in Runs : job[<<s, k>>] # "none" => k = 1 /\ runs[s] = 1
<1>1. runs[s] \in Nat /\ runs[s] <= 1
  BY QueueAssumption DEF RefInv, TypeOK, OnePlace, QueueAssumption
<1>2. 1 \in Runs /\ Runs \subseteq Nat \ {0}
  BY QueueAssumption DEF Runs, QueueAssumption
<1>3. QED
  BY <1>1, <1>2 DEF RefInv, JobsCounted

LEMMA PhaseIsMapped == RefInv => PhaseMap = MappedMap
<1> SUFFICES ASSUME RefInv, NEW s \in Sessions PROVE PhaseOf(s) = Mapped(s)
  BY DEF PhaseMap, MappedMap
<1>1. /\ (\E k \in Runs : job[<<s, k>>] \in Unfinished) <=> FirstJob(s) \in Unfinished
      /\ (\E k \in Runs : job[<<s, k>>] = "done") <=> FirstJob(s) = "done"
  BY OneRun DEF FirstJob, Unfinished
<1>2. runs[s] = 0 => FirstJob(s) = "none"
  BY OneRun DEF FirstJob
<1>3. Waits(s) => request[s] # "new"
  BY QueueAssumption DEF Waits, Queued, RefInv, OnePlace, QueueAssumption
<1>4. QED
  BY <1>1, <1>2, <1>3 DEF PhaseOf, Mapped, Waits, Unfinished

-----------------------------------------------------------------------------
(* Who waits after a step. *)
LEMMA WaitsAfterEnqueue ==
  ASSUME TypeOK, NEW s \in Sessions, Enqueue(s), UNCHANGED held
  PROVE  \A t \in Sessions : Waits(t)' <=> Waits(t) \/ t = s
<1>1. /\ Len(queue') = Len(queue) + 1 /\ Len(queue) \in Nat
      /\ queue'[Len(queue) + 1] = s
      /\ \A a \in 1 .. Len(queue) : queue'[a] = queue[a]
  BY DEF TypeOK, Enqueue
<1>2. ASSUME NEW t \in Sessions PROVE (\E a \in 1 .. Len(queue') : queue'[a] = t) <=> Queued(t) \/ t = s
  BY <1>1 DEF Queued
<1>3. QED
  BY <1>2 DEF Waits, Queued

LEMMA WaitsAfterPop ==
  ASSUME TypeOK, Pop
  PROVE  \A t \in Sessions : Waits(t)' <=> Waits(t)
<1>1. /\ Len(queue) \in Nat \ {0} /\ held' = queue[1]
      /\ Len(queue') = Len(queue) - 1
      /\ \A a \in 1 .. Len(queue') : queue'[a] = queue[a + 1]
  BY TailShift DEF Pop
<1>2. held = NoSession
  BY DEF Pop, TypeOK
<1>3. ASSUME NEW t \in Sessions
      PROVE  (\E a \in 1 .. Len(queue') : queue'[a] = t) \/ queue[1] = t <=> Queued(t)
  <2>1. ASSUME Queued(t) PROVE (\E a \in 1 .. Len(queue') : queue'[a] = t) \/ queue[1] = t
    <3>1. PICK a \in 1 .. Len(queue) : queue[a] = t
      BY <2>1 DEF Queued
    <3>2. CASE a = 1
      BY <3>1, <3>2
    <3>3. CASE a # 1
      <4>1. a - 1 \in 1 .. Len(queue') /\ queue'[a - 1] = queue[a]
        BY <1>1, <3>3
      <4>2. QED
        BY <3>1, <4>1
    <3>4. QED
      BY <3>2, <3>3
  <2>2. ASSUME NEW a \in 1 .. Len(queue'), queue'[a] = t PROVE Queued(t)
    <3>1. a + 1 \in 1 .. Len(queue) /\ queue[a + 1] = t
      BY <1>1, <2>2
    <3>2. QED
      BY <3>1 DEF Queued
  <2>3. queue[1] = t => Queued(t)
    BY <1>1 DEF Queued
  <2>4. QED
    BY <2>1, <2>2, <2>3
<1>4. QED
  BY <1>1, <1>2, <1>3, QueueAssumption DEF Waits, Queued, QueueAssumption

-----------------------------------------------------------------------------
(* What a step does to the phases: one session moves forward, or some that *)
(* had not finished leave the system (none of them, for a stutter).        *)
Forward(s, from, to) ==
  /\ Mapped(s) = from /\ Mapped(s)' = to
  /\ \A t \in Sessions : t # s => Mapped(t)' = Mapped(t)

Left(S) ==
  \A t \in Sessions : /\ t \in S => Mapped(t) # "finished" /\ Mapped(t)' = "gone"
                      /\ t \notin S => Mapped(t)' = Mapped(t)

Simulated ==
  \/ \E s \in Sessions : Forward(s, "idle", "pending") \/ Forward(s, "pending", "running")
                           \/ Forward(s, "running", "finished")
  \/ \E S \in SUBSET Sessions : Left(S)

LEMMA ApiSimulated ==
  ASSUME RefInv, NEW s \in Sessions, Submit(s) \/ SubmitFails(s) \/ SubmitUndo(s)
  PROVE  Simulated
<1>1. runs[s] \in {0, 1} /\ (runs[s] = 0 => FirstJob(s) = "none")
  BY OneRun DEF FirstJob
<1>2. UNCHANGED <<job, runs, held>>
  BY DEF Submit, SubmitFails, SubmitUndo
<1>3. ASSUME request[s] = "new" PROVE runs[s] = 0 /\ ~Waits(s) /\ Mapped(s) = "idle"
  <2>1. runs[s] = 0
    BY <1>1, <1>3 DEF RefInv, OnePlace
  <2>2. ~Waits(s)
    BY <1>3, QueueAssumption DEF Waits, Queued, RefInv, OnePlace, QueueAssumption
  <2>3. QED
    BY <1>1, <1>3, <2>1, <2>2 DEF Mapped, Unfinished
<1>4. CASE request[s] = "new" /\ request'[s] # "new" /\ Enqueue(s) /\ (\A t \in Sessions : t # s => request'[t] = request[t])
  <2>1. \A t \in Sessions : Waits(t)' <=> Waits(t) \/ t = s
    BY <1>2, <1>4, WaitsAfterEnqueue DEF RefInv
  <2>2. Mapped(s)' = "pending"
    BY <1>1, <1>2, <1>3, <1>4, <2>1 DEF Mapped, FirstJob, Unfinished
  <2>3. \A t \in Sessions : t # s => Mapped(t)' = Mapped(t)
    BY <1>2, <1>4, <2>1 DEF Mapped, FirstJob
  <2>4. Forward(s, "idle", "pending")
    BY <1>3, <1>4, <2>2, <2>3 DEF Forward
  <2>5. QED
    BY <2>4 DEF Simulated
<1>5. CASE request[s] = "new" /\ request'[s] # "new" /\ UNCHANGED queue /\ (\A t \in Sessions : t # s => request'[t] = request[t])
  <2>1. \A t \in Sessions : Waits(t)' <=> Waits(t)
    BY <1>2, <1>5 DEF Waits, Queued
  <2>2. Mapped(s)' = "gone"
    BY <1>1, <1>2, <1>3, <1>5, <2>1 DEF Mapped, FirstJob, Unfinished
  <2>3. \A t \in Sessions : t # s => Mapped(t)' = Mapped(t)
    BY <1>2, <1>5, <2>1 DEF Mapped, FirstJob
  <2>4. Left({s})
    BY <1>3, <1>5, <2>2, <2>3 DEF Left
  <2>5. QED
    BY <2>4 DEF Simulated
<1>6. CASE SubmitUndo(s)
  <2>1. UNCHANGED queue /\ \A t \in Sessions : request'[t] = "new" <=> request[t] = "new"
    BY <1>6 DEF SubmitUndo, RefInv, TypeOK
  <2>2. \A t \in Sessions : Waits(t)' <=> Waits(t)
    BY <1>2, <2>1 DEF Waits, Queued
  <2>3. Left({})
    BY <1>2, <2>1, <2>2 DEF Left, Mapped, FirstJob
  <2>4. QED
    BY <2>3 DEF Simulated
<1>7. CASE Submit(s) \/ SubmitFails(s)
  <2>1. request[s] = "new" /\ request'[s] # "new" /\ \A t \in Sessions : t # s => request'[t] = request[t]
    BY <1>7 DEF Submit, SubmitFails, RefInv, TypeOK
  <2>2. Enqueue(s) \/ UNCHANGED queue
    BY <1>7 DEF Submit, SubmitFails
  <2>3. QED
    BY <1>4, <1>5, <2>1, <2>2
<1>8. QED
  BY <1>6, <1>7

(* A session that is dropped while the loop holds it is gone. *)
LEMMA DropSimulated ==
  ASSUME RefInv, held' = NoSession, UNCHANGED <<queue, request, runs>>,
         \A t \in Sessions : FirstJob(t)' = FirstJob(t)
  PROVE  Left({held} \cap Sessions)
<1>1. ASSUME NEW t \in Sessions, t # held PROVE Mapped(t)' = Mapped(t)
  <2>1. Waits(t)' <=> Waits(t)
    BY <1>1, QueueAssumption DEF Waits, Queued, QueueAssumption
  <2>2. QED
    BY <2>1 DEF Mapped
<1>2. ASSUME NEW t \in Sessions, t = held PROVE Mapped(t) # "finished" /\ Mapped(t)' = "gone"
  <2>1. runs[t] = 0 /\ request[t] # "new" /\ ~Queued(t)
    BY <1>2, QueueAssumption DEF RefInv, OnePlace, Queued, QueueAssumption
  <2>2. FirstJob(t) = "none"
    BY <2>1, OneRun DEF FirstJob
  <2>3. ~Waits(t)'
    BY <2>1, QueueAssumption DEF Waits, Queued, QueueAssumption
  <2>4. QED
    BY <2>1, <2>2, <2>3 DEF Mapped, Unfinished
<1>3. QED
  BY <1>1, <1>2 DEF Left

LEMMA LoopSimulated ==
  ASSUME RefInv, Pop \/ StartJob \/ SkipMissing \/ FetchFails
  PROVE  Simulated
<1>1. CASE Pop
  <2>1. \A t \in Sessions : Waits(t)' <=> Waits(t)
    BY <1>1, WaitsAfterPop DEF RefInv
  <2>2. Left({})
    BY <1>1, <2>1 DEF Pop, Left, Mapped, FirstJob
  <2>3. QED
    BY <2>2 DEF Simulated
<1>2. CASE StartJob
  <2>1. held \in Sessions /\ held' = NoSession /\ runs[held] = 0 /\ UNCHANGED <<queue, request>>
    BY <1>2 DEF StartJob, RefInv, TypeOK, OnePlace
  <2>2. FirstJob(held) = "none" /\ <<held, 1>> \in Jobs
    BY <2>1, OneRun DEF FirstJob, Jobs
  <2>3. Mapped(held) = "pending"
    BY <2>1, <2>2 DEF Mapped, Waits, Unfinished
  <2>4. runs' = [runs EXCEPT ![held] = 1] /\ job' = [job EXCEPT ![<<held, 1>>] = "created"]
    BY <1>2, <2>1 DEF StartJob
  <2>5. job'[<<held, 1>>] = "created"
    BY <2>2, <2>4 DEF RefInv, TypeOK
  <2>6. ASSUME NEW t \in Sessions, t # held PROVE Mapped(t)' = Mapped(t)
    <3>1. Waits(t)' <=> Waits(t)
      BY <2>1, <2>6, QueueAssumption DEF Waits, Queued, QueueAssumption
    <3>2. job'[<<t, 1>>] = job[<<t, 1>>] /\ runs'[t] = runs[t]
      BY <2>4, <2>6, OneRun DEF RefInv, TypeOK, Jobs
    <3>3. QED
      BY <2>1, <3>1, <3>2 DEF Mapped, FirstJob
  <2>7. Mapped(held) = "pending" /\ job'[<<held, 1>>] \in Unfinished
    BY <2>3, <2>5 DEF Unfinished
  <2>8. \E s \in Sessions : Forward(s, "pending", "running")
    <3>1. PICK s \in Sessions : s = held
      BY <2>1
    <3>2. Mapped(s)' = "running"
      BY <2>7, <3>1 DEF Mapped, FirstJob
    <3>3. Forward(s, "pending", "running")
      BY <2>3, <2>6, <3>1, <3>2 DEF Forward
    <3>4. QED
      BY <3>3
  <2>9. QED
    BY <2>8 DEF Simulated
<1>3. CASE SkipMissing \/ FetchFails
  <2>1. Left({held} \cap Sessions)
    BY <1>3, DropSimulated DEF SkipMissing, FetchFails, FirstJob
  <2>2. QED
    BY <2>1 DEF Simulated
<1>4. QED
  BY <1>1, <1>2, <1>3

LEMMA JobSimulated ==
  ASSUME RefInv, NEW j \in Jobs, BeginJob(j) \/ BeginFails(j) \/ HandlerEnds(j) \/ CloseJob(j)
  PROVE  Simulated
<1>1. PICK s \in Sessions : j = <<s, 1>> /\ runs[s] = 1
  <2>1. PICK s \in Sessions, k \in Runs : j = <<s, k>>
    BY DEF Jobs
  <2>2. job[<<s, k>>] # "none"
    BY <2>1 DEF BeginJob, BeginFails, HandlerEnds, CloseJob
  <2>3. QED
    BY <2>1, <2>2, OneRun
<1>2. UNCHANGED <<queue, request, runs, held>>
  BY DEF BeginJob, BeginFails, HandlerEnds, CloseJob
<1>3. \A t \in Sessions : Waits(t)' <=> Waits(t)
  BY <1>2 DEF Waits, Queued
<1>4. \E to \in JobState : job' = [job EXCEPT ![j] = to]
  BY DEF BeginJob, BeginFails, HandlerEnds, CloseJob, JobState
<1>5. \A t \in Sessions : t # s => Mapped(t)' = Mapped(t)
  <2>1. ASSUME NEW t \in Sessions, t # s PROVE FirstJob(t)' = FirstJob(t)
    BY <1>1, <1>4, <2>1, OneRun DEF FirstJob, RefInv, TypeOK, Jobs
  <2>2. QED
    BY <1>2, <1>3, <2>1 DEF Mapped
<1>6. CASE BeginJob(j) \/ HandlerEnds(j)
  <2>1. FirstJob(s) \in Unfinished /\ FirstJob(s)' \in Unfinished
    BY <1>1, <1>6 DEF BeginJob, HandlerEnds, FirstJob, Unfinished, RefInv, TypeOK
  <2>2. Left({})
    BY <1>5, <2>1 DEF Left, Mapped
  <2>3. QED
    BY <2>2 DEF Simulated
<1>7. CASE BeginFails(j)
  <2>1. FirstJob(s) = "created" /\ FirstJob(s)' = "skipped"
    BY <1>1, <1>7 DEF BeginFails, FirstJob, RefInv, TypeOK
  <2>2. Mapped(s) = "running" /\ Mapped(s)' = "gone"
    BY <1>1, <1>2, <2>1 DEF Mapped, Unfinished
  <2>3. Left({s})
    BY <1>5, <2>2 DEF Left
  <2>4. QED
    BY <2>3 DEF Simulated
<1>8. CASE CloseJob(j)
  <2>1. FirstJob(s) \in Unfinished /\ FirstJob(s)' = "done"
    BY <1>1, <1>8 DEF CloseJob, FirstJob, Unfinished, RefInv, TypeOK
  <2>2. Mapped(s) = "running" /\ Mapped(s)' = "finished"
    BY <2>1 DEF Mapped, Unfinished
  <2>3. Forward(s, "running", "finished")
    BY <1>5, <2>2 DEF Forward
  <2>4. QED
    BY <2>3 DEF Simulated
<1>9. QED
  BY <1>6, <1>7, <1>8

LEMMA ProcessSimulated ==
  ASSUME RefInv, Shutdown \/ Drained \/ Crash \/ Restart \/ UNCHANGED qvars
  PROVE  Simulated
<1>1. CASE Shutdown
  <2>1. Left({held} \cap Sessions)
    BY <1>1, DropSimulated DEF Shutdown, FirstJob
  <2>2. QED
    BY <2>1 DEF Simulated
<1>2. CASE Crash
  <2> DEFINE S == {t \in Sessions : t = held \/ FirstJob(t) \in Unfinished}
  <2>1. held' = NoSession /\ UNCHANGED <<queue, request, runs>>
    BY <1>2 DEF Crash
  <2>2. \A t \in Sessions : FirstJob(t)' = IF FirstJob(t) \in Unfinished THEN "killed" ELSE FirstJob(t)
    BY <1>2, OneRun DEF Crash, FirstJob, Jobs
  <2>3. ASSUME NEW t \in Sessions, t \notin S PROVE Mapped(t)' = Mapped(t)
    <3>1. Waits(t)' <=> Waits(t)
      BY <2>1, <2>3, QueueAssumption DEF Waits, Queued, QueueAssumption
    <3>2. QED
      BY <2>1, <2>2, <2>3, <3>1 DEF Mapped
  <2>4. ASSUME NEW t \in Sessions, t = held PROVE Mapped(t) # "finished" /\ Mapped(t)' = "gone"
    <3>1. runs[t] = 0 /\ request[t] # "new" /\ ~Queued(t)
      BY <2>4, QueueAssumption DEF RefInv, OnePlace, Queued, QueueAssumption
    <3>2. FirstJob(t) = "none"
      BY <3>1, OneRun DEF FirstJob
    <3>3. ~Waits(t)'
      BY <2>1, <3>1, QueueAssumption DEF Waits, Queued, QueueAssumption
    <3>4. QED
      BY <2>1, <2>2, <3>1, <3>2, <3>3 DEF Mapped, Unfinished
  <2>5. ASSUME NEW t \in Sessions, FirstJob(t) \in Unfinished PROVE Mapped(t) # "finished" /\ Mapped(t)' = "gone"
    <3>1. runs[t] = 1
      BY <2>5, OneRun DEF FirstJob, Unfinished
    <3>2. QED
      BY <2>1, <2>2, <2>5, <3>1 DEF Mapped, Unfinished
  <2>6. Left(S)
    BY <2>3, <2>4, <2>5 DEF Left
  <2>7. QED
    BY <2>6 DEF Simulated
<1>3. CASE Drained \/ Restart \/ UNCHANGED qvars
  <2>1. UNCHANGED <<queue, request, runs, held, job>>
    BY <1>3 DEF Drained, Restart, qvars
  <2>2. Left({})
    BY <2>1 DEF Left, Mapped, FirstJob, Waits, Queued
  <2>3. QED
    BY <2>2 DEF Simulated
<1>4. QED
  BY <1>1, <1>2, <1>3

-----------------------------------------------------------------------------
LEMMA JobsCountedStep == RefInv /\ [Next]_qvars => JobsCounted'
<1> SUFFICES ASSUME RefInv, [Next]_qvars PROVE JobsCounted'
  OBVIOUS
<1>1. CASE StartJob
  <2>1. held \in Sessions /\ runs[held] = 0
    BY <1>1 DEF StartJob, RefInv, TypeOK, OnePlace
  <2>2. runs' = [runs EXCEPT ![held] = 1] /\ job' = [job EXCEPT ![<<held, 1>>] = "created"]
    BY <1>1, <2>1 DEF StartJob
  <2>3. ASSUME NEW s \in Sessions, NEW k \in Runs, job'[<<s, k>>] # "none" PROVE k <= runs'[s]
    <3>1. CASE s = held
      <4>1. job[<<s, k>>] = "none" /\ runs'[s] = 1
        BY <2>1, <2>2, <3>1, OneRun DEF RefInv, TypeOK
      <4>2. k = 1
        BY <2>2, <2>3, <4>1 DEF RefInv, TypeOK, Jobs
      <4>3. QED
        BY <4>1, <4>2
    <3>2. CASE s # held
      BY <2>2, <2>3, <3>2 DEF RefInv, TypeOK, Jobs, JobsCounted
    <3>3. QED
      BY <3>1, <3>2
  <2>4. QED
    BY <2>3 DEF JobsCounted
<1>2. CASE ApiStep \/ Pop \/ SkipMissing \/ FetchFails \/ Shutdown \/ Drained \/ Restart \/ UNCHANGED qvars
  <2>1. UNCHANGED <<job, runs>>
    BY <1>2 DEF ApiStep, Submit, SubmitFails, SubmitUndo, Pop, SkipMissing, FetchFails, Shutdown, Drained,
                Restart, qvars
  <2>2. QED
    BY <2>1 DEF RefInv, JobsCounted
<1>3. ASSUME NEW j \in Jobs, BeginJob(j) \/ BeginFails(j) \/ HandlerEnds(j) \/ CloseJob(j)
      PROVE  JobsCounted'
  <2>1. job[j] # "none" /\ UNCHANGED runs
    BY <1>3 DEF BeginJob, BeginFails, HandlerEnds, CloseJob
  <2>2. \E to \in JobState : job' = [job EXCEPT ![j] = to]
    BY <1>3 DEF BeginJob, BeginFails, HandlerEnds, CloseJob, JobState
  <2>3. \A i \in Jobs : job'[i] # "none" => job[i] # "none"
    BY <2>1, <2>2 DEF RefInv, TypeOK
  <2>4. QED
    BY <2>1, <2>3 DEF RefInv, JobsCounted, Jobs
<1>4. CASE Crash
  <2>1. UNCHANGED runs /\ \A i \in Jobs : job'[i] # "none" => job[i] # "none"
    BY <1>4 DEF Crash, Unfinished
  <2>2. QED
    BY <2>1 DEF RefInv, JobsCounted, Jobs
<1>5. QED
  BY <1>1, <1>2, <1>3, <1>4 DEF Next, LoopStep, JobStep, ProcessStep

LEMMA NextSimulated == RefInv /\ [Next]_qvars => Simulated
BY ApiSimulated, LoopSimulated, JobSimulated, ProcessSimulated DEF Next, ApiStep, LoopStep, JobStep, ProcessStep

(* Each simulated step is a step of DispatchOnce, or a stutter. *)
LEMMA SimulatedIsAbstract ==
  ASSUME Simulated, PhaseMap = MappedMap, PhaseMap' = MappedMap'
  PROVE  [Abstract!Next]_PhaseMap
<1>1. MappedMap = [t \in Sessions |-> Mapped(t)] /\ MappedMap' = [t \in Sessions |-> Mapped(t)']
  BY DEF MappedMap
<1>2. ASSUME NEW s \in Sessions, NEW from, NEW to, Forward(s, from, to)
      PROVE  PhaseMap[s] = from /\ PhaseMap' = [PhaseMap EXCEPT ![s] = to]
  BY <1>1, <1>2 DEF Forward
<1>3. ASSUME NEW s \in Sessions,
             Forward(s, "idle", "pending") \/ Forward(s, "pending", "running") \/ Forward(s, "running", "finished")
      PROVE  Abstract!Next
  <2>1. \/ PhaseMap[s] = "idle" /\ PhaseMap' = [PhaseMap EXCEPT ![s] = "pending"]
        \/ PhaseMap[s] = "pending" /\ PhaseMap' = [PhaseMap EXCEPT ![s] = "running"]
        \/ PhaseMap[s] = "running" /\ PhaseMap' = [PhaseMap EXCEPT ![s] = "finished"]
    BY <1>2, <1>3
  <2>2. Abstract!Accept(s) \/ Abstract!Dispatch(s) \/ Abstract!Finish(s)
    BY <2>1 DEF Abstract!Accept, Abstract!Dispatch, Abstract!Finish, Abstract!Move, PhaseMap
  <2>3. QED
    BY <2>2 DEF Abstract!Next
<1>4. ASSUME NEW S \in SUBSET Sessions, Left(S)
      PROVE  Abstract!Next
  <2>1. /\ \A t \in S : PhaseMap[t] # "finished"
        /\ PhaseMap' = [t \in Sessions |-> IF t \in S THEN "gone" ELSE PhaseMap[t]]
    BY <1>1, <1>4 DEF Left
  <2>2. Abstract!Lose(S)
    BY <2>1 DEF Abstract!Lose, PhaseMap
  <2>3. QED
    BY <2>2 DEF Abstract!Next
<1>5. QED
  BY <1>3, <1>4 DEF Simulated

(* ImplementsDispatchOnce: whatever fails, stops, crashes or restarts, a   *)
(* session only moves forward, from idle to pending, to one run, to        *)
(* finished, or out of the system.                                         *)
THEOREM QueueDispatchesOnce == Spec => ImplementsDispatchOnce
<1>1. Init => OnePlace /\ JobsCounted
  BY DEF Init, OnePlace, JobsCounted, Jobs
<1>2. RefInv <=> TypeOK /\ OnePlace /\ JobsCounted
  BY DEF RefInv
<1>3. Spec => []RefInv
  BY <1>1, <1>2, OnePlaceInductive, JobsCountedStep, TypeCorrect, PTL DEF Spec
<1>4. Init /\ RefInv => Abstract!Init
  <2> SUFFICES ASSUME Init, RefInv PROVE Abstract!Init
    OBVIOUS
  <2>1. ASSUME NEW s \in Sessions PROVE Mapped(s) = "idle"
    <3>1. FirstJob(s) = "none"
      BY OneRun DEF Init, FirstJob, Jobs
    <3>2. QED
      BY <3>1, QueueAssumption DEF Init, Mapped, Waits, Queued, Unfinished, QueueAssumption
  <2>2. PhaseMap = [s \in Sessions |-> "idle"]
    BY <2>1, PhaseIsMapped DEF MappedMap
  <2>3. QED
    BY <2>2 DEF Abstract!Init, PhaseMap
<1>5. RefInv /\ RefInv' /\ [Next]_qvars => [Abstract!Next]_PhaseMap
  <2>1. RefInv => MapsAgree
    BY PhaseIsMapped DEF MapsAgree
  <2>2. RefInv' => MapsAgree'
    BY <2>1, PTL
  <2>3. QED
    BY <2>1, <2>2, NextSimulated, SimulatedIsAbstract DEF MapsAgree
<1>6. [Abstract!Next]_PhaseMap <=> [Abstract!Next]_[s \in Sessions |-> PhaseOf(s)]
  BY DEF PhaseMap
<1>7. QED
  BY <1>3, <1>4, <1>5, <1>6, PTL DEF Spec, ImplementsDispatchOnce, Abstract!Spec

-----------------------------------------------------------------------------
(* The types the proofs need; the list and the snapshots are not among     *)
(* them.                                                                   *)
TablesOK ==
  /\ JobsOK
  /\ tasks \in [Sessions -> TaskStatus]
  /\ request \in [Sessions -> {"new", "accepted", "undoing", "rejected"}]
  /\ runs \in [Sessions -> Nat]
  /\ prune \in [Sessions -> {"none", "cleared", "read", "over"}]

LEMMA TablesStep == TablesOK /\ [PruningNext]_<<qvars, pvars>> => TablesOK'
<1> SUFFICES ASSUME TablesOK, [PruningNext]_<<qvars, pvars>>
             PROVE  TablesOK'
  OBVIOUS
<1> USE DEF TablesOK, JobsOK
<1>1. ASSUME NEW s \in Sessions, Submit(s) \/ SubmitFails(s) \/ SubmitUndo(s), UNCHANGED pvars
      PROVE  TablesOK'
  <2>1. UNCHANGED <<job, runs, prune>>
    BY <1>1 DEF Submit, SubmitFails, SubmitUndo, pvars
  <2>2. request' \in [Sessions -> {"new", "accepted", "undoing", "rejected"}]
    BY <1>1 DEF Submit, SubmitFails, SubmitUndo
  <2>3. tasks' \in [Sessions -> TaskStatus]
    BY <1>1 DEF Submit, SubmitFails, SubmitUndo, Enqueue, TaskStatus
  <2>4. QED
    BY <2>1, <2>2, <2>3
<1>2. CASE LoopStep /\ UNCHANGED pvars
  <2>1. CASE StartJob
    <3>1. runs' \in [Sessions -> Nat]
      <4>1. CASE held \in Sessions
        <5>1. runs[held] + 1 \in Nat
          BY <4>1
        <5>2. QED
          BY <2>1, <5>1 DEF StartJob
      <4>2. CASE held \notin Sessions
        <5>1. \A s \in Sessions : runs'[s] = runs[s]
          BY <2>1, <4>2 DEF StartJob
        <5>2. QED
          BY <2>1, <5>1 DEF StartJob
      <4>3. QED
        BY <4>1, <4>2
    <3>2. job' \in [Jobs -> JobState]
      BY <2>1 DEF StartJob, JobState
    <3>3. QED
      BY <1>2, <2>1, <3>1, <3>2 DEF StartJob, pvars
  <2>2. CASE Pop \/ SkipMissing \/ FetchFails
    BY <1>2, <2>2 DEF Pop, SkipMissing, FetchFails, pvars
  <2>3. QED
    BY <1>2, <2>1, <2>2 DEF LoopStep
<1>3. ASSUME NEW j \in Jobs, BeginJob(j) \/ BeginFails(j) \/ HandlerEnds(j) \/ CloseJob(j),
             UNCHANGED pvars
      PROVE  TablesOK'
  <2>1. UNCHANGED <<request, runs, prune>>
    BY <1>3 DEF BeginJob, BeginFails, HandlerEnds, CloseJob, pvars
  <2>2. job' \in [Jobs -> JobState]
    BY <1>3 DEF BeginJob, BeginFails, HandlerEnds, CloseJob, JobState
  <2>3. tasks' \in [Sessions -> TaskStatus]
    BY <1>3 DEF BeginJob, BeginFails, HandlerEnds, CloseJob, TaskStatus
  <2>4. QED
    BY <2>1, <2>2, <2>3
<1>4. CASE ProcessStep /\ UNCHANGED pvars
  BY <1>4 DEF ProcessStep, Shutdown, Drained, Crash, Restart, JobState, pvars
<1>5. CASE Terminate
  BY <1>5 DEF Terminate, ClearKeys, ReadList, WriteList, PruneFails, WorkerUntouched, TaskStatus
<1>6. CASE UNCHANGED <<qvars, pvars>>
  BY <1>6 DEF qvars, pvars
<1>7. QED
  BY <1>1, <1>2, <1>3, <1>4, <1>5, <1>6 DEF PruningNext, Next, ApiStep, JobStep

LEMMA TablesInvariant == PruningSpec => []TablesOK
<1>1. PruningInit => TablesOK
  BY DEF PruningInit, Init, PruneInit, TablesOK, JobsOK, TaskStatus, JobState
<1>2. QED
  BY <1>1, TablesStep, PTL DEF PruningSpec

-----------------------------------------------------------------------------
(* Only an accepted session is terminated; a session none of whose jobs    *)
(* was created has no job; and once such a session is terminated, nobody   *)
(* writes its task record any more: the upload is over, and there is no    *)
(* job to do it.                                                           *)
OnlyAccepted == \A s \in Sessions : prune[s] # "none" => request[s] = "accepted"
NoJobBefore == \A j \in Jobs : runs[j[1]] = 0 => job[j] = "none"
RecordIsGone == \A s \in Sessions : prune[s] # "none" /\ runs[s] = 0 => tasks[s] = "absent"
GoneInv == OnlyAccepted /\ NoJobBefore /\ RecordIsGone

LEMMA GoneInvStep == TablesOK /\ GoneInv /\ [PruningNext]_<<qvars, pvars>> => GoneInv'
<1> SUFFICES ASSUME TablesOK, GoneInv, [PruningNext]_<<qvars, pvars>>
             PROVE  GoneInv'
  OBVIOUS
<1> USE DEF TablesOK, JobsOK, GoneInv, OnlyAccepted, NoJobBefore, RecordIsGone
<1>0. \A j \in Jobs : j[1] \in Sessions
  BY DEF Jobs
<1>1. ASSUME NEW s \in Sessions, Submit(s) \/ SubmitFails(s) \/ SubmitUndo(s), UNCHANGED pvars
      PROVE  GoneInv'
  <2>1. prune[s] = "none" /\ UNCHANGED <<job, runs, prune>>
    BY <1>1 DEF Submit, SubmitFails, SubmitUndo, pvars
  <2>2. \A t \in Sessions : t # s => request'[t] = request[t] /\ tasks'[t] = tasks[t]
    BY <1>1 DEF Submit, SubmitFails, SubmitUndo, Enqueue
  <2>3. QED
    BY <2>1, <2>2
<1>2. CASE LoopStep /\ UNCHANGED pvars
  <2>1. CASE StartJob
    <3>1. UNCHANGED <<tasks, request, prune>>
      BY <1>2, <2>1 DEF StartJob, pvars
    <3>2. \A s \in Sessions : runs'[s] = 0 => s # held /\ runs[s] = 0
      BY <2>1 DEF StartJob
    <3>3. \A j \in Jobs : j[1] # held => job'[j] = job[j]
      BY <2>1 DEF StartJob
    <3>4. QED
      BY <1>0, <3>1, <3>2, <3>3
  <2>2. CASE Pop \/ SkipMissing \/ FetchFails
    BY <1>2, <2>2 DEF Pop, SkipMissing, FetchFails, pvars
  <2>3. QED
    BY <1>2, <2>1, <2>2 DEF LoopStep
<1>3. ASSUME NEW j \in Jobs, BeginJob(j) \/ BeginFails(j) \/ HandlerEnds(j) \/ CloseJob(j),
             UNCHANGED pvars
      PROVE  GoneInv'
  <2>1. job[j] # "none" /\ UNCHANGED <<request, runs, prune>>
    BY <1>3 DEF BeginJob, BeginFails, HandlerEnds, CloseJob, pvars
  <2>2. runs[j[1]] # 0 /\ j[1] \in Sessions
    BY <1>0, <2>1
  <2>3. \A i \in Jobs : i # j => job'[i] = job[i]
    BY <1>3 DEF BeginJob, BeginFails, HandlerEnds, CloseJob
  <2>4. \A t \in Sessions : t # j[1] => tasks'[t] = tasks[t]
    BY <1>3 DEF BeginJob, BeginFails, HandlerEnds, CloseJob
  <2>5. QED
    BY <2>1, <2>2, <2>3, <2>4
<1>4. CASE ProcessStep /\ UNCHANGED pvars
  <2>1. UNCHANGED <<tasks, request, runs, prune>>
    BY <1>4 DEF ProcessStep, Shutdown, Drained, Crash, Restart, pvars
  <2>2. \A j \in Jobs : job[j] = "none" => job'[j] = "none"
    BY <1>4 DEF ProcessStep, Shutdown, Drained, Crash, Restart, Unfinished
  <2>3. QED
    BY <2>1, <2>2
<1>5. CASE Terminate
  BY <1>5 DEF Terminate, ClearKeys, ReadList, WriteList, PruneFails, WorkerUntouched
<1>6. CASE UNCHANGED <<qvars, pvars>>
  BY <1>6 DEF qvars, pvars
<1>7. QED
  BY <1>1, <1>2, <1>3, <1>4, <1>5, <1>6 DEF PruningNext, Next, ApiStep, JobStep

LEMMA GoneInvariant == PruningSpec => [](TablesOK /\ GoneInv)
<1>1. PruningInit => GoneInv
  BY DEF PruningInit, Init, PruneInit, GoneInv, OnlyAccepted, NoJobBefore, RecordIsGone, Jobs
<1>2. QED
  BY <1>1, TablesInvariant, GoneInvStep, PTL DEF PruningSpec

(* A session that was terminated before its pipeline was started keeps     *)
(* that status through every further step.                                 *)
StoppedBefore(s) == prune[s] # "none" /\ runs[s] = 0

LEMMA StoppedBeforeStays ==
  ASSUME NEW s \in Sessions, TablesOK, GoneInv, [PruningNext]_<<qvars, pvars>>, StoppedBefore(s)
  PROVE  StoppedBefore(s)'
<1> USE DEF StoppedBefore, TablesOK
<1>1. prune'[s] # "none"
  BY DEF PruningNext, Terminate, ClearKeys, ReadList, WriteList, PruneFails, qvars, pvars
<1>2. tasks[s] = "absent"
  BY DEF GoneInv, RecordIsGone
<1>3. CASE StartJob
  BY <1>1, <1>2, <1>3 DEF StartJob
<1>4. CASE ~StartJob
  <2>1. UNCHANGED runs
    BY <1>4 DEF PruningNext, Next, ApiStep, Submit, SubmitFails, SubmitUndo,
                LoopStep, Pop, SkipMissing, FetchFails,
                JobStep, BeginJob, BeginFails, HandlerEnds, CloseJob,
                ProcessStep, Shutdown, Drained, Crash, Restart,
                Terminate, ClearKeys, ReadList, WriteList, PruneFails, WorkerUntouched, qvars, pvars
  <2>2. QED
    BY <1>1, <2>1
<1>5. QED
  BY <1>3, <1>4

(* A session terminated before its pipeline was started is never started,  *)
(* whatever the list says and however long the worker has held it.         *)
THEOREM TerminatedStaysOut == PruningSpec => TerminatedBeforeStartNeverRuns
<1>1. TablesOK /\ GoneInv /\ [PruningNext]_<<qvars, pvars>> =>
        [\A s \in Sessions : prune[s] # "none" /\ runs[s] = 0 => runs'[s] = 0]_<<qvars, pvars>>
  BY StoppedBeforeStays DEF StoppedBefore
<1>2. QED
  BY <1>1, TablesInvariant, GoneInvariant, PTL DEF PruningSpec, TerminatedBeforeStartNeverRuns

-----------------------------------------------------------------------------
(* A worker beside terminations exceeds WORKER_CONCURRENCY no more than    *)
(* one without: a session brought back on the list takes a slot as any     *)
(* other.                                                                  *)
THEOREM SlotsRespectedBesidePruning == PruningSpec => []ConcurrencyRespected
<1>1. PruningInit => SlotInv
  <2> SUFFICES ASSUME PruningInit PROVE SlotInv
    OBVIOUS
  <2>1. ActiveJobs = {}
    BY DEF PruningInit, Init, ActiveJobs, Unfinished
  <2>2. QED
    BY <2>1, FS_EmptySet, QueueAssumption DEF SlotInv, ConcurrencyRespected, PruningInit, Init
<1>2. TablesOK /\ SlotInv /\ [PruningNext]_<<qvars, pvars>> => SlotInv'
  <2> SUFFICES ASSUME TablesOK, SlotInv, [PruningNext]_<<qvars, pvars>>
               PROVE  SlotInv'
    OBVIOUS
  <2>1. CASE [Next]_qvars
    BY <2>1, SlotInvInductive DEF TablesOK
  <2>2. CASE Terminate
    <3>1. UNCHANGED <<loop, job>>
      BY <2>2 DEF Terminate, ClearKeys, ReadList, WriteList, PruneFails, WorkerUntouched
    <3>2. QED
      BY <3>1, FewerJobs DEF ActiveJobs
  <2>3. QED
    BY <2>1, <2>2 DEF PruningNext
<1>3. QED
  BY <1>1, <1>2, TablesInvariant, PTL DEF PruningSpec, SlotInv
=============================================================================
