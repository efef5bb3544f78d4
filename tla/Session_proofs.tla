--------------------------- MODULE Session_proofs ----------------------------
(***************************************************************************)
(* Proofs about the outcome of a session, its decision gates and its live  *)
(* updates, for any number of failed calls, restarts of the API and resume *)
(* requests, and any senders, updates and sizes of buffer and queue.       *)
(***************************************************************************)
EXTENDS SessionOutcome, HitlGate, LiveUpdates, FiniteSetTheorems, SequenceTheorems,
        WellFoundedInduction, TLAPS

-----------------------------------------------------------------------------
(* The type invariant in parts; the Booleans apart.               *)
Jobs == Handler \cup Over \cup {"queued", "escalateMeta", "escalateRow"}
RowStatus == {"none", "completed", "degraded", "error", "terminated"}
Kinds == {"complete", "degraded", "error", "terminated"}

StoresOK ==
  /\ meta \in MetaStatus /\ row \in RowStatus
  /\ inv \in {"queued", "completed", "interrupted"}
  /\ told \subseteq Kinds
  /\ faults \in 0 .. MaxFaults

WorkerOK == job \in Jobs /\ phase \in 0 .. Len(PhaseStatus)

ApiOK ==
  /\ term \in {"idle", "clearing", "pruning", "recording", "done", "lost"}
  /\ rec \in {"idle", "reading", "writing", "saving"}
  /\ restarts \in 0 .. MaxRestarts /\ resumes \in 0 .. MaxResumes

FlagsOK == rep \in BOOLEAN /\ cut \in BOOLEAN /\ resume \in BOOLEAN

Parts == StoresOK /\ WorkerOK /\ ApiOK

LEMMA TypeParts == TypeOK <=> Parts /\ FlagsOK
BY DEF TypeOK, Parts, StoresOK, WorkerOK, ApiOK, FlagsOK, Jobs, RowStatus, Kinds

LEMMA Members ==
  /\ Handler \subseteq Jobs /\ Over \subseteq Jobs
  /\ {"queued", "escalateMeta", "escalateRow", "ended", "dead", "dropped"} \subseteq Jobs
  /\ \A k \in 1 .. Len(PhaseStatus) : PhaseStatus[k] \in MetaStatus
  /\ Len(PhaseStatus) = 4
BY DEF Handler, Over, Jobs, PhaseStatus, MetaStatus

(* The fault counter and the stores that may fail. *)
LEMMA FaultType ==
  ASSUME StoresOK, Fault
  PROVE  faults' \in 0 .. MaxFaults
BY OutcomeAssumption DEF OutcomeAssumption, StoresOK, Fault

LEMMA SetStatusType ==
  ASSUME StoresOK, NEW s \in MetaStatus, SetStatus(s)
  PROVE  meta' \in MetaStatus /\ faults' \in 0 .. MaxFaults
BY FaultType DEF SetStatus, StoresOK

LEMMA SetRowType ==
  ASSUME StoresOK, NEW s \in RowStatus, SetRow(s)
  PROVE  row' \in RowStatus /\ faults' \in 0 .. MaxFaults
BY FaultType DEF SetRow, StoresOK

(* A move of the job leaves the API alone. *)
LEMMA GoType ==
  ASSUME WorkerOK, ApiOK, NEW from, NEW to \in Jobs, Go(from, to)
  PROVE  WorkerOK' /\ ApiOK'
BY DEF WorkerOK, ApiOK, Go, api

-----------------------------------------------------------------------------
LEMMA PartsInit == Init => Parts
<1> SUFFICES ASSUME Init PROVE Parts
  OBVIOUS
<1>1. StoresOK
  <2>1. 0 \in 0 .. MaxFaults
    BY OutcomeAssumption DEF OutcomeAssumption
  <2>2. QED
    BY <2>1 DEF Init, StoresOK, MetaStatus, RowStatus, Kinds
<1>2. WorkerOK
  BY Members DEF Init, WorkerOK
<1>3. ApiOK
  BY OutcomeAssumption DEF Init, ApiOK, OutcomeAssumption
<1>4. QED
  BY <1>1, <1>2, <1>3 DEF Parts

LEMMA PipelineStepType == Parts /\ PipelineStep => Parts'
<1> SUFFICES ASSUME StoresOK, WorkerOK, ApiOK, PipelineStep PROVE StoresOK' /\ WorkerOK' /\ ApiOK'
  BY DEF Parts
<1>1. CASE Start \/ PipelineFails \/ Sign
  <2>1. StoresOK'
    BY <1>1 DEF Start, PipelineFails, Sign, StoresOK, stores
  <2>2. {"starting", "failing", "caching"} \subseteq Jobs
    BY DEF Jobs, Handler
  <2>3. QED
    BY <1>1, <2>1, <2>2, GoType DEF Start, PipelineFails, Sign
<1>2. CASE MarkRunning \/ MarkReady
  <2>1. {"running", "report_ready"} \subseteq MetaStatus /\ {"working", "logging"} \subseteq Jobs
    BY DEF MetaStatus, Jobs, Handler
  <2>2. meta' \in MetaStatus /\ faults' \in 0 .. MaxFaults
    BY <1>2, <2>1, SetStatusType DEF MarkRunning, MarkReady
  <2>3. StoresOK'
    BY <1>2, <2>2 DEF MarkRunning, MarkReady, StoresOK
  <2>4. QED
    BY <1>2, <2>1, <2>3, GoType DEF MarkRunning, MarkReady
<1>3. CASE Advance
  <2>1. PICK later \in (phase + 1) .. Len(PhaseStatus) : phase' = later /\ SetStatus(PhaseStatus[later])
    BY <1>3 DEF Advance
  <2>2. later \in 1 .. Len(PhaseStatus)
    BY <2>1, Members DEF WorkerOK
  <2>3. meta' \in MetaStatus /\ faults' \in 0 .. MaxFaults
    BY <2>1, <2>2, Members, SetStatusType
  <2>4. QED
    BY <1>3, <2>1, <2>2, <2>3, Members DEF Advance, StoresOK, WorkerOK, ApiOK, api
<1>4. CASE CacheReport \/ LogSigned
  <2>1. faults' \in 0 .. MaxFaults
    BY <1>4, FaultType DEF CacheReport, LogSigned, StoresOK
  <2>2. StoresOK'
    BY <1>4, <2>1 DEF CacheReport, LogSigned, StoresOK, stores
  <2>3. {"readying", "completing", "failing"} \subseteq Jobs
    BY DEF Jobs, Handler
  <2>4. QED
    BY <1>4, <2>2, <2>3, GoType DEF CacheReport, LogSigned
<1>5. QED
  BY <1>1, <1>2, <1>3, <1>4 DEF PipelineStep

LEMMA CompletionStepType == Parts /\ CompletionStep => Parts'
<1> SUFFICES ASSUME StoresOK, WorkerOK, ApiOK, CompletionStep PROVE StoresOK' /\ WorkerOK' /\ ApiOK'
  BY DEF Parts
<1>0. {"ended", "regen", "storing", "stating", "degrading", "publishing", "marking", "failing"} \subseteq Jobs
  BY DEF Jobs, Handler, Over
<1>1. CASE CheckIdempotent \/ Regenerate
  <2>1. StoresOK'
    BY <1>1 DEF CheckIdempotent, Regenerate, StoresOK, stores
  <2>2. \E from, to : to \in Jobs /\ Go(from, to)
    BY <1>0, <1>1 DEF CheckIdempotent, Regenerate
  <2>3. QED
    BY <2>1, <2>2, GoType
<1>2. CASE SaveReport \/ SaveStatus \/ PublishReport
  <2>1. faults' \in 0 .. MaxFaults
    BY <1>2, FaultType DEF SaveReport, SaveStatus, PublishReport, StoresOK
  <2>2. StoresOK'
    BY <1>2, <2>1 DEF SaveReport, SaveStatus, PublishReport, StoresOK, RowStatus
  <2>3. QED
    BY <1>0, <1>2, <2>2, GoType DEF SaveReport, SaveStatus, PublishReport
<1>3. CASE MarkCompleted \/ MarkUnsaved
  <2>1. meta' \in MetaStatus /\ faults' \in 0 .. MaxFaults
    <3>1. {"completed", "degraded"} \subseteq MetaStatus
      BY DEF MetaStatus
    <3>2. QED
      BY <1>3, <3>1, SetStatusType DEF MarkCompleted, MarkUnsaved
  <2>2. StoresOK'
    BY <1>3, <2>1 DEF MarkCompleted, MarkUnsaved, StoresOK, Kinds
  <2>3. QED
    BY <1>0, <1>3, <2>2, GoType DEF MarkCompleted, MarkUnsaved
<1>4. QED
  BY <1>1, <1>2, <1>3 DEF CompletionStep

LEMMA FailureStepType == Parts /\ FailureStep => Parts'
<1> SUFFICES ASSUME StoresOK, WorkerOK, ApiOK, FailureStep PROVE StoresOK' /\ WorkerOK' /\ ApiOK'
  BY DEF Parts
<1>0. {"degradeRow", "errorRow", "degradeMeta", "errorMeta", "escalateMeta", "escalateRow", "ended"} \subseteq Jobs
  BY DEF Jobs, Handler, Over
<1>1. CASE LookForReport
  <2>1. faults' \in 0 .. MaxFaults
    BY <1>1, FaultType DEF LookForReport, StoresOK
  <2>2. StoresOK'
    BY <1>1, <2>1 DEF LookForReport, StoresOK, stores
  <2>3. QED
    BY <1>0, <1>1, <2>2, GoType DEF LookForReport
<1>2. CASE DegradeRow \/ ErrorRow \/ EscalateRow
  <2>1. row' \in RowStatus /\ faults' \in 0 .. MaxFaults
    <3>1. {"degraded", "error"} \subseteq RowStatus
      BY DEF RowStatus
    <3>2. QED
      BY <1>2, <3>1, SetRowType DEF DegradeRow, ErrorRow, EscalateRow
  <2>2. StoresOK'
    BY <1>2, <2>1 DEF DegradeRow, ErrorRow, EscalateRow, StoresOK
  <2>3. QED
    BY <1>0, <1>2, <2>2, GoType DEF DegradeRow, ErrorRow, EscalateRow
<1>3. CASE DegradeMeta \/ ErrorMeta \/ EscalateMeta
  <2>1. meta' \in MetaStatus /\ faults' \in 0 .. MaxFaults
    <3>1. {"degraded", "error"} \subseteq MetaStatus
      BY DEF MetaStatus
    <3>2. QED
      BY <1>3, <3>1, SetStatusType DEF DegradeMeta, ErrorMeta, EscalateMeta
  <2>2. StoresOK'
    BY <1>3, <2>1 DEF DegradeMeta, ErrorMeta, EscalateMeta, StoresOK, Kinds
  <2>3. QED
    BY <1>0, <1>3, <2>2, GoType DEF DegradeMeta, ErrorMeta, EscalateMeta
<1>4. QED
  BY <1>1, <1>2, <1>3 DEF FailureStep

LEMMA ApiStepType == Parts /\ ApiStep => Parts'
<1> SUFFICES ASSUME StoresOK, WorkerOK, ApiOK, ApiStep PROVE StoresOK' /\ WorkerOK' /\ ApiOK'
  BY DEF Parts
<1>1. CASE TerminateTells
  BY <1>1 DEF TerminateTells, Terminate, StoresOK, WorkerOK, ApiOK, stores, worker, Kinds
<1>2. CASE TerminateClears
  <2>1. faults' \in 0 .. MaxFaults
    BY <1>2, FaultType DEF TerminateClears, StoresOK
  <2>2. QED
    BY <1>2, <2>1 DEF TerminateClears, Terminate, StoresOK, WorkerOK, ApiOK, worker, MetaStatus
<1>3. CASE TerminatePrunes
  BY <1>3, Members DEF TerminatePrunes, Terminate, StoresOK, WorkerOK, ApiOK, stores
<1>4. CASE TerminateRecords
  <2>1. row' \in RowStatus /\ faults' \in 0 .. MaxFaults
    BY <1>4, SetRowType DEF TerminateRecords, RowStatus
  <2>2. QED
    BY <1>4, <2>1 DEF TerminateRecords, Terminate, StoresOK, WorkerOK, ApiOK, worker
<1>5. CASE ResumeChecks
  BY <1>5, OutcomeAssumption DEF ResumeChecks, StoresOK, WorkerOK, ApiOK, stores, worker, OutcomeAssumption
<1>6. CASE ResumeWrites
  <2>1. meta' \in MetaStatus /\ faults' \in 0 .. MaxFaults
    BY <1>6, SetStatusType DEF ResumeWrites, MetaStatus
  <2>2. QED
    BY <1>6, <2>1 DEF ResumeWrites, StoresOK, WorkerOK, ApiOK, worker
<1>7. CASE Restart
  BY <1>7, OutcomeAssumption DEF Restart, StoresOK, WorkerOK, ApiOK, stores, worker, OutcomeAssumption
<1>8. CASE RecoveryReads
  BY <1>8 DEF RecoveryReads, Recover, StoresOK, WorkerOK, ApiOK, stores, worker
<1>9. CASE RecoveryWrites \/ RecoverySaves
  <2>1. faults' \in 0 .. MaxFaults
    BY <1>9, FaultType DEF RecoveryWrites, RecoverySaves, StoresOK
  <2>2. QED
    BY <1>9, <2>1 DEF RecoveryWrites, RecoverySaves, Recover, StoresOK, WorkerOK, ApiOK, worker, MetaStatus
<1>10. QED
  BY <1>1, <1>2, <1>3, <1>4, <1>5, <1>6, <1>7, <1>8, <1>9 DEF ApiStep

LEMMA PartsStep == Parts /\ [Next]_vars => Parts'
<1> SUFFICES ASSUME Parts, [Next]_vars PROVE Parts'
  OBVIOUS
<1>1. CASE Timeout \/ WorkerDies
  <2>1. {"storing", "escalateMeta", "dead"} \subseteq Jobs
    BY DEF Jobs, Handler, Over
  <2>2. QED
    BY <1>1, <2>1 DEF Timeout, WorkerDies, Parts, StoresOK, WorkerOK, ApiOK, stores, api
<1>2. CASE UNCHANGED vars
  BY <1>2 DEF vars, stores, worker, api, Parts, StoresOK, WorkerOK, ApiOK
<1>3. QED
  BY <1>1, <1>2, PipelineStepType, CompletionStepType, FailureStepType, ApiStepType DEF Next, JobStep

LEMMA FlagsStep == FlagsOK /\ [Next]_vars => FlagsOK'
<1> SUFFICES ASSUME FlagsOK, [Next]_vars PROVE FlagsOK'
  OBVIOUS
<1> USE DEF FlagsOK, Go, api, stores, worker, Terminate, Recover
<1>1. CASE PipelineStep
  BY <1>1, Zenon DEF PipelineStep, Start, MarkRunning, Advance, PipelineFails, Sign, CacheReport, MarkReady, LogSigned
<1>2. CASE CompletionStep
  BY <1>2, Zenon DEF CompletionStep, CheckIdempotent, Regenerate, SaveReport, SaveStatus, PublishReport,
    MarkCompleted, MarkUnsaved
<1>3. CASE FailureStep
  BY <1>3, Zenon DEF FailureStep, LookForReport, DegradeRow, DegradeMeta, ErrorRow, ErrorMeta, EscalateMeta, EscalateRow
<1>4. CASE Timeout \/ WorkerDies
  BY <1>4, Zenon DEF Timeout, WorkerDies
<1>5. CASE ApiStep
  BY <1>5, Zenon DEF ApiStep, TerminateTells, TerminateClears, TerminatePrunes, TerminateRecords,
    ResumeChecks, ResumeWrites, Restart, RecoveryReads, RecoveryWrites, RecoverySaves
<1>6. CASE UNCHANGED vars
  BY <1>6, Zenon DEF vars
<1>7. QED
  BY <1>1, <1>2, <1>3, <1>4, <1>5, <1>6 DEF Next, JobStep

(* The state is well typed for every bound: handler, termination, recovery *)
(* and stores only take the values their readers expect.                   *)
THEOREM TypeCorrect == Spec => []TypeOK
<1>1. Init => FlagsOK
  BY DEF Init, FlagsOK
<1>2. QED
  BY <1>1, PartsInit, PartsStep, FlagsStep, TypeParts, PTL DEF Spec

-----------------------------------------------------------------------------
(* Whatever a termination, a second failure report or a timeout writes,    *)
(* the status of a stored report stays "completed".                        *)
THEOREM StoredReportStays == Spec => StoredReportIsFinal
<1>1. [Next]_vars => (row = "completed" => row' = "completed")
  <2> SUFFICES ASSUME [Next]_vars, row = "completed" PROVE row' = "completed"
    OBVIOUS
  <2> USE DEF stores, SetRow
  <2>1. CASE PipelineStep
    BY <2>1 DEF PipelineStep, Start, MarkRunning, Advance, PipelineFails, Sign, CacheReport, MarkReady, LogSigned
  <2>2. CASE CompletionStep
    BY <2>2 DEF CompletionStep, CheckIdempotent, Regenerate, SaveReport, SaveStatus, PublishReport,
      MarkCompleted, MarkUnsaved
  <2>3. CASE FailureStep
    BY <2>3 DEF FailureStep, LookForReport, DegradeRow, DegradeMeta, ErrorRow, ErrorMeta, EscalateMeta, EscalateRow
  <2>4. CASE Timeout \/ WorkerDies
    BY <2>4 DEF Timeout, WorkerDies
  <2>5. CASE ApiStep
    BY <2>5 DEF ApiStep, TerminateTells, TerminateClears, TerminatePrunes, TerminateRecords,
      ResumeChecks, ResumeWrites, Restart, RecoveryReads, RecoveryWrites, RecoverySaves
  <2>6. CASE UNCHANGED vars
    BY <2>6 DEF vars
  <2>7. QED
    BY <2>1, <2>2, <2>3, <2>4, <2>5, <2>6 DEF Next, JobStep
<1>2. QED
  BY <1>1, PTL DEF Spec, StoredReportIsFinal

-----------------------------------------------------------------------------
(* The report cache is filled before the report is stored, announced or    *)
(* marked, or else a call has failed, two for a session that ends          *)
(* degraded; and nothing empties it.                                       *)
AfterCaching == {"readying", "logging", "completing", "regen", "storing", "stating", "publishing"}
CachedOnTheWay ==
  /\ job \in AfterCaching => rep = TRUE \/ faults > 0
  /\ job \in {"marking", "degradeRow", "degradeMeta"} => rep = TRUE
  /\ job = "degrading" => rep = TRUE \/ faults > 1

CachedWhenTold ==
  /\ "complete" \in told => rep = TRUE
  /\ "degraded" \in told => rep = TRUE \/ faults > 1

CachedWhenShown ==
  faults = 0 /\ (meta \in {"completed", "degraded", "report_ready"} \/ row = "completed") => rep = TRUE

CacheInv == CachedOnTheWay /\ CachedWhenTold /\ CachedWhenShown

LEMMA CacheStays == [Next]_vars /\ rep = TRUE => rep' = TRUE
<1> SUFFICES ASSUME [Next]_vars, rep = TRUE PROVE rep' = TRUE
  OBVIOUS
<1> USE DEF stores
<1>1. CASE PipelineStep
  BY <1>1, Zenon DEF PipelineStep, Start, MarkRunning, Advance, PipelineFails, Sign, CacheReport, MarkReady, LogSigned
<1>2. CASE CompletionStep
  BY <1>2, Zenon DEF CompletionStep, CheckIdempotent, Regenerate, SaveReport, SaveStatus, PublishReport,
    MarkCompleted, MarkUnsaved
<1>3. CASE FailureStep
  BY <1>3, Zenon DEF FailureStep, LookForReport, DegradeRow, DegradeMeta, ErrorRow, ErrorMeta, EscalateMeta, EscalateRow
<1>4. CASE Timeout \/ WorkerDies
  BY <1>4, Zenon DEF Timeout, WorkerDies
<1>5. CASE ApiStep
  BY <1>5, Zenon DEF ApiStep, TerminateTells, TerminateClears, TerminatePrunes, TerminateRecords,
    ResumeChecks, ResumeWrites, Restart, RecoveryReads, RecoveryWrites, RecoverySaves
<1>6. CASE UNCHANGED vars
  BY <1>6, Zenon DEF vars
<1>7. QED
  BY <1>1, <1>2, <1>3, <1>4, <1>5, <1>6 DEF Next, JobStep

LEMMA FaultsGrow == Parts /\ [Next]_vars => faults \in Nat /\ faults' \in Nat /\ faults <= faults'
<1> SUFFICES ASSUME Parts, [Next]_vars PROVE faults \in Nat /\ faults' \in Nat /\ faults <= faults'
  OBVIOUS
<1>0. faults \in Nat
  BY OutcomeAssumption DEF Parts, StoresOK, OutcomeAssumption
<1> SUFFICES faults' = faults \/ faults' = faults + 1
  BY <1>0
<1> USE DEF Fault, SetStatus, SetRow
<1>1. CASE PipelineStep
  BY <1>1 DEF PipelineStep, Start, MarkRunning, Advance, PipelineFails, Sign, CacheReport, MarkReady, LogSigned
<1>2. CASE CompletionStep
  BY <1>2 DEF CompletionStep, CheckIdempotent, Regenerate, SaveReport, SaveStatus, PublishReport,
    MarkCompleted, MarkUnsaved
<1>3. CASE FailureStep
  BY <1>3 DEF FailureStep, LookForReport, DegradeRow, DegradeMeta, ErrorRow, ErrorMeta, EscalateMeta, EscalateRow
<1>4. CASE Timeout \/ WorkerDies
  BY <1>4 DEF Timeout, WorkerDies
<1>5. CASE ApiStep
  BY <1>5 DEF ApiStep, TerminateTells, TerminateClears, TerminatePrunes, TerminateRecords,
    ResumeChecks, ResumeWrites, Restart, RecoveryReads, RecoveryWrites, RecoverySaves
<1>6. CASE UNCHANGED vars
  BY <1>6 DEF vars
<1>7. QED
  BY <1>1, <1>2, <1>3, <1>4, <1>5, <1>6 DEF Next, JobStep

LEMMA CacheInvStep == Parts /\ FlagsOK /\ CacheInv /\ [Next]_vars => CacheInv'
<1> SUFFICES ASSUME Parts, FlagsOK, CacheInv, [Next]_vars PROVE CacheInv'
  OBVIOUS
<1>0. /\ faults \in Nat /\ faults' \in Nat /\ faults <= faults'
      /\ rep = TRUE => rep' = TRUE
  BY FaultsGrow, CacheStays
<1>00. rep => rep = TRUE
  BY Zenon DEF FlagsOK
<1> USE <1>0 DEF CacheInv, CachedOnTheWay, CachedWhenTold, CachedWhenShown, AfterCaching, Go, stores, Fault, SetStatus, SetRow
<1>1. CASE PipelineStep
  <2>1. CASE Start \/ MarkRunning \/ PipelineFails \/ Sign
    BY <2>1 DEF Start, MarkRunning, PipelineFails, Sign
  <2>2. CASE Advance
    <3>1. \A k \in 1 .. 4 : PhaseStatus[k] \notin {"completed", "degraded", "report_ready"}
      BY DEF PhaseStatus
    <3>2. PICK later \in 1 .. 4 : SetStatus(PhaseStatus[later])
      BY <2>2, Members DEF Advance, Parts, WorkerOK
    <3>3. QED
      BY <2>2, <3>1, <3>2 DEF Advance
  <2>3. CASE CacheReport \/ MarkReady \/ LogSigned
    BY <2>3 DEF CacheReport, MarkReady, LogSigned
  <2>4. QED
    BY <1>1, <2>1, <2>2, <2>3 DEF PipelineStep
<1>2. CASE CompletionStep
  <2>1. CASE CheckIdempotent \/ Regenerate \/ SaveReport \/ SaveStatus
    BY <2>1 DEF CheckIdempotent, Regenerate, SaveReport, SaveStatus
  <2>2. CASE PublishReport \/ MarkCompleted \/ MarkUnsaved
    BY <2>2 DEF PublishReport, MarkCompleted, MarkUnsaved
  <2>3. QED
    BY <1>2, <2>1, <2>2 DEF CompletionStep
<1>3. CASE FailureStep
  <2>1. CASE LookForReport
    BY <1>00, <2>1 DEF LookForReport
  <2>2. CASE DegradeRow \/ ErrorRow \/ EscalateRow
    BY <2>2 DEF DegradeRow, ErrorRow, EscalateRow
  <2>3. CASE DegradeMeta \/ ErrorMeta \/ EscalateMeta
    BY <2>3 DEF DegradeMeta, ErrorMeta, EscalateMeta
  <2>4. QED
    BY <1>3, <2>1, <2>2, <2>3 DEF FailureStep
<1>4. CASE Timeout \/ WorkerDies
  BY <1>4 DEF Timeout, WorkerDies
<1>5. CASE ApiStep
  <2>1. CASE TerminateTells \/ TerminateClears \/ TerminatePrunes \/ TerminateRecords
    BY <2>1 DEF TerminateTells, TerminateClears, TerminatePrunes, TerminateRecords, worker
  <2>2. CASE ResumeChecks \/ ResumeWrites \/ Restart
    BY <2>2 DEF ResumeChecks, ResumeWrites, Restart, worker
  <2>3. CASE RecoveryReads \/ RecoveryWrites \/ RecoverySaves
    BY <2>3 DEF RecoveryReads, RecoveryWrites, RecoverySaves, worker
  <2>4. QED
    BY <1>5, <2>1, <2>2, <2>3 DEF ApiStep
<1>6. CASE UNCHANGED vars
  BY <1>6 DEF vars, worker
<1>7. QED
  BY <1>1, <1>2, <1>3, <1>4, <1>5, <1>6 DEF Next, JobStep

LEMMA CacheInvariant == Spec => [](Parts /\ FlagsOK /\ CacheInv)
<1>1. Init => Parts /\ FlagsOK /\ CacheInv
  <2>1. Init => FlagsOK
    BY Zenon DEF Init, FlagsOK
  <2>2. Init => CacheInv
    BY DEF Init, CacheInv, CachedOnTheWay, CachedWhenTold, CachedWhenShown, AfterCaching
  <2>3. QED
    BY <2>1, <2>2, PartsInit
<1>2. QED
  BY <1>1, PartsStep, FlagsStep, CacheInvStep, PTL DEF Spec

(* PIPELINE_COMPLETE is sent only of a report that is in the cache, and    *)
(* nothing takes it out again.                                             *)
THEOREM CompleteIsRetrievable == Spec => []AnnouncedIsRetrievable
<1>1. CacheInv => AnnouncedIsRetrievable
  BY DEF CacheInv, CachedWhenTold, AnnouncedIsRetrievable
<1>2. QED
  BY <1>1, CacheInvariant, PTL

(* It takes two failed calls for "degraded" to be told of a session        *)
(* without a report.                                                       *)
THEOREM DegradedTakesTwo == Spec => []DegradedHasReport
<1>1. Parts /\ CacheInv => DegradedHasReport
  <2>1. Parts => faults \in Nat
    BY OutcomeAssumption DEF Parts, StoresOK, OutcomeAssumption
  <2>2. QED
    BY <2>1 DEF CacheInv, CachedWhenTold, DegradedHasReport
<1>2. QED
  BY <1>1, CacheInvariant, PTL

(* As long as no call fails, a poll that answered "complete" goes on to    *)
(* answer it: what it saw implies a cached report.                         *)
THEOREM PollsAgree == Spec => PollNeverTakesBack
<1>1. Parts /\ FlagsOK /\ CacheInv /\ [Next]_vars => (faults' = 0 /\ PollComplete => PollComplete')
  <2> SUFFICES ASSUME Parts, FlagsOK, CacheInv, [Next]_vars, faults' = 0, PollComplete PROVE PollComplete'
    OBVIOUS
  <2>1. faults = 0
    BY FaultsGrow
  <2>2. rep => rep = TRUE
    BY Zenon DEF FlagsOK
  <2>3. rep = TRUE
    BY <2>1, <2>2 DEF PollComplete, CacheInv, CachedWhenShown
  <2>4. rep' = TRUE
    BY <2>3, CacheStays
  <2>5. QED
    BY <2>4 DEF PollComplete
<1>2. QED
  BY <1>1, CacheInvariant, PTL DEF Spec, PollNeverTakesBack

-----------------------------------------------------------------------------
(* A session that nobody touched but its own job.                          *)
BusyIsCounted == (rec # "idle" => restarts > 0) /\ (resume = TRUE => resumes > 0)
Alone == faults = 0 /\ term = "idle" /\ restarts = 0 /\ resumes = 0
EndIsMarked ==
  Alone =>
    /\ job = "escalateRow" => meta = "error"
    /\ job = "ended" => meta \in {"error", "completed", "degraded"}
EndInv == BusyIsCounted /\ EndIsMarked

LEMMA EndInvStep == Parts /\ FlagsOK /\ EndInv /\ [Next]_vars => EndInv'
<1> SUFFICES ASSUME Parts, FlagsOK, EndInv, [Next]_vars PROVE EndInv'
  OBVIOUS
<1>0. /\ faults \in Nat /\ faults' \in Nat /\ faults <= faults'
      /\ restarts \in Nat /\ resumes \in Nat
  BY FaultsGrow, OutcomeAssumption DEF Parts, ApiOK, OutcomeAssumption
<1>00. resume => resume = TRUE
  BY Zenon DEF FlagsOK
<1> USE <1>0 DEF EndInv, BusyIsCounted, Alone, EndIsMarked, Go, api, stores, Fault, SetStatus
<1>1. CASE PipelineStep
  BY <1>1 DEF PipelineStep, Start, MarkRunning, Advance, PipelineFails, Sign, CacheReport, MarkReady, LogSigned
<1>2. CASE CompletionStep
  <2>1. CASE CheckIdempotent \/ Regenerate \/ SaveReport \/ SaveStatus
    BY <2>1 DEF CheckIdempotent, Regenerate, SaveReport, SaveStatus
  <2>2. CASE PublishReport \/ MarkCompleted \/ MarkUnsaved
    BY <2>2 DEF PublishReport, MarkCompleted, MarkUnsaved
  <2>3. QED
    BY <1>2, <2>1, <2>2 DEF CompletionStep
<1>3. CASE FailureStep
  <2>1. CASE LookForReport \/ DegradeRow \/ ErrorRow \/ EscalateRow
    BY <2>1 DEF LookForReport, DegradeRow, ErrorRow, EscalateRow
  <2>2. CASE DegradeMeta \/ ErrorMeta \/ EscalateMeta
    BY <2>2 DEF DegradeMeta, ErrorMeta, EscalateMeta
  <2>3. QED
    BY <1>3, <2>1, <2>2 DEF FailureStep
<1>4. CASE Timeout \/ WorkerDies
  BY <1>4 DEF Timeout, WorkerDies, Handler
<1>5. CASE ApiStep
  <2>1. CASE TerminateTells \/ TerminateClears \/ TerminatePrunes \/ TerminateRecords
    BY <2>1 DEF TerminateTells, TerminateClears, TerminatePrunes, TerminateRecords, Terminate, worker
  <2>2. CASE ResumeChecks \/ ResumeWrites \/ Restart
    BY <1>00, <2>2 DEF ResumeChecks, ResumeWrites, Restart, worker
  <2>3. CASE RecoveryReads \/ RecoveryWrites \/ RecoverySaves
    BY <2>3 DEF RecoveryReads, RecoveryWrites, RecoverySaves, Recover, worker
  <2>4. QED
    BY <1>5, <2>1, <2>2, <2>3 DEF ApiStep
<1>6. CASE UNCHANGED vars
  BY <1>6 DEF vars, worker
<1>7. QED
  BY <1>1, <1>2, <1>3, <1>4, <1>5, <1>6 DEF Next, JobStep

(* A session whose job has ended looks over to a poll, whichever way it    *)
(* ended, unless a call failed or somebody else wrote its status.          *)
THEOREM EndIsSeen == Spec => []EndedIsVisible
<1>1. Init => EndInv
  BY DEF Init, EndInv, BusyIsCounted, EndIsMarked
<1>2. EndInv => EndedIsVisible
  <2> SUFFICES ASSUME EndInv, job = "ended", Alone PROVE PollComplete \/ PollError
    BY DEF EndedIsVisible, Alone
  <2>1. meta \in {"error", "completed", "degraded"}
    BY DEF EndInv, EndIsMarked
  <2>2. QED
    BY <2>1 DEF PollComplete, PollError
<1>3. QED
  BY <1>1, <1>2, EndInvStep, CacheInvariant, PTL DEF Spec

-----------------------------------------------------------------------------
(* The gates of a session *)

AtGate == {"marking", "taking", "waiting", "leaving"}

(* The type invariant in parts; the Booleans apart. *)
GateParts ==
  /\ mode \in {"worker", "inprocess"}
  /\ sessionStatus \in {"none", "running", "interrupted"} \cup {Paused(g) : g \in Gates} \cup Marks
  /\ key \in [Gates -> Choice \cup {"none"}]
  /\ channel \in Seq(Choice)
  /\ flag \in Choice
  /\ pl \in {"agents", "marking", "taking", "waiting", "leaving", "synthesis", "done"}
  /\ at \in 0 .. 2
  /\ deep \in Choice
  /\ via \in [Gates -> {"none", "analyst", "timeout"}]
  /\ req \in [Requests -> {"new", "writing", "publishing", "signalling", "marking", "noting"} \cup Answers]
  /\ wish \in [Requests -> Choice]
  /\ gate \in [Requests -> 0 .. 2]
  /\ ending \in {"no", "begun", "deleted"}
  /\ pl \in AtGate => at \in Gates
  /\ \A r \in Requests : req[r] \notin {"new"} \cup Answers => gate[r] \in Gates

GateFlags ==
  /\ event \in BOOLEAN /\ awaiting \in BOOLEAN /\ late \in BOOLEAN
  /\ unmarked \in BOOLEAN /\ orphan \in BOOLEAN
  /\ won \in [Requests -> BOOLEAN]
  /\ awaiting <=> pl \in AtGate

LEMMA GatePartsInit == GateInit => GateParts
BY DEF GateInit, GateParts, Gates, Choice, Paused, Marks, AtGate, Answers

(* What happens beside the gates leaves the gates and the requests alone,  *)
(* but that the run may end and a key may go.                              *)
LEMMA OutsideKeeps ==
  ASSUME GateParts, OutsideStep
  PROVE  /\ UNCHANGED <<mode, channel, flag, event, at, deep, via, late, unmarked, requests>>
         /\ pl' \in {pl, "done"}
         /\ key' \in [Gates -> Choice \cup {"none"}]
         /\ \A g \in Gates : key'[g] \in {key[g], "none"}
         /\ \/ sessionStatus' \in {sessionStatus, "interrupted"}
            \/ sessionStatus' = "none" /\ ending' = "deleted"
         /\ ending' \in {ending, "begun", "deleted"}
<1> USE DEF GateParts
<1>1. CASE FindOrphan \/ Interrupt
  BY <1>1 DEF FindOrphan, Interrupt, pipeline
<1>2. ASSUME CutShort
      PROVE  /\ UNCHANGED <<mode, sessionStatus, channel, flag, event, at, deep, via, late, unmarked, requests>>
             /\ pl' = "done"
             /\ key' \in [Gates -> Choice \cup {"none"}]
             /\ \A g \in Gates : key'[g] \in {key[g], "none"}
  BY <1>2 DEF CutShort, DropKey
<1>3. CASE RunCutShort
  BY <1>2, <1>3 DEF RunCutShort, outside
<1>4. CASE BeginTermination
  BY <1>2, <1>4 DEF BeginTermination, pipeline
<1>5. CASE DeleteSession
  BY <1>5 DEF DeleteSession, pipeline
<1>6. QED
  BY <1>1, <1>3, <1>4, <1>5 DEF OutsideStep

LEMMA GatePipelineParts == GateParts /\ GateStep => GateParts'
<1> SUFFICES ASSUME GateParts, GateStep PROVE GateParts'
  OBVIOUS
<1> USE DEF GateParts, Gates, Choice, Paused, Marks, AtGate, Moves, requests, outside, DropKey, Answers
<1>1. CASE \E g \in Gates : OpenGate(g)
  BY <1>1 DEF OpenGate
<1>2. CASE MarkPaused
  BY <1>2 DEF MarkPaused
<1>3. CASE TakeEarly
  BY <1>3 DEF TakeEarly, Beyond
<1>4. CASE TakeNothing
  BY <1>4 DEF TakeNothing
<1>5. CASE SeeEvent
  BY <1>5 DEF SeeEvent, LeaveGate
<1>6. CASE PollKey
  BY <1>6 DEF PollKey, LeaveGate
<1>7. CASE GateTimesOut
  BY <1>7 DEF GateTimesOut, LeaveGate
<1>8. CASE CleanGate
  BY <1>8 DEF CleanGate, Beyond
<1>9. CASE Synthesise
  BY <1>9 DEF Synthesise
<1>10. QED
  BY <1>1, <1>2, <1>3, <1>4, <1>5, <1>6, <1>7, <1>8, <1>9 DEF GateStep

LEMMA GateRequestParts ==
  ASSUME GateParts, NEW r \in Requests, RequestStep(r)
  PROVE  GateParts'
<1> USE DEF GateParts, Gates, Choice, Paused, Marks, AtGate, pipeline, outside, Reply, Answers
<1>1. CASE ReadStatus(r)
  BY <1>1 DEF ReadStatus
<1>2. CASE WriteKey(r)
  BY <1>2 DEF WriteKey
<1>3. CASE Notify(r)
  <2>1. channel' \in Seq(Choice)
    <3>1. channel' = Append(channel, wish[r]) \/ channel' = channel
      BY <1>3 DEF Notify
    <3>2. wish[r] \in Choice /\ channel \in Seq(Choice)
      OBVIOUS
    <3>3. QED
      BY <3>1, <3>2
  <2>2. UNCHANGED <<mode, sessionStatus, key, flag, pl, at, deep, via, wish, gate, ending>>
    BY <1>3 DEF Notify
  <2>3. /\ req[r] = "publishing"
        /\ \E s \in {"noting", "signalling"} : req' = [req EXCEPT ![r] = s]
    BY <1>3 DEF Notify
  <2>4. req' \in [Requests -> {"new", "writing", "publishing", "signalling", "marking", "noting"} \cup Answers]
    BY <2>3
  <2>5. \A q \in Requests : req'[q] \notin {"new"} \cup Answers => gate[q] \in Gates
    BY <2>3
  <2>6. QED
    BY <2>1, <2>2, <2>4, <2>5
<1>4. CASE Signal(r)
  BY <1>4 DEF Signal
<1>5. CASE MarkResumed(r)
  BY <1>5 DEF MarkResumed, Requested
<1>6. CASE CutOff(r)
  BY <1>6 DEF CutOff
<1>7. QED
  BY <1>1, <1>2, <1>3, <1>4, <1>5, <1>6 DEF RequestStep

LEMMA GatePartsStep == GateParts /\ [GateNext]_gateVars => GateParts'
<1> SUFFICES ASSUME GateParts, [GateNext]_gateVars PROVE GateParts'
  OBVIOUS
<1>1. CASE DeliverNotice
  BY <1>1 DEF DeliverNotice, GateParts, requests, outside
<1>2. CASE LoseMessage
  BY <1>2 DEF LoseMessage, GateParts, requests, pipeline, outside
<1>3. CASE UNCHANGED gateVars
  BY <1>3 DEF gateVars, GateParts, requests, pipeline, outside
<1>4. CASE OutsideStep
  BY <1>4, OutsideKeeps DEF GateParts, requests, AtGate
<1>5. QED
  BY <1>1, <1>2, <1>3, <1>4, GatePipelineParts, GateRequestParts DEF GateNext

LEMMA GateFlagsInit == GateInit => GateFlags
BY DEF GateInit, GateFlags, AtGate

LEMMA GateFlagsStep == GateFlags /\ [GateNext]_gateVars => GateFlags'
<1> SUFFICES ASSUME GateFlags, [GateNext]_gateVars PROVE GateFlags'
  OBVIOUS
<1> USE DEF GateFlags, AtGate, pipeline, requests, outside
<1>1. CASE \E g \in Gates : OpenGate(g)
  BY <1>1 DEF OpenGate, Moves
<1>2. CASE MarkPaused
  <2>1. unmarked' \in BOOLEAN
    BY <1>2 DEF MarkPaused
  <2>2. pl' = "taking" /\ pl = "marking" /\ UNCHANGED <<awaiting, event, late, won, orphan>>
    BY <1>2 DEF MarkPaused, Moves
  <2>3. QED
    BY <2>1, <2>2
<1>20. CASE TakeNothing \/ Synthesise
  BY <1>20 DEF TakeNothing, Synthesise, Moves
<1>3. CASE TakeEarly \/ CleanGate
  <2>1. pl' \in {"agents", "synthesis"} /\ awaiting' = FALSE
    BY <1>3 DEF TakeEarly, CleanGate, Beyond
  <2>2. UNCHANGED <<event, late, won, unmarked, orphan>>
    BY <1>3 DEF TakeEarly, CleanGate
  <2>3. QED
    BY <2>1, <2>2
<1>4. CASE SeeEvent \/ PollKey \/ GateTimesOut
  BY <1>4 DEF SeeEvent, PollKey, GateTimesOut, LeaveGate, Moves
<1>5. ASSUME NEW r \in Requests, RequestStep(r) PROVE GateFlags'
  <2>1. CASE WriteKey(r)
    BY <2>1 DEF WriteKey
  <2>2. CASE Signal(r)
    BY <2>2 DEF Signal
  <2>3. CASE ReadStatus(r) \/ Notify(r) \/ MarkResumed(r) \/ CutOff(r)
    BY <2>3 DEF ReadStatus, Notify, MarkResumed, CutOff
  <2>4. QED
    BY <1>5, <2>1, <2>2, <2>3 DEF RequestStep
<1>6. CASE DeliverNotice \/ LoseMessage
  <2>1. event' \in BOOLEAN
    BY <1>6 DEF DeliverNotice, LoseMessage
  <2>2. UNCHANGED <<awaiting, late, won, pl, unmarked, orphan>>
    BY <1>6 DEF DeliverNotice, LoseMessage
  <2>3. QED
    BY <2>1, <2>2
<1>7. CASE UNCHANGED gateVars
  BY <1>7 DEF gateVars
<1>8. CASE OutsideStep
  <2>1. CASE FindOrphan \/ Interrupt
    <3>1. orphan' \in BOOLEAN
      BY <2>1 DEF FindOrphan, Interrupt
    <3>2. UNCHANGED <<event, awaiting, late, won, pl, unmarked>>
      BY <2>1 DEF FindOrphan, Interrupt
    <3>3. QED
      BY <3>1, <3>2
  <2>2. CASE RunCutShort \/ BeginTermination \/ DeleteSession
    <3>1. event' = event /\ late' = late /\ won' = won /\ unmarked' = unmarked /\ orphan' = orphan
      BY <2>2 DEF RunCutShort, CutShort, BeginTermination, DeleteSession
    <3>2. \/ awaiting' = awaiting /\ pl' = pl
          \/ awaiting' = FALSE /\ pl' = "done"
      BY <2>2 DEF RunCutShort, CutShort, BeginTermination, DeleteSession
    <3>3. CASE awaiting' = awaiting /\ pl' = pl
      BY <3>1, <3>3
    <3>4. CASE awaiting' = FALSE /\ pl' = "done"
      <4>1. awaiting' \in BOOLEAN /\ (awaiting' <=> pl' \in AtGate)
        BY <3>4
      <4>2. QED
        BY <3>1, <4>1
    <3>5. QED
      BY <3>2, <3>3, <3>4
  <2>3. QED
    BY <1>8, <2>1, <2>2 DEF OutsideStep
<1>9. QED
  BY <1>1, <1>2, <1>20, <1>3, <1>4, <1>5, <1>6, <1>7, <1>8 DEF GateNext, GateStep

LEMMA GatePartsAreTypes == GateParts /\ GateFlags => GateTypeOK
BY DEF GateParts, GateFlags, GateTypeOK, AtGate

-----------------------------------------------------------------------------
(* A request has decided gate g for w. *)
Decided(g, w) == \E r \in Requests : won[r] /\ gate[r] = g /\ wish[r] = w

RequestsKnown ==
  \A r \in Requests :
    /\ req[r] = "new" => ~won[r] /\ gate[r] = 0
    /\ req[r] \in {"publishing", "signalling", "marking", "noting"} => won[r]

(* Only their own steps change the requests. *)
LEMMA OthersLeaveRequests ==
  ASSUME GateParts, GateStep \/ OutsideStep \/ DeliverNotice \/ LoseMessage \/ UNCHANGED gateVars
  PROVE  UNCHANGED requests
<1>1. CASE GateStep
  BY <1>1 DEF GateStep, OpenGate, MarkPaused, TakeEarly, TakeNothing, SeeEvent, PollKey, GateTimesOut,
              LeaveGate, CleanGate, Synthesise
<1>2. CASE OutsideStep
  BY <1>2, OutsideKeeps
<1>3. CASE DeliverNotice \/ LoseMessage \/ UNCHANGED gateVars
  BY <1>3 DEF DeliverNotice, LoseMessage, gateVars
<1>4. QED
  BY <1>1, <1>2, <1>3

(* And theirs change of the pipeline no more than flag and event.          *)
LEMMA RequestsLeavePipeline ==
  ASSUME NEW r \in Requests, RequestStep(r)
  PROVE  /\ UNCHANGED <<pl, at, deep, via, late, unmarked, orphan, ending>>
         /\ MarkResumed(r) \/ UNCHANGED sessionStatus
<1>1. CASE ReadStatus(r) \/ WriteKey(r) \/ Notify(r)
  BY <1>1 DEF ReadStatus, WriteKey, Notify, pipeline, outside
<1>2. CASE Signal(r) \/ MarkResumed(r) \/ CutOff(r)
  BY <1>2 DEF Signal, MarkResumed, CutOff, pipeline, outside
<1>3. QED
  BY <1>1, <1>2 DEF RequestStep

LEMMA RequestsKnownStep ==
  GateParts /\ GateFlags /\ RequestsKnown /\ [GateNext]_gateVars => RequestsKnown'
<1> SUFFICES ASSUME GateParts, GateFlags, RequestsKnown, [GateNext]_gateVars PROVE RequestsKnown'
  OBVIOUS
<1>1. ASSUME NEW r \in Requests, RequestStep(r) PROVE RequestsKnown'
  <2> USE DEF GateParts, GateFlags, RequestsKnown, Reply, Answers
  <2>1. CASE ReadStatus(r)
    BY <2>1 DEF ReadStatus
  <2>2. CASE WriteKey(r)
    BY <2>2 DEF WriteKey
  <2>3. CASE Notify(r)
    BY <2>3 DEF Notify
  <2>4. CASE Signal(r)
    BY <2>4 DEF Signal
  <2>5. CASE MarkResumed(r)
    BY <2>5 DEF MarkResumed
  <2>6. CASE CutOff(r)
    BY <2>6 DEF CutOff
  <2>7. QED
    BY <1>1, <2>1, <2>2, <2>3, <2>4, <2>5, <2>6 DEF RequestStep
<1>2. CASE UNCHANGED requests
  BY <1>2 DEF requests, RequestsKnown
<1>3. QED
  BY <1>1, <1>2, OthersLeaveRequests DEF GateNext

(* What was decided stays decided. *)
LEMMA DecisionsStay ==
  ASSUME GateParts, GateFlags, RequestsKnown, [GateNext]_gateVars, NEW r \in Requests, won[r]
  PROVE  won'[r] /\ gate'[r] = gate[r] /\ wish'[r] = wish[r]
<1>1. req[r] # "new"
  BY DEF RequestsKnown
<1>2. ASSUME NEW q \in Requests, RequestStep(q)
      PROVE  won'[r] /\ gate'[r] = gate[r] /\ wish'[r] = wish[r]
  <2> USE DEF Reply, GateParts, GateFlags
  <2>1. CASE ReadStatus(q)
    BY <1>1, <2>1 DEF ReadStatus
  <2>2. CASE WriteKey(q)
    BY <2>2 DEF WriteKey
  <2>3. CASE Notify(q) \/ Signal(q) \/ MarkResumed(q) \/ CutOff(q)
    BY <2>3 DEF Notify, Signal, MarkResumed, CutOff
  <2>4. QED
    BY <1>2, <2>1, <2>2, <2>3 DEF RequestStep
<1>3. CASE UNCHANGED requests
  BY <1>3 DEF requests
<1>4. QED
  BY <1>2, <1>3, OthersLeaveRequests DEF GateNext

-----------------------------------------------------------------------------
(* Why gate 1 is left *)

KeyExplained == \A g \in Gates : key[g] # "none" => Decided(g, key[g])

(* A message names no gate; before the second gate there is only one.      *)
MessagesExplained == \A i \in DOMAIN channel : \E g \in Gates : Decided(g, channel[i])
FirstGateOnly == at < 2 => sessionStatus # Paused(2) /\ \A r \in Requests : gate[r] # 2

EventExplained == at < 2 /\ event => Decided(1, flag)

GateOneInv ==
  /\ GateParts /\ GateFlags /\ RequestsKnown
  /\ KeyExplained /\ MessagesExplained /\ FirstGateOnly /\ EventExplained
  /\ GateOneExplained

LEMMA KeyStep ==
  ASSUME GateParts, GateFlags, RequestsKnown, KeyExplained, [GateNext]_gateVars
  PROVE  KeyExplained'
<1> SUFFICES ASSUME NEW g \in Gates, key'[g] # "none" PROVE Decided(g, key[g])'
  BY DEF KeyExplained
<1>1. CASE key'[g] = key[g]
  <2>1. PICK r \in Requests : won[r] /\ gate[r] = g /\ wish[r] = key[g]
    BY <1>1 DEF KeyExplained, Decided
  <2>2. QED
    BY <1>1, <2>1, DecisionsStay DEF Decided
<1>2. CASE key'[g] # key[g]
  <2>1. PICK r \in Requests : WriteKey(r)
    <3>1. ASSUME OpenGate(1) \/ OpenGate(2) \/ TakeEarly \/ TakeNothing \/ CleanGate PROVE FALSE
      BY <1>2, <3>1 DEF OpenGate, TakeEarly, TakeNothing, CleanGate, DropKey, GateParts, Gates
    <3>2. ASSUME MarkPaused \/ SeeEvent \/ PollKey \/ GateTimesOut \/ Synthesise PROVE FALSE
      BY <1>2, <3>2 DEF MarkPaused, SeeEvent, PollKey, GateTimesOut, LeaveGate, Synthesise
    <3>3. ASSUME NEW r \in Requests, ReadStatus(r) \/ Notify(r) \/ Signal(r) \/ MarkResumed(r) \/ CutOff(r)
          PROVE  FALSE
      BY <1>2, <3>3 DEF ReadStatus, Notify, Signal, MarkResumed, CutOff
    <3>4. ASSUME DeliverNotice \/ LoseMessage \/ UNCHANGED gateVars PROVE FALSE
      BY <1>2, <3>4 DEF DeliverNotice, LoseMessage, gateVars
    <3>5. ASSUME OutsideStep PROVE FALSE
      BY <1>2, <3>5, OutsideKeeps
    <3>6. QED
      BY <3>1, <3>2, <3>3, <3>4, <3>5 DEF GateNext, GateStep, RequestStep, Gates
  <2>2. won'[r] /\ gate'[r] = g /\ wish'[r] = key'[g]
    BY <1>2, <2>1 DEF WriteKey, GateParts, GateFlags, Gates
  <2>3. QED
    BY <2>2 DEF Decided
<1>3. QED
  BY <1>1, <1>2

LEMMA MessagesStep ==
  ASSUME GateParts, GateFlags, RequestsKnown, MessagesExplained, [GateNext]_gateVars
  PROVE  MessagesExplained'
<1>1. ASSUME NEW i \in DOMAIN channel
      PROVE  \E r \in Requests : won'[r] /\ gate'[r] \in Gates /\ wish'[r] = channel[i]
  <2>1. PICK r \in Requests : won[r] /\ gate[r] \in Gates /\ wish[r] = channel[i]
    BY <1>1 DEF MessagesExplained, Decided
  <2>2. QED
    BY <2>1, DecisionsStay
<1>2. CASE UNCHANGED channel
  BY <1>1, <1>2 DEF MessagesExplained, Decided
<1>3. CASE channel # <<>> /\ channel' = Tail(channel)
  <2> SUFFICES ASSUME NEW i \in DOMAIN channel' PROVE \E g \in Gates : Decided(g, channel[i])'
    BY DEF MessagesExplained
  <2>1. i + 1 \in DOMAIN channel /\ channel'[i] = channel[i + 1]
    BY <1>3 DEF GateParts
  <2>2. QED
    BY <1>1, <2>1 DEF Decided
<1>4. ASSUME NEW r \in Requests, Notify(r) PROVE MessagesExplained'
  <2> SUFFICES ASSUME NEW i \in DOMAIN channel' PROVE \E g \in Gates : Decided(g, channel[i])'
    BY DEF MessagesExplained
  <2>1. wish[r] \in Choice /\ channel \in Seq(Choice)
    BY DEF GateParts
  <2>2. channel' = Append(channel, wish[r]) \/ channel' = channel
    BY <1>4 DEF Notify
  <2>3. (i \in DOMAIN channel /\ channel'[i] = channel[i]) \/ channel'[i] = wish[r]
    BY <2>1, <2>2
  <2>4. req[r] = "publishing"
    BY <1>4 DEF Notify, Reply
  <2>5. won[r] /\ gate[r] \in Gates
    BY <2>4 DEF RequestsKnown, GateParts, Answers
  <2>6. QED
    BY <1>1, <2>3, <2>5, DecisionsStay DEF Decided
<1>5. CASE GateStep
  BY <1>2, <1>5 DEF GateStep, OpenGate, MarkPaused, TakeEarly, TakeNothing, SeeEvent, PollKey,
                    GateTimesOut, LeaveGate, CleanGate, Synthesise
<1>6. ASSUME NEW r \in Requests,
             ReadStatus(r) \/ WriteKey(r) \/ Signal(r) \/ MarkResumed(r) \/ CutOff(r)
      PROVE  MessagesExplained'
  BY <1>2, <1>6 DEF ReadStatus, WriteKey, Signal, MarkResumed, CutOff
<1>7. CASE DeliverNotice \/ LoseMessage
  BY <1>3, <1>7 DEF DeliverNotice, LoseMessage
<1>8. CASE OutsideStep
  BY <1>2, <1>8, OutsideKeeps
<1>9. QED
  BY <1>2, <1>4, <1>5, <1>6, <1>7, <1>8 DEF GateNext, RequestStep, gateVars

LEMMA FirstGateStep ==
  ASSUME GateParts, FirstGateOnly, [GateNext]_gateVars
  PROVE  FirstGateOnly'
<1> USE DEF FirstGateOnly, GateParts, Gates, Paused, requests, pipeline
<1>1. CASE \E g \in Gates : OpenGate(g)
  BY <1>1 DEF OpenGate
<1>2. CASE MarkPaused
  BY <1>2 DEF MarkPaused, Moves, AtGate
<1>3. CASE Synthesise
  BY <1>3 DEF Synthesise
<1>4. CASE TakeEarly \/ TakeNothing \/ SeeEvent \/ PollKey \/ GateTimesOut \/ CleanGate
  BY <1>4 DEF TakeEarly, TakeNothing, SeeEvent, PollKey, GateTimesOut, LeaveGate, CleanGate
<1>5. ASSUME NEW r \in Requests, RequestStep(r) PROVE FirstGateOnly'
  <2>1. CASE ReadStatus(r)
    BY <2>1 DEF ReadStatus
  <2>2. CASE MarkResumed(r)
    BY <2>2 DEF MarkResumed, Requested
  <2>3. CASE WriteKey(r) \/ Notify(r) \/ Signal(r) \/ CutOff(r)
    BY <2>3 DEF WriteKey, Notify, Signal, CutOff
  <2>4. QED
    BY <1>5, <2>1, <2>2, <2>3 DEF RequestStep
<1>6. CASE DeliverNotice \/ LoseMessage
  BY <1>6 DEF DeliverNotice, LoseMessage
<1>7. CASE UNCHANGED gateVars
  BY <1>7 DEF gateVars
<1>8. CASE OutsideStep
  BY <1>8, OutsideKeeps
<1>9. QED
  BY <1>1, <1>2, <1>3, <1>4, <1>5, <1>6, <1>7, <1>8 DEF GateNext, GateStep

(* Whoever is told of the event before the second gate hears a decision    *)
(* of the first.                                                           *)
LEMMA EventStep ==
  ASSUME GateParts, GateFlags, RequestsKnown, KeyExplained, MessagesExplained, FirstGateOnly,
         EventExplained, [GateNext]_gateVars
  PROVE  EventExplained'
<1> SUFFICES ASSUME at' < 2, event' PROVE Decided(1, flag)'
  BY DEF EventExplained
<1> DEFINE Lasts == \A w \in Choice :
                      Decided(1, w) => \E r \in Requests : won'[r] /\ gate'[r] = 1 /\ wish'[r] = w
<1>0. Lasts
  BY DecisionsStay DEF Decided
<1>1. at < 2
  <2>1. CASE \E g \in Gates : OpenGate(g)
    BY <2>1 DEF OpenGate
  <2>2. CASE ~\E g \in Gates : OpenGate(g)
    <3>1. CASE GateStep \/ DeliverNotice \/ LoseMessage \/ UNCHANGED gateVars
      BY <2>2, <3>1 DEF GateStep, MarkPaused, TakeEarly, TakeNothing, SeeEvent, PollKey, GateTimesOut,
                        LeaveGate, CleanGate, Synthesise, DeliverNotice, LoseMessage, pipeline, gateVars
    <3>2. QED
      BY <3>1, OutsideKeeps, RequestsLeavePipeline DEF GateNext
  <2>3. QED
    BY <2>1, <2>2
<1>2. CASE UNCHANGED <<event, flag>>
  BY <1>0, <1>1, <1>2 DEF EventExplained, Decided, GateParts
<1>3. CASE \E g \in Gates : OpenGate(g)
  BY <1>3 DEF OpenGate
<1>4. CASE TakeEarly \/ PollKey
  <2>1. event /\ at \in Gates
    BY <1>4 DEF TakeEarly, PollKey, LeaveGate, Moves, GateParts, AtGate
  <2>2. at = 1 /\ key[1] # "none" /\ flag' = key[1]
    BY <1>1, <1>4, <2>1 DEF TakeEarly, PollKey, Gates
  <2>3. key[1] \in Choice /\ Decided(1, key[1])
    BY <2>2 DEF KeyExplained, Gates, GateParts
  <2>4. QED
    BY <1>0, <2>2, <2>3 DEF Decided
<1>5. CASE MarkPaused \/ TakeNothing \/ SeeEvent \/ GateTimesOut \/ CleanGate \/ Synthesise
  BY <1>2, <1>5 DEF MarkPaused, TakeNothing, SeeEvent, GateTimesOut, LeaveGate, CleanGate, Synthesise
<1>6. ASSUME NEW r \in Requests, Signal(r) PROVE Decided(1, flag)'
  <2>1. CASE UNCHANGED <<event, flag>>
    BY <1>2, <2>1
  <2>2. CASE flag' = wish[r] /\ req[r] = "signalling"
    <3>1. won[r] /\ gate[r] = 1
      BY <1>1, <2>2 DEF RequestsKnown, GateParts, Answers, FirstGateOnly, Gates
    <3>2. QED
      BY <2>2, <3>1, DecisionsStay DEF Decided
  <2>3. QED
    BY <1>6, <2>1, <2>2 DEF Signal, Reply
<1>7. ASSUME NEW r \in Requests,
             ReadStatus(r) \/ WriteKey(r) \/ Notify(r) \/ MarkResumed(r) \/ CutOff(r)
      PROVE  Decided(1, flag)'
  BY <1>2, <1>7 DEF ReadStatus, WriteKey, Notify, MarkResumed, CutOff, pipeline
<1>8. CASE DeliverNotice
  <2>1. 1 \in DOMAIN channel /\ flag' = channel[1] /\ channel[1] \in Choice
    BY <1>8 DEF DeliverNotice, GateParts
  <2>2. PICK g \in Gates : Decided(g, channel[1])
    BY <2>1 DEF MessagesExplained
  <2>3. g = 1
    BY <1>1, <2>2 DEF FirstGateOnly, Decided, Gates
  <2>4. QED
    BY <1>0, <2>1, <2>2, <2>3 DEF Decided
<1>9. CASE LoseMessage \/ UNCHANGED gateVars
  BY <1>2, <1>9 DEF LoseMessage, gateVars, pipeline
<1>10. CASE OutsideStep
  BY <1>2, <1>10, OutsideKeeps
<1>11. QED
  BY <1>3, <1>4, <1>5, <1>6, <1>7, <1>8, <1>9, <1>10 DEF GateNext, GateStep, RequestStep

LEMMA GateOneStep ==
  ASSUME GateOneInv, [GateNext]_gateVars
  PROVE  GateOneExplained'
<1> USE DEF GateOneInv
<1> SUFFICES ASSUME via'[1] = "analyst"
             PROVE  \E r \in Requests : won'[r] /\ gate'[r] = 1 /\ wish'[r] = deep'
  BY DEF GateOneExplained
<1> DEFINE Lasts == \A w \in Choice :
                      Decided(1, w) => \E r \in Requests : won'[r] /\ gate'[r] = 1 /\ wish'[r] = w
<1>0. Lasts
  BY DecisionsStay DEF Decided
<1>1. CASE via[1] = via'[1] /\ deep' = deep
  BY <1>0, <1>1 DEF GateOneExplained, Decided, GateParts
<1>2. CASE TakeEarly
  <2>1. CASE at = 1
    BY <1>0, <1>2, <2>1 DEF TakeEarly, KeyExplained, Gates, GateParts
  <2>2. CASE at # 1
    BY <1>1, <1>2, <2>2 DEF TakeEarly, GateParts
  <2>3. QED
    BY <2>1, <2>2
<1>3. CASE SeeEvent
  <2>1. CASE at = 1
    <3>1. Decided(1, flag) /\ flag \in Choice /\ deep' = flag
      BY <1>3, <2>1 DEF SeeEvent, LeaveGate, EventExplained, GateParts
    <3>2. QED
      BY <1>0, <3>1
  <2>2. CASE at # 1
    BY <1>1, <1>3, <2>2 DEF SeeEvent, LeaveGate, GateParts
  <2>3. QED
    BY <2>1, <2>2
<1>4. CASE PollKey
  <2>1. CASE at = 1
    BY <1>0, <1>4, <2>1 DEF PollKey, LeaveGate, KeyExplained, Gates, GateParts
  <2>2. CASE at # 1
    BY <1>1, <1>4, <2>2 DEF PollKey, LeaveGate, GateParts
  <2>3. QED
    BY <2>1, <2>2
<1>5. CASE GateTimesOut
  <2>1. CASE at = 1
    BY <1>5, <2>1 DEF GateTimesOut, LeaveGate, GateParts, Gates
  <2>2. CASE at # 1
    BY <1>1, <1>5, <2>2 DEF GateTimesOut, LeaveGate, GateParts
  <2>3. QED
    BY <2>1, <2>2
<1>6. CASE (\E g \in Gates : OpenGate(g)) \/ MarkPaused \/ TakeNothing \/ CleanGate \/ Synthesise
  BY <1>1, <1>6 DEF OpenGate, MarkPaused, TakeNothing, CleanGate, Synthesise
<1>7. ASSUME NEW r \in Requests, RequestStep(r)
      PROVE  via[1] = via'[1] /\ deep' = deep
  BY <1>7, RequestsLeavePipeline
<1>8. CASE DeliverNotice \/ LoseMessage \/ UNCHANGED gateVars
  BY <1>1, <1>8 DEF DeliverNotice, LoseMessage, gateVars, pipeline
<1>9. CASE OutsideStep
  BY <1>1, <1>9, OutsideKeeps
<1>10. QED
  BY <1>1, <1>2, <1>3, <1>4, <1>5, <1>6, <1>7, <1>8, <1>9 DEF GateNext, GateStep

LEMMA GateOneInvStep == GateOneInv /\ [GateNext]_gateVars => GateOneInv'
BY GatePartsStep, GateFlagsStep, RequestsKnownStep, KeyStep, MessagesStep, FirstGateStep, EventStep,
   GateOneStep DEF GateOneInv

LEMMA GateOneInit == GateInit => GateOneInv
<1> SUFFICES ASSUME GateInit PROVE GateOneInv
  OBVIOUS
<1>1. GateParts /\ GateFlags
  BY GatePartsInit, GateFlagsInit
<1>2. RequestsKnown
  BY DEF GateInit, RequestsKnown
<1>3. KeyExplained /\ MessagesExplained /\ FirstGateOnly /\ EventExplained /\ GateOneExplained
  BY DEF GateInit, KeyExplained, MessagesExplained, FirstGateOnly, EventExplained, GateOneExplained,
         Paused, Gates
<1>4. QED
  BY <1>1, <1>2, <1>3 DEF GateOneInv

-----------------------------------------------------------------------------
(* Why gate 2 is left, and what a waiting gate shows *)

(* Where nothing of the first gate was left when the second opened, there  *)
(* never will be again.                                                    *)
SecondClean ==
  at = 2 /\ ~late =>
    /\ sessionStatus # Paused(1)
    /\ \A r \in Requests : gate[r] = 1 => req[r] \in Answers
    /\ channel # <<>> \/ event => Winner(2)
SecondAhead == at < 2 => via[2] = "none"

GateTwoInv ==
  /\ GateParts /\ GateFlags /\ RequestsKnown /\ KeyExplained
  /\ SecondClean /\ SecondAhead /\ GateTwoConfirmed

LEMMA WinnersStay ==
  ASSUME GateParts, GateFlags, RequestsKnown, [GateNext]_gateVars
  PROVE  \A g \in 0 .. 2 : Winner(g) => Winner(g)'
BY DecisionsStay DEF Winner

LEMMA SecondCleanStep ==
  ASSUME GateParts, GateFlags, RequestsKnown, SecondClean, [GateNext]_gateVars
  PROVE  SecondClean'
<1> SUFFICES ASSUME at' = 2, ~late'
             PROVE  /\ sessionStatus' # Paused(1)
                    /\ \A r \in Requests : gate'[r] = 1 => req'[r] \in Answers
                    /\ channel' # <<>> \/ event' => Winner(2)'
  BY DEF SecondClean, Paused
<1> USE DEF GateParts, Paused
<1>0. Winner(2) => Winner(2)'
  BY WinnersStay
<1>1. CASE \E g \in Gates : OpenGate(g)
  BY <1>1 DEF OpenGate, GateOneLingers, requests, Gates
<1> DEFINE Clean == /\ at = 2 /\ ~late
                    /\ sessionStatus # "awaiting_decision"
                    /\ \A r \in Requests : gate[r] = 1 => req[r] \in Answers
                    /\ channel # <<>> \/ event => Winner(2)
<1>2. CASE MarkPaused
  <2>1. Clean
    BY <1>2 DEF MarkPaused, SecondClean
  <2>2. QED
    BY <1>0, <1>2, <2>1 DEF MarkPaused, requests
<1>3. CASE Synthesise
  <2>1. Clean
    BY <1>3 DEF Synthesise, SecondClean
  <2>2. QED
    BY <1>0, <1>3, <2>1 DEF Synthesise, requests
<1>4. CASE TakeEarly \/ TakeNothing \/ SeeEvent \/ PollKey \/ GateTimesOut \/ CleanGate
  <2>1. UNCHANGED <<sessionStatus, channel, event, at, late, requests>>
    BY <1>4 DEF TakeEarly, TakeNothing, SeeEvent, PollKey, GateTimesOut, LeaveGate, CleanGate
  <2>2. Clean
    BY <2>1 DEF SecondClean
  <2>3. QED
    BY <1>0, <2>1, <2>2 DEF requests
<1>5. ASSUME NEW r \in Requests, RequestStep(r)
      PROVE  /\ sessionStatus' # Paused(1)
             /\ \A q \in Requests : gate'[q] = 1 => req'[q] \in Answers
             /\ channel' # <<>> \/ event' => Winner(2)'
  <2>1. UNCHANGED <<at, late>>
    BY <1>5, RequestsLeavePipeline
  <2>2. Clean
    BY <2>1 DEF SecondClean
  <2>3. won[r] /\ gate[r] \in Gates /\ gate[r] # 1 => Winner(2)
    BY DEF Winner, Gates
  <2>4. CASE ReadStatus(r)
    BY <1>0, <2>2, <2>4 DEF ReadStatus, Reply, pipeline, Answers
  <2>5. CASE WriteKey(r)
    BY <1>0, <2>2, <2>5 DEF WriteKey, Reply, pipeline, Answers
  <2>6. CASE Notify(r)
    <3>1. req[r] = "publishing"
      BY <2>6 DEF Notify, Reply
    <3>2. Winner(2)
      BY <2>2, <2>3, <3>1 DEF RequestsKnown, Answers
    <3>3. QED
      BY <1>0, <2>2, <2>6, <3>1, <3>2 DEF Notify, Reply, pipeline, Answers
  <2>7. CASE Signal(r)
    <3>1. req[r] = "signalling"
      BY <2>7 DEF Signal, Reply
    <3>2. Winner(2)
      BY <2>2, <2>3, <3>1 DEF RequestsKnown, Answers
    <3>3. QED
      BY <1>0, <2>2, <2>7, <3>1, <3>2 DEF Signal, Reply, Answers
  <2>8. CASE MarkResumed(r)
    BY <1>0, <2>2, <2>8 DEF MarkResumed, Reply, Requested, pipeline, Answers
  <2>9. CASE CutOff(r)
    BY <1>0, <2>2, <2>9 DEF CutOff, pipeline, Answers
  <2>10. QED
    BY <1>5, <2>4, <2>5, <2>6, <2>7, <2>8, <2>9 DEF RequestStep
<1>6. CASE DeliverNotice \/ LoseMessage
  <2>1. UNCHANGED <<sessionStatus, at, late, requests>> /\ channel # <<>>
    BY <1>6 DEF DeliverNotice, LoseMessage, pipeline
  <2>2. Clean
    BY <2>1 DEF SecondClean
  <2>3. QED
    BY <1>0, <2>1, <2>2 DEF requests
<1>7. CASE UNCHANGED gateVars
  <2>1. UNCHANGED <<sessionStatus, channel, event, at, late, requests>>
    BY <1>7 DEF gateVars, pipeline
  <2>2. Clean
    BY <2>1 DEF SecondClean
  <2>3. QED
    BY <1>0, <2>1, <2>2 DEF requests
<1>8. CASE OutsideStep
  <2>1. UNCHANGED <<channel, event, at, late, requests>> /\ sessionStatus' \in {sessionStatus, "interrupted", "none"}
    BY <1>8, OutsideKeeps
  <2>2. Clean
    BY <2>1 DEF SecondClean
  <2>3. QED
    BY <1>0, <2>1, <2>2 DEF requests
<1>9. QED
  BY <1>1, <1>2, <1>3, <1>4, <1>5, <1>6, <1>7, <1>8 DEF GateNext, GateStep

LEMMA GateTwoStep ==
  ASSUME GateTwoInv, [GateNext]_gateVars
  PROVE  GateTwoConfirmed'
<1> USE DEF GateTwoInv
<1> SUFFICES ASSUME via'[2] = "analyst", ~late' PROVE Winner(2)'
  BY DEF GateTwoConfirmed
<1>0. Winner(2) => Winner(2)'
  BY WinnersStay
<1>1. CASE via[2] = via'[2] /\ late' = late
  BY <1>0, <1>1 DEF GateTwoConfirmed
<1>2. CASE \E g \in Gates : OpenGate(g)
  <2>1. at < 2 /\ via'[2] = via[2]
    BY <1>2 DEF OpenGate, Gates, GateParts
  <2>2. QED
    BY <2>1 DEF SecondAhead
<1>3. CASE TakeEarly \/ PollKey
  <2>1. CASE at = 2
    <3>1. key[2] # "none"
      BY <1>3, <2>1 DEF TakeEarly, PollKey
    <3>2. Winner(2)
      BY <3>1 DEF KeyExplained, Decided, Winner, Gates
    <3>3. QED
      BY <1>0, <3>2
  <2>2. CASE at # 2
    BY <1>1, <1>3, <2>2 DEF TakeEarly, PollKey, LeaveGate, GateParts, Gates
  <2>3. QED
    BY <2>1, <2>2
<1>4. CASE SeeEvent \/ GateTimesOut
  <2>1. late' = late
    BY <1>4 DEF SeeEvent, GateTimesOut, LeaveGate
  <2>2. CASE at = 2 /\ SeeEvent
    <3>1. Winner(2)
      BY <2>1, <2>2 DEF SeeEvent, SecondClean
    <3>2. QED
      BY <1>0, <3>1
  <2>3. CASE at = 2 /\ GateTimesOut
    BY <2>3 DEF GateTimesOut, LeaveGate, GateParts, Gates
  <2>4. CASE at # 2
    BY <1>1, <1>4, <2>1, <2>4 DEF SeeEvent, GateTimesOut, LeaveGate, GateParts, Gates
  <2>5. QED
    BY <1>4, <2>2, <2>3, <2>4
<1>5. CASE MarkPaused \/ TakeNothing \/ CleanGate \/ Synthesise
  BY <1>1, <1>5 DEF MarkPaused, TakeNothing, CleanGate, Synthesise
<1>6. ASSUME NEW r \in Requests, RequestStep(r)
      PROVE  via[2] = via'[2] /\ late' = late
  BY <1>6, RequestsLeavePipeline
<1>7. CASE DeliverNotice \/ LoseMessage \/ UNCHANGED gateVars
  BY <1>1, <1>7 DEF DeliverNotice, LoseMessage, gateVars, pipeline
<1>8. CASE OutsideStep
  BY <1>1, <1>8, OutsideKeeps
<1>9. QED
  BY <1>1, <1>2, <1>3, <1>4, <1>5, <1>6, <1>7, <1>8 DEF GateNext, GateStep

LEMMA SecondAheadStep ==
  ASSUME GateParts, SecondAhead, [GateNext]_gateVars
  PROVE  SecondAhead'
<1> USE DEF GateParts, SecondAhead, Gates
<1>1. CASE \E g \in Gates : OpenGate(g)
  BY <1>1 DEF OpenGate
<1>2. CASE TakeEarly \/ SeeEvent \/ PollKey \/ GateTimesOut
  BY <1>2 DEF TakeEarly, SeeEvent, PollKey, GateTimesOut, LeaveGate, Moves, AtGate
<1>3. CASE MarkPaused \/ TakeNothing \/ CleanGate \/ Synthesise
  BY <1>3 DEF MarkPaused, TakeNothing, CleanGate, Synthesise
<1>4. ASSUME NEW r \in Requests, RequestStep(r) PROVE SecondAhead'
  BY <1>4, RequestsLeavePipeline
<1>5. CASE DeliverNotice \/ LoseMessage \/ UNCHANGED gateVars
  BY <1>5 DEF DeliverNotice, LoseMessage, gateVars, pipeline
<1>6. CASE OutsideStep
  BY <1>6, OutsideKeeps
<1>7. QED
  BY <1>1, <1>2, <1>3, <1>4, <1>5, <1>6 DEF GateNext, GateStep

LEMMA GateTwoInvStep == GateTwoInv /\ [GateNext]_gateVars => GateTwoInv'
BY GatePartsStep, GateFlagsStep, RequestsKnownStep, KeyStep, SecondCleanStep, SecondAheadStep,
   GateTwoStep DEF GateTwoInv

LEMMA GateTwoInit == GateInit => GateTwoInv
<1> SUFFICES ASSUME GateInit PROVE GateTwoInv
  OBVIOUS
<1>1. GateParts /\ GateFlags
  BY GatePartsInit, GateFlagsInit
<1>2. RequestsKnown /\ KeyExplained
  BY DEF GateInit, RequestsKnown, KeyExplained
<1>3. SecondClean /\ SecondAhead /\ GateTwoConfirmed
  BY DEF GateInit, SecondClean, SecondAhead, GateTwoConfirmed, Gates
<1>4. QED
  BY <1>1, <1>2, <1>3 DEF GateTwoInv

(* Only a request that has won its gate, a recovery or a termination       *)
(* changes the status under a gate that has declared its pause.            *)
Shown ==
  \/ sessionStatus = Paused(at)
  \/ sessionStatus = "interrupted"
  \/ sessionStatus = "none" /\ ending = "deleted"
PauseIsShown ==
  pl \in {"taking", "waiting"} /\ ~Winner(at) /\ ~late /\ ~unmarked => Shown
WaitingInv ==
  /\ GateParts /\ GateFlags /\ RequestsKnown /\ FirstGateOnly /\ SecondClean
  /\ PauseIsShown

LEMMA PauseStep ==
  ASSUME WaitingInv, [GateNext]_gateVars
  PROVE  PauseIsShown'
<1> USE DEF WaitingInv
<1> SUFFICES ASSUME pl' \in {"taking", "waiting"}, ~Winner(at)', ~late', ~unmarked'
             PROVE  Shown'
  BY DEF PauseIsShown
<1>1. CASE MarkPaused
  BY <1>1 DEF MarkPaused, Shown
<1>2. CASE ~MarkPaused
  <2> DEFINE Overwrites == sessionStatus' = "interrupted" \/ (sessionStatus' = "none" /\ ending' = "deleted")
             Goes == sessionStatus' = sessionStatus /\ ending' \in {ending, "begun", "deleted"}
  <2>1. /\ pl \in {"taking", "waiting"} /\ UNCHANGED <<at, late, unmarked>>
        /\ Goes \/ Overwrites \/ \E r \in Requests : MarkResumed(r)
        /\ ending = "deleted" => ending' = "deleted"
    <3>1. CASE GateStep
      BY <1>2, <3>1 DEF GateStep, OpenGate, TakeEarly, TakeNothing, SeeEvent, PollKey, GateTimesOut,
                        LeaveGate, CleanGate, Synthesise, Moves, Beyond, outside
    <3>2. ASSUME NEW r \in Requests, RequestStep(r)
          PROVE  UNCHANGED <<pl, at, late, unmarked, ending>> /\ (sessionStatus' = sessionStatus \/ MarkResumed(r))
      BY <3>2, RequestsLeavePipeline
    <3>3. CASE DeliverNotice \/ LoseMessage \/ UNCHANGED gateVars
      BY <3>3 DEF DeliverNotice, LoseMessage, gateVars, pipeline, outside
    <3>4. CASE OutsideStep
      <4>1. ending = "deleted" => ending' = "deleted"
        BY <3>4 DEF OutsideStep, FindOrphan, Interrupt, BeginTermination, DeleteSession, RunCutShort, outside
      <4>2. QED
        BY <3>4, <4>1, OutsideKeeps
    <3>5. QED
      BY <3>1, <3>2, <3>3, <3>4 DEF GateNext
  <2>2. at \in Gates
    BY <2>1 DEF GateParts, AtGate
  <2>3. ~Winner(at)
    <3>1. at \in 0 .. 2 /\ at' = at
      BY <2>1 DEF GateParts
    <3>2. Winner(at) => \E r \in Requests : won'[r] /\ gate'[r] = at
      BY DecisionsStay DEF Winner
    <3>3. QED
      BY <3>1, <3>2 DEF Winner
  <2>4. ~\E r \in Requests : MarkResumed(r)
    <3> SUFFICES ASSUME NEW r \in Requests, req[r] \in {"marking", "noting"} PROVE FALSE
      BY DEF MarkResumed, Reply
    <3>1. won[r] /\ gate[r] \in Gates
      BY DEF RequestsKnown, GateParts, Answers
    <3>2. gate[r] = at
      BY <2>1, <2>2, <3>1 DEF FirstGateOnly, SecondClean, Gates, Answers
    <3>3. QED
      BY <2>3, <3>1, <3>2 DEF Winner
  <2>5. Shown
    BY <2>1, <2>3 DEF PauseIsShown
  <2>6. Goes \/ Overwrites
    BY <2>1, <2>4
  <2>7. QED
    BY <2>1, <2>5, <2>6 DEF Shown, Paused
<1>3. QED
  BY <1>1, <1>2

LEMMA WaitingStep == WaitingInv /\ [GateNext]_gateVars => WaitingInv'
BY GatePartsStep, GateFlagsStep, RequestsKnownStep, FirstGateStep, SecondCleanStep, PauseStep
   DEF WaitingInv

LEMMA WaitingInit == GateInit => WaitingInv
BY GateOneInit, GateTwoInit DEF GateOneInv, GateTwoInv, WaitingInv, GateInit, PauseIsShown

(* Every reachable state of the gates and the resume requests is well      *)
(* typed.                                                                  *)
THEOREM GateTypeCorrect == GateSpec => []GateTypeOK
<1>1. GateInit => GateParts /\ GateFlags
  BY GatePartsInit, GateFlagsInit
<1>2. (GateParts /\ GateFlags) /\ [GateNext]_gateVars => (GateParts /\ GateFlags)'
  BY GatePartsStep, GateFlagsStep
<1>3. GateParts /\ GateFlags => GateTypeOK
  BY GatePartsAreTypes
<1>4. QED
  BY <1>1, <1>2, <1>3, PTL DEF GateSpec

(* A gate is left by a decision only if a request made it there: for any   *)
(* number of requests, in either mode, whatever messages come late or get  *)
(* lost, the deep pass never runs unasked, and synthesis never counts as   *)
(* confirmed unless it was or the first gate was not over.                 *)
THEOREM DecisionsAreExplained == GateSpec => []GatesExplained
<1>1. GateInit => GateOneInv /\ GateTwoInv
  BY GateOneInit, GateTwoInit
<1>2. (GateOneInv /\ GateTwoInv) /\ [GateNext]_gateVars => (GateOneInv /\ GateTwoInv)'
  BY GateOneInvStep, GateTwoInvStep
<1>3. GateOneInv /\ GateTwoInv => GatesExplained
  BY DEF GateOneInv, GateTwoInv, GatesExplained
<1>4. QED
  BY <1>1, <1>2, <1>3, PTL DEF GateSpec

(* An undecided gate at which the pipeline waits is the one the metadata   *)
(* shows, so that a resume request reaches it: whatever requests, messages *)
(* and failed writes there were, only a pause that was never written, a    *)
(* first gate not over when the second opened, a recovery and a            *)
(* termination hide it.                                                    *)
THEOREM UndecidedIsVisible == GateSpec => []WaitingIsVisible
<1>1. GateInit => WaitingInv
  BY WaitingInit
<1>2. WaitingInv /\ [GateNext]_gateVars => WaitingInv'
  BY WaitingStep
<1>3. WaitingInv => WaitingIsVisible
  BY DEF WaitingInv, PauseIsShown, Shown, WaitingIsVisible
<1>4. QED
  BY <1>1, <1>2, <1>3, PTL DEF GateSpec

-----------------------------------------------------------------------------
(* Live updates: what is put in a queue *)

Things == Updates \cup {Synthesized, Broken}

LEMMA Least ==
  ASSUME NEW P \in SUBSET Nat, P # {}
  PROVE  \E i \in P : \A j \in P : i <= j
<1>1. PICK i \in P : \A j \in P : ~ (<<j, i>> \in OpToRel(<, Nat))
  BY NatLessThanWellFounded, WFMin
<1>2. ASSUME NEW j \in P PROVE i <= j
  <2>1. <<j, i>> \in OpToRel(<, Nat) <=> j < i
    BY DEF OpToRel
  <2>2. ~ (j < i)
    BY <1>1, <2>1, Zenon
  <2>3. i \in Nat /\ j \in Nat
    OBVIOUS
  <2>4. QED
    BY <2>2, <2>3
<1>3. QED
  BY <1>1, <1>2

LEMMA AllNumbers ==
  ASSUME NEW N \in SUBSET Nat, 0 \in N, \A n \in N : n + 1 \in N
  PROVE  N = Nat
<1>1. SUFFICES ASSUME Nat \ N # {} PROVE FALSE
  OBVIOUS
<1>2. PICK i \in Nat \ N : \A j \in Nat \ N : i <= j
  BY <1>1, Least
<1>3. i \in Nat /\ i # 0 /\ i - 1 \in Nat /\ (i - 1) + 1 = i
  BY <1>2
<1>4. i - 1 \in N
  BY <1>2, <1>3
<1>5. QED
  BY <1>2, <1>3, <1>4

LEMMA EmptyQueue == \A X : <<>> \in Seq(X) /\ Len(<<>>) = 0 /\ ToSet(<<>>) = {}
<1>1. \A X : <<>> \in Seq(X) /\ Len(<<>>) = 0
  BY EmptySeq
<1>2. ToSet(<<>>) = {}
  BY DEF ToSet
<1>3. QED
  BY <1>1, <1>2

LEMMA AddLast ==
  ASSUME NEW X, NEW q \in Seq(X), NEW e \in X
  PROVE  /\ Append(q, e) \in Seq(X) /\ Len(Append(q, e)) = Len(q) + 1 /\ Len(q) \in Nat
         /\ ToSet(Append(q, e)) = ToSet(q) \cup {e} /\ Append(q, e) # <<>>
<1>1. /\ Append(q, e) \in Seq(X) /\ Len(Append(q, e)) = Len(q) + 1 /\ Len(q) \in Nat
      /\ \A i \in 1 .. Len(q) : Append(q, e)[i] = q[i]
      /\ Append(q, e)[Len(q) + 1] = e
  BY AppendProperties, LenProperties
<1>2. DOMAIN q = 1 .. Len(q) /\ DOMAIN Append(q, e) = 1 .. Len(q) + 1
  BY <1>1, LenProperties
<1>3. ToSet(Append(q, e)) = ToSet(q) \cup {e}
  BY <1>1, <1>2 DEF ToSet
<1>4. Append(q, e) # <<>>
  BY <1>1, EmptyQueue
<1>5. QED
  BY <1>1, <1>3, <1>4

LEMMA TakeHead ==
  ASSUME NEW X, NEW q \in Seq(X), q # <<>>
  PROVE  /\ Head(q) \in X /\ Tail(q) \in Seq(X) /\ Len(Tail(q)) = Len(q) - 1
         /\ ToSet(q) = {Head(q)} \cup ToSet(Tail(q)) /\ Len(q) \in Nat \ {0}
<1>1. /\ Head(q) \in X /\ Tail(q) \in Seq(X) /\ Len(Tail(q)) = Len(q) - 1
      /\ \A i \in 1 .. Len(Tail(q)) : Tail(q)[i] = q[i + 1]
      /\ Head(q) = q[1]
  BY HeadTailProperties
<1>2. Len(q) \in Nat /\ Len(q) # 0 /\ DOMAIN q = 1 .. Len(q) /\ DOMAIN Tail(q) = 1 .. Len(q) - 1
  BY <1>1, LenProperties, EmptySeq
<1>3. ASSUME NEW i \in 1 .. Len(q) PROVE q[i] \in {Head(q)} \cup ToSet(Tail(q))
  <2>1. CASE i = 1
    BY <1>1, <2>1
  <2>2. CASE i # 1
    <3>1. i - 1 \in 1 .. Len(q) - 1 /\ (i - 1) + 1 = i
      BY <1>2, <2>2
    <3>2. Tail(q)[i - 1] = q[i]
      BY <1>1, <3>1
    <3>3. QED
      BY <1>2, <3>1, <3>2 DEF ToSet
  <2>3. QED
    BY <2>1, <2>2
<1>4. ASSUME NEW i \in 1 .. Len(q) - 1 PROVE Tail(q)[i] \in ToSet(q)
  <2>1. i + 1 \in 1 .. Len(q) /\ Tail(q)[i] = q[i + 1]
    BY <1>1, <1>2
  <2>2. QED
    BY <1>2, <2>1 DEF ToSet
<1>5. Head(q) \in ToSet(q)
  <2>1. 1 \in 1 .. Len(q)
    BY <1>2
  <2>2. QED
    BY <1>1, <1>2, <2>1 DEF ToSet
<1>6. QED
  BY <1>1, <1>2, <1>3, <1>4, <1>5 DEF ToSet

LEMMA DropOne ==
  ASSUME NEW X, NEW q \in Seq(X), NEW i \in DOMAIN q
  PROVE  /\ RemoveAt(q, i) \in Seq(X) /\ Len(RemoveAt(q, i)) = Len(q) - 1
         /\ \A j \in DOMAIN q : j # i => q[j] \in ToSet(RemoveAt(q, i))
<1> DEFINE a == SubSeq(q, 1, i - 1)
           b == SubSeq(q, i + 1, Len(q))
<1>1. Len(q) \in Nat /\ DOMAIN q = 1 .. Len(q) /\ i \in 1 .. Len(q)
  BY LenProperties
<1>2. /\ a \in Seq(X) /\ Len(a) = i - 1 /\ \A j \in 1 .. i - 1 : a[j] = q[j]
      /\ b \in Seq(X) /\ Len(b) = Len(q) - i /\ \A j \in 1 .. Len(q) - i : b[j] = q[i + j]
  BY <1>1
<1> HIDE DEF a, b
<1>3. /\ a \o b \in Seq(X) /\ Len(a \o b) = Len(q) - 1
      /\ \A j \in 1 .. Len(a) + Len(b) : (a \o b)[j] = IF j <= Len(a) THEN a[j] ELSE b[j - Len(a)]
  <2>1. a \in Seq(X) /\ b \in Seq(X)
    BY <1>2
  <2>2. /\ a \o b \in Seq(X) /\ Len(a \o b) = Len(a) + Len(b)
        /\ \A j \in 1 .. Len(a) + Len(b) : (a \o b)[j] = IF j <= Len(a) THEN a[j] ELSE b[j - Len(a)]
    BY <2>1, ConcatProperties
  <2>3. QED
    BY <1>1, <1>2, <2>2
<1>4. RemoveAt(q, i) = a \o b
  BY DEF RemoveAt, a, b
<1>5. DOMAIN (a \o b) = 1 .. Len(q) - 1
  BY <1>3, LenProperties
<1>6. ASSUME NEW j \in DOMAIN q, j # i PROVE q[j] \in ToSet(a \o b)
  <2>1. CASE j < i
    <3>1. j \in 1 .. Len(q) - 1 /\ (a \o b)[j] = q[j]
      BY <1>1, <1>2, <1>3, <2>1
    <3>2. QED
      BY <1>5, <3>1 DEF ToSet
  <2>2. CASE j > i
    <3>1. j - 1 \in 1 .. Len(q) - 1 /\ (a \o b)[j - 1] = q[j]
      <4>1. j - 1 \in 1 .. Len(a) + Len(b) /\ ~(j - 1 <= Len(a)) /\ j - i \in 1 .. Len(q) - i
        BY <1>1, <1>2, <2>2
      <4>2. (a \o b)[j - 1] = b[(j - 1) - Len(a)]
        BY <1>3, <4>1
      <4>3. (j - 1) - Len(a) = j - i /\ i + (j - i) = j
        BY <1>1, <1>2
      <4>4. b[j - i] = q[j]
        BY <1>2, <4>1, <4>3
      <4>5. j - 1 \in 1 .. Len(q) - 1
        BY <1>1, <2>2
      <4>6. QED
        BY <4>2, <4>3, <4>4, <4>5
    <3>2. QED
      BY <1>5, <3>1 DEF ToSet
  <2>3. QED
    BY <1>1, <1>6, <2>1, <2>2
<1>7. QED
  BY <1>3, <1>4, <1>6

Fits(q) == kind = "sse" => Len(q) <= QueueMax
Kept(q) == {x \in ToSet(q) : kind = "ws" \/ Critical(x)}

LEMMA PutKeeps ==
  ASSUME NEW X, NEW q \in Seq(X), NEW e \in X
  PROVE  /\ Put(q, e) \in Seq(X)
         /\ Kept(q) \subseteq ToSet(Put(q, e))
         /\ kind = "ws" => e \in ToSet(Put(q, e))
         /\ Fits(q) /\ kind \in {"sse", "ws"} => Fits(Put(q, e))
<1>0. Len(q) \in Nat /\ DOMAIN q = 1 .. Len(q) /\ QueueMax \in Nat \ {0}
  BY LiveAssumption, LenProperties DEF LiveAssumption
<1>1. ASSUME NEW r \in Seq(X)
      PROVE  /\ Append(r, e) \in Seq(X) /\ Len(Append(r, e)) = Len(r) + 1 /\ Len(r) \in Nat
             /\ ToSet(Append(r, e)) = ToSet(r) \cup {e}
  BY AddLast
<1>2. CASE kind = "ws" \/ Len(q) < QueueMax
  <2>1. Put(q, e) = Append(q, e)
    BY <1>2 DEF Put
  <2>2. QED
    BY <1>0, <1>1, <1>2, <2>1 DEF Kept, Fits
<1>3. CASE ~(kind = "ws" \/ Len(q) < QueueMax) /\ Critical(e) /\ Noncritical(q) # {}
  <2> DEFINE i == CHOOSE i \in Noncritical(q) : \A j \in Noncritical(q) : i <= j
  <2>1. Put(q, e) = Append(RemoveAt(q, i), e)
    BY <1>3 DEF Put
  <2>2. i \in Noncritical(q)
    <3>1. Noncritical(q) \in SUBSET Nat
      BY <1>0 DEF Noncritical
    <3>2. \E k \in Noncritical(q) : \A j \in Noncritical(q) : k <= j
      BY <1>3, <3>1, Least
    <3>3. QED
      BY <3>2
  <2> HIDE DEF i
  <2>3. i \in DOMAIN q /\ ~Critical(q[i])
    BY <2>2 DEF Noncritical
  <2>4. /\ RemoveAt(q, i) \in Seq(X) /\ Len(RemoveAt(q, i)) = Len(q) - 1
        /\ \A j \in DOMAIN q : j # i => q[j] \in ToSet(RemoveAt(q, i))
    BY <2>3, DropOne
  <2>5. Kept(q) \subseteq ToSet(RemoveAt(q, i))
    BY <1>3, <2>3, <2>4 DEF Kept, ToSet
  <2>6. QED
    BY <1>0, <1>1, <1>3, <2>1, <2>4, <2>5 DEF Fits
<1>4. CASE ~(kind = "ws" \/ Len(q) < QueueMax) /\ ~(Critical(e) /\ Noncritical(q) # {})
  <2>1. Put(q, e) = q
    BY <1>4 DEF Put
  <2>2. QED
    BY <1>4, <2>1 DEF Kept
<1>5. QED
  BY <1>2, <1>3, <1>4

(* The fold over what was missed: its steps, by the positions taken. *)
LEMMA Largest ==
  ASSUME NEW n \in Nat, NEW s \in SUBSET (1 .. n), s # {}
  PROVE  Max(s) \in s
<1> DEFINE P == {n - i : i \in s}
<1>1. P \in SUBSET Nat /\ P # {}
  <2>1. ASSUME NEW i \in s PROVE n - i \in Nat
    <3>1. i \in 1 .. n
      OBVIOUS
    <3>2. QED
      BY <3>1
  <2>2. QED
    BY <2>1
<1>2. PICK j \in P : \A k \in P : j <= k
  <2> HIDE DEF P
  <2>1. QED
    BY <1>1, Least
<1>3. PICK i \in s : j = n - i
  OBVIOUS
<1>4. ASSUME NEW k \in s PROVE i >= k
  <2>1. n - k \in P
    OBVIOUS
  <2>2. n - i <= n - k
    BY <1>2, <1>3, <2>1
  <2>3. QED
    BY <2>2
<1>5. \E x \in s : \A y \in s : x >= y
  BY <1>4
<1>6. QED
  BY <1>5 DEF Max

PutsUp(g, D, q, es) ==
  g = [s \in D |-> IF s = {} THEN q ELSE Put(g[s \ {Max(s)}], es[Max(s)])]

LEMMA Shrinks ==
  ASSUME NEW n \in Nat, NEW s \in SUBSET (1 .. n)
  PROVE  /\ IsFiniteSet(s) /\ Cardinality(s) \in Nat
         /\ s # {} => /\ Max(s) \in s /\ s \ {Max(s)} \in SUBSET (1 .. n)
                      /\ Cardinality(s \ {Max(s)}) = Cardinality(s) - 1
         /\ Cardinality(s) <= 0 => s = {}
<1>1. IsFiniteSet(1 .. n)
  BY FS_Interval
<1>2. IsFiniteSet(s) /\ Cardinality(s) \in Nat
  BY <1>1, FS_Subset, FS_CardinalityType
<1>3. Cardinality(s) <= 0 => s = {}
  <2>1. Cardinality(s) <= 0 => Cardinality(s) = 0
    BY <1>2
  <2>2. QED
    BY <1>2, <2>1, FS_EmptySet
<1>4. ASSUME s # {} PROVE /\ Max(s) \in s /\ s \ {Max(s)} \in SUBSET (1 .. n)
                          /\ Cardinality(s \ {Max(s)}) = Cardinality(s) - 1
  BY <1>2, <1>4, Largest, FS_RemoveElement
<1>5. QED
  BY <1>2, <1>3, <1>4

LEMMA PutsUpExists ==
  ASSUME NEW n \in Nat, NEW q, NEW es
  PROVE  \E g : PutsUp(g, SUBSET (1 .. n), q, es)
<1> DEFINE P(m) == {s \in SUBSET (1 .. n) : Cardinality(s) <= m}
           N == {m \in Nat : \E g : PutsUp(g, P(m), q, es)}
<1>1. 0 \in N
  <2> DEFINE g == [s \in P(0) |-> q]
  <2>1. \A s \in P(0) : s = {}
    BY Shrinks
  <2>2. PutsUp(g, P(0), q, es)
    BY <2>1 DEF PutsUp
  <2>3. QED
    BY <2>2
<1>2. ASSUME NEW m \in N PROVE m + 1 \in N
  <2>0. m \in Nat /\ m + 1 \in Nat
    OBVIOUS
  <2>1. PICK g : PutsUp(g, P(m), q, es)
    OBVIOUS
  <2> DEFINE h == [s \in P(m + 1) |-> IF s = {} THEN q ELSE Put(g[s \ {Max(s)}], es[Max(s)])]
  <2>2. ASSUME NEW s \in P(m + 1), s # {} PROVE s \ {Max(s)} \in P(m)
    <3>1. /\ s \ {Max(s)} \in SUBSET (1 .. n) /\ Cardinality(s \ {Max(s)}) = Cardinality(s) - 1
          /\ Cardinality(s) \in Nat /\ Cardinality(s) <= m + 1
      BY <2>2, Shrinks
    <3>2. Cardinality(s \ {Max(s)}) <= m
      BY <2>0, <3>1
    <3>3. QED
      BY <3>1, <3>2
  <2>3. P(m) \subseteq P(m + 1)
    <3>1. ASSUME NEW s \in SUBSET (1 .. n), Cardinality(s) <= m PROVE Cardinality(s) <= m + 1
      <4>1. Cardinality(s) \in Nat
        BY Shrinks
      <4>2. QED
        BY <2>0, <3>1, <4>1
    <3>2. QED
      BY <3>1
  <2>4. \A s \in P(m) : h[s] = g[s]
    BY <2>1, <2>3 DEF PutsUp
  <2>5. PutsUp(h, P(m + 1), q, es)
    <3>1. \A s \in P(m + 1) : s # {} => h[s \ {Max(s)}] = g[s \ {Max(s)}]
      BY <2>2, <2>4
    <3>2. QED
      BY <3>1 DEF PutsUp
  <2> HIDE DEF h, P
  <2>6. QED
    BY <2>0, <2>5
<1> HIDE DEF N
<1>3. N = Nat
  BY <1>1, <1>2, AllNumbers DEF N
<1>4. Cardinality(1 .. n) = n /\ \A s \in SUBSET (1 .. n) : Cardinality(s) <= n
  <2>1. IsFiniteSet(1 .. n) /\ Cardinality(1 .. n) = n
    BY FS_Interval
  <2>2. QED
    BY <2>1, FS_Subset
<1>5. P(n) = SUBSET (1 .. n)
  BY <1>4
<1>6. QED
  BY <1>3, <1>5 DEF N

Carries(r, X, q, es, n) ==
  /\ r \in Seq(X) /\ Fits(r)
  /\ kind = "ws" => ToSet(q) \cup {es[i] : i \in 1 .. n} \subseteq ToSet(r)

(* Every prefix of the fold keeps what may not be dropped. *)
LEMMA PutsUpKeeps ==
  ASSUME NEW X, NEW n \in Nat, NEW q \in Seq(X), NEW es, \A i \in 1 .. n : es[i] \in X,
         NEW g, PutsUp(g, SUBSET (1 .. n), q, es), kind \in {"sse", "ws"}, Fits(q)
  PROVE  Carries(g[1 .. n], X, q, es, n)
<1> DEFINE Good(s) == /\ g[s] \in Seq(X) /\ Fits(g[s])
                      /\ kind = "ws" => ToSet(q) \cup {es[i] : i \in s} \subseteq ToSet(g[s])
           N == {m \in Nat : \A s \in SUBSET (1 .. n) : Cardinality(s) <= m => Good(s)}
<1>1. /\ g[{}] = q
      /\ \A s \in SUBSET (1 .. n) : s # {} => g[s] = Put(g[s \ {Max(s)}], es[Max(s)])
  BY DEF PutsUp
<1>2. Good({})
  BY <1>1
<1>3. 0 \in N
  <2>1. \A s \in SUBSET (1 .. n) : Cardinality(s) <= 0 => s = {}
    BY Shrinks
  <2>2. QED
    BY <1>2, <2>1
<1>4. ASSUME NEW m \in N PROVE m + 1 \in N
  <2>0. m \in Nat /\ \A s \in SUBSET (1 .. n) : Cardinality(s) <= m => Good(s)
    OBVIOUS
  <2>1. ASSUME NEW s \in SUBSET (1 .. n), Cardinality(s) <= m + 1, s # {} PROVE Good(s)
    <3> DEFINE x == Max(s)
               r == s \ {x}
    <3>1. x \in s /\ r \in SUBSET (1 .. n) /\ Cardinality(r) = Cardinality(s) - 1 /\ Cardinality(s) \in Nat
      BY <2>1, Shrinks
    <3>2. Cardinality(r) <= m
      BY <2>0, <2>1, <3>1
    <3>3. Good(r)
      BY <2>0, <3>1, <3>2
    <3>4. es[x] \in X /\ g[s] = Put(g[r], es[x])
      BY <1>1, <2>1, <3>1
    <3> HIDE DEF x, r
    <3>5. /\ Put(g[r], es[x]) \in Seq(X) /\ Fits(Put(g[r], es[x]))
          /\ Kept(g[r]) \subseteq ToSet(Put(g[r], es[x]))
          /\ kind = "ws" => es[x] \in ToSet(Put(g[r], es[x]))
      BY <3>3, <3>4, PutKeeps
    <3>6. ASSUME kind = "ws" PROVE ToSet(q) \cup {es[i] : i \in s} \subseteq ToSet(g[s])
      <4>1. ToSet(g[r]) \subseteq ToSet(g[s]) /\ es[x] \in ToSet(g[s])
        BY <3>4, <3>5, <3>6 DEF Kept
      <4>2. s = r \cup {x}
        BY <3>1 DEF r
      <4>3. ToSet(q) \cup {es[i] : i \in r} \subseteq ToSet(g[r])
        BY <3>3, <3>6
      <4>4. QED
        BY <4>1, <4>2, <4>3
    <3>7. QED
      BY <3>4, <3>5, <3>6
  <2>2. \A s \in SUBSET (1 .. n) : Cardinality(s) <= m + 1 => Good(s)
    BY <1>2, <2>1
  <2> HIDE DEF Good
  <2>3. QED
    BY <2>0, <2>2
<1> HIDE DEF N, Good
<1>5. N = Nat
  BY <1>3, <1>4, AllNumbers DEF N
<1>6. Cardinality(1 .. n) = n
  BY FS_Interval
<1>7. n \in N /\ Cardinality(1 .. n) <= n
  BY <1>5, <1>6
<1>8. Good(1 .. n)
  BY <1>7 DEF N
<1>9. QED
  BY <1>8 DEF Good, Carries

LEMMA PutAllKeeps ==
  ASSUME NEW X, NEW q \in Seq(X), NEW es \in Seq(X), kind \in {"sse", "ws"}, Fits(q)
  PROVE  /\ PutAll(q, es) \in Seq(X) /\ Fits(PutAll(q, es))
         /\ kind = "ws" => ToSet(q) \cup ToSet(es) \subseteq ToSet(PutAll(q, es))
<1> DEFINE n == Len(es)
           F == CHOOSE iter :
                  iter = [s \in SUBSET DOMAIN es |-> IF s = {} THEN q ELSE Put(iter[s \ {Max(s)}], es[Max(s)])]
<1>1. n \in Nat /\ DOMAIN es = 1 .. n /\ \A i \in 1 .. n : es[i] \in X
  BY LenProperties, ElementOfSeq
<1>2. PutAll(q, es) = F[DOMAIN es]
  BY DEF PutAll, FoldLeft, MapThenFoldSet
<1>3. \E g : PutsUp(g, SUBSET (1 .. n), q, es)
  BY <1>1, PutsUpExists
<1>4. PutsUp(F, SUBSET (1 .. n), q, es)
  BY <1>1, <1>3 DEF PutsUp
<1> HIDE DEF F, n
<1>5. Carries(F[1 .. n], X, q, es, n)
  BY <1>1, <1>4, PutsUpKeeps
<1>6. QED
  BY <1>1, <1>2, <1>5 DEF ToSet, Carries

-----------------------------------------------------------------------------
(* Live updates: types *)

SendTypes ==
  /\ next \in [Senders -> Nat \ {0}]
  /\ sending \in [Senders -> {"ready", "local", "publish", "push"}]
  /\ \A s \in Senders : sending[s] # "ready" => next[s] <= Len(Script[s])
  /\ buffer \in Seq(Updates) /\ Len(buffer) <= BufferMax
  /\ pushes \in Nat /\ Len(buffer) <= pushes
  /\ status \in {"running", "completed", "gone"} /\ concluded \in BOOLEAN
  /\ teardown \in {"no", "tell", "close", "forget", "done"}

ViewTypes ==
  /\ kind \in {"sse", "ws"}
  /\ stage \in {"away", "registered", "subscribed", "replayed", "live", "deaf"}
  /\ listed \in BOOLEAN
  /\ inbox \in Seq(Updates \cup {Control})
  /\ queue \in Seq(Things) /\ Fits(queue)
  /\ eventId \in Nat
  /\ shown \subseteq Things \cup {Control}
  /\ fresh \in BOOLEAN /\ early \in Nat /\ replayed \subseteq CriticalTypes
  /\ squeezed \in BOOLEAN /\ openedLate \in BOOLEAN

MishapTypes == liveFaults \in 0 .. MaxMishaps /\ leaves \in 0 .. MaxMishaps

LiveTypes == SendTypes /\ ViewTypes /\ MishapTypes

LEMMA ScriptsAreSequences == \A s \in Senders : Len(Script[s]) \in Nat
<1>1. ASSUME NEW s \in Senders PROVE Len(Script[s]) \in Nat
  <2>1. Script[s] \in Seq({"progress", "paused", "complete", "terminated"})
    BY LiveAssumption DEF LiveAssumption
  <2>2. QED
    BY <2>1, LenProperties
<1>2. QED
  BY <1>1

LEMMA CurrentIsUpdate ==
  ASSUME LiveTypes, NEW s \in Senders, sending[s] # "ready" \/ next[s] <= Len(Script[s])
  PROVE  Current(s) \in Updates
<1>1. next[s] \in Nat \ {0} /\ next[s] <= Len(Script[s])
  BY DEF LiveTypes, SendTypes
<1>2. next[s] \in 1 .. Len(Script[s])
  BY <1>1, ScriptsAreSequences
<1>3. QED
  BY <1>2 DEF Current, Updates

LEMMA SendTypesStay == SendTypes /\ UNCHANGED sendVars => SendTypes'
  BY DEF SendTypes, sendVars

LEMMA ViewTypesStay == ViewTypes /\ UNCHANGED viewVars => ViewTypes'
  BY DEF ViewTypes, viewVars, historyVars, Fits

LEMMA AwayTypes == ViewTypes /\ Away /\ kind' = kind /\ eventId' = eventId => ViewTypes'
<1>1. Fits(<<>>) /\ <<>> \in Seq(Things) /\ <<>> \in Seq(Updates \cup {Control})
  BY LiveAssumption, EmptyQueue DEF Fits, LiveAssumption
<1>2. SUFFICES ASSUME ViewTypes, Away, kind' = kind, eventId' = eventId PROVE ViewTypes'
  OBVIOUS
<1>3. Fits(queue)'
  BY <1>1, <1>2 DEF Away, Fits
<1>4. QED
  BY <1>1, <1>2, <1>3 DEF ViewTypes, Away

(* What is put in the client's queue is kept as Put keeps it. *)
LEMMA QueueTypes ==
  ASSUME LiveTypes, NEW e \in Things
  PROVE  Put(queue, e) \in Seq(Things) /\ Fits(Put(queue, e))
  BY PutKeeps DEF LiveTypes, ViewTypes

LEMMA PushTypes ==
  ASSUME LiveTypes, NEW s \in Senders, sending[s] \in {"publish", "push"}, Finished(s),
         UNCHANGED <<status, concluded>>,
         \/ UNCHANGED <<buffer, pushes>>
         \/ /\ LET longer == Append(buffer, Current(s))
               IN  buffer' = IF Len(longer) > BufferMax THEN Tail(longer) ELSE longer
            /\ pushes' = pushes + 1
  PROVE  SendTypes'
<1>1. Current(s) \in Updates
  BY CurrentIsUpdate
<1> DEFINE longer == Append(buffer, Current(s))
<1>2. /\ longer \in Seq(Updates) /\ Len(longer) = Len(buffer) + 1 /\ Len(buffer) \in Nat
      /\ longer # <<>>
  BY <1>1, AddLast DEF LiveTypes, SendTypes
<1>3. Tail(longer) \in Seq(Updates) /\ Len(Tail(longer)) = Len(longer) - 1
  BY <1>2, TakeHead
<1>4. /\ buffer' \in Seq(Updates) /\ Len(buffer') <= BufferMax
      /\ pushes' \in Nat /\ Len(buffer') <= pushes'
  <2>1. BufferMax \in Nat \ {0}
    BY LiveAssumption DEF LiveAssumption
  <2>2. CASE UNCHANGED <<buffer, pushes>>
    BY <2>2 DEF LiveTypes, SendTypes
  <2>3. CASE /\ buffer' = IF Len(longer) > BufferMax THEN Tail(longer) ELSE longer
             /\ pushes' = pushes + 1
    <3> HIDE DEF longer
    <3>1. QED
      BY <1>2, <1>3, <2>1, <2>3 DEF LiveTypes, SendTypes
  <2>4. QED
    BY <2>2, <2>3
<1>5. /\ next' \in [Senders -> Nat \ {0}]
      /\ sending' \in [Senders -> {"ready", "local", "publish", "push"}]
      /\ \A r \in Senders : sending'[r] # "ready" => next'[r] <= Len(Script[r])
  BY DEF LiveTypes, SendTypes, Finished, Step
<1>6. teardown' \in {"no", "tell", "close", "forget", "done"}
  BY DEF LiveTypes, SendTypes, Finished
<1>7. QED
  BY <1>4, <1>5, <1>6 DEF LiveTypes, SendTypes

LEMMA LiveTypesInit == LiveInit => LiveTypes
<1>1. SUFFICES ASSUME LiveInit PROVE LiveTypes
  OBVIOUS
<1>2. /\ QueueMax \in Nat /\ BufferMax \in Nat /\ MaxMishaps \in Nat
  BY LiveAssumption DEF LiveAssumption
<1>3. SendTypes
  <2>1. buffer \in Seq(Updates) /\ Len(buffer) = 0
    BY <1>1, EmptyQueue DEF LiveInit
  <2>2. next \in [Senders -> Nat \ {0}] /\ sending \in [Senders -> {"ready", "local", "publish", "push"}]
    BY <1>1 DEF LiveInit
  <2>3. \A s \in Senders : sending[s] = "ready"
    BY <1>1 DEF LiveInit
  <2>4. pushes = 0 /\ status = "running" /\ concluded = FALSE /\ teardown = "no"
    BY <1>1 DEF LiveInit
  <2>5. Len(buffer) <= BufferMax /\ Len(buffer) <= pushes /\ pushes \in Nat
    BY <1>2, <2>1, <2>4
  <2>6. \A s \in Senders : sending[s] # "ready" => next[s] <= Len(Script[s])
    BY <2>3
  <2>7. concluded \in BOOLEAN
    BY <2>4
  <2>8. QED
    BY <2>1, <2>2, <2>4, <2>5, <2>6, <2>7 DEF SendTypes
<1>4. ViewTypes
  <2>1. inbox \in Seq(Updates \cup {Control}) /\ queue \in Seq(Things) /\ Len(queue) = 0
    BY <1>1, EmptyQueue DEF LiveInit
  <2>2. Fits(queue)
    BY <1>2, <2>1 DEF Fits
  <2>3. QED
    BY <1>1, <2>1, <2>2 DEF LiveInit, ViewTypes
<1>5. QED
  BY <1>1, <1>2, <1>3, <1>4 DEF LiveInit, LiveTypes, MishapTypes

LEMMA LiveTypesStep == LiveTypes /\ [LiveNext]_liveVars => LiveTypes'
<1> SUFFICES ASSUME LiveTypes, [LiveNext]_liveVars PROVE LiveTypes'
  OBVIOUS
<1>0. SendTypes /\ ViewTypes /\ MishapTypes /\ MaxMishaps \in Nat
  BY LiveAssumption DEF LiveTypes, LiveAssumption
<1>1. CASE Conclude
  <2>1. SendTypes'
    BY <1>0, <1>1 DEF Conclude, SendTypes
  <2>2. QED
    BY <1>0, <1>1, <2>1, ViewTypesStay DEF Conclude, LiveTypes, MishapTypes, viewVars, historyVars
<1>2. ASSUME NEW s \in Senders, Begin(s) PROVE LiveTypes'
  <2>1. SendTypes'
    BY <1>0, <1>2 DEF Begin, Step, SendTypes
  <2>2. QED
    BY <1>0, <1>2, <2>1, ViewTypesStay DEF Begin, LiveTypes, MishapTypes, viewVars, historyVars
<1>3. ASSUME NEW s \in Senders, SendLocally(s) PROVE LiveTypes'
  <2>1. SendTypes'
    BY <1>0, <1>3 DEF SendLocally, Step, SendTypes
  <2>2. Current(s) \in Things
    BY <1>3, CurrentIsUpdate DEF SendLocally, Things
  <2>3. queue' \in Seq(Things) /\ Fits(queue)'
    BY <1>0, <1>3, <2>2, QueueTypes DEF SendLocally, Fits, ViewTypes
  <2>4. squeezed' \in BOOLEAN
    BY <1>0, <1>3 DEF SendLocally, ViewTypes, Squeezes
  <2>5. ViewTypes'
    BY <1>0, <1>3, <2>3, <2>4 DEF SendLocally, ViewTypes
  <2>6. QED
    BY <1>0, <1>3, <2>1, <2>5 DEF SendLocally, LiveTypes, MishapTypes
<1>4. ASSUME NEW s \in Senders, Publish(s) PROVE LiveTypes'
  <2>1. SendTypes'
    BY <1>0, <1>4 DEF Publish, Step, SendTypes
  <2>2. Current(s) \in Updates \cup {Control}
    BY <1>4, CurrentIsUpdate DEF Publish
  <2>3. inbox' \in Seq(Updates \cup {Control})
    BY <1>0, <1>4, <2>2, AddLast DEF Publish, ViewTypes
  <2>4. Fits(queue)'
    BY <1>0, <1>4 DEF Publish, Fits, ViewTypes
  <2>5. ViewTypes'
    BY <1>0, <1>4, <2>3, <2>4 DEF Publish, ViewTypes, historyVars
  <2>6. QED
    BY <1>0, <1>4, <2>1, <2>5 DEF Publish, LiveTypes, MishapTypes
<1>5. ASSUME NEW s \in Senders, Push(s) PROVE LiveTypes'
  <2>1. SendTypes'
    BY <1>5, PushTypes DEF Push
  <2>2. QED
    BY <1>0, <1>5, <2>1, ViewTypesStay DEF Push, LiveTypes, MishapTypes, viewVars, historyVars
<1>6. ASSUME NEW s \in Senders, BroadcastFails(s) PROVE LiveTypes'
  <2>1. SendTypes'
    BY <1>6, PushTypes DEF BroadcastFails
  <2>2. MishapTypes'
    BY <1>0, <1>6 DEF BroadcastFails, LiveFault, MishapTypes, viewVars, historyVars
  <2>3. QED
    BY <1>0, <1>6, <2>1, <2>2, ViewTypesStay DEF BroadcastFails, LiveTypes, viewVars, historyVars
<1>7. CASE TellControl
  <2>1. SendTypes'
    BY <1>0, <1>7 DEF TellControl, SendTypes
  <2>2. inbox' \in Seq(Updates \cup {Control})
    BY <1>0, <1>7, AddLast DEF TellControl, ViewTypes
  <2>3. Fits(queue)'
    BY <1>0, <1>7 DEF TellControl, Fits, ViewTypes
  <2>4. ViewTypes'
    BY <1>0, <1>7, <2>2, <2>3 DEF TellControl, ViewTypes, historyVars
  <2>5. MishapTypes'
    BY <1>0, <1>7 DEF TellControl, LiveFault, MishapTypes
  <2>6. QED
    BY <2>1, <2>4, <2>5 DEF LiveTypes
<1>8. CASE CloseSockets
  <2>1. SendTypes'
    BY <1>0, <1>8 DEF CloseSockets, SendTypes
  <2>2. CASE kind = "ws" /\ listed
    <3>1. ViewTypes'
      BY <1>0, <1>8, <2>2, AwayTypes DEF CloseSockets
    <3>2. QED
      BY <1>0, <1>8, <2>1, <3>1 DEF CloseSockets, LiveTypes, MishapTypes
  <2>3. CASE ~(kind = "ws" /\ listed)
    <3>1. ViewTypes'
      BY <1>0, <1>8, <2>3 DEF CloseSockets, ViewTypes, historyVars, Fits
    <3>2. QED
      BY <1>0, <1>8, <2>1, <3>1 DEF CloseSockets, LiveTypes, MishapTypes
  <2>4. QED
    BY <2>2, <2>3
<1>9. CASE Forget
  <2>1. SendTypes'
    <3>1. <<>> \in Seq(Updates) /\ Len(<<>>) = 0 /\ BufferMax \in Nat
      BY LiveAssumption, EmptyQueue DEF LiveAssumption
    <3>2. buffer' \in Seq(Updates) /\ Len(buffer') <= BufferMax /\ Len(buffer') <= pushes
      <4>1. CASE buffer' = buffer
        BY <1>0, <4>1 DEF SendTypes
      <4>2. CASE buffer' = <<>>
        <5>1. buffer' \in Seq(Updates) /\ Len(buffer') = 0
          BY <3>1, <4>2
        <5>2. QED
          BY <1>0, <3>1, <5>1 DEF SendTypes
      <4>3. QED
        BY <1>9, <4>1, <4>2 DEF Forget
    <3>3. /\ UNCHANGED <<next, sending, pushes, concluded>> /\ teardown' = "done"
          /\ status' \in {status, "gone"}
      BY <1>9 DEF Forget
    <3>4. QED
      BY <1>0, <3>2, <3>3 DEF SendTypes
  <2>2. MishapTypes'
    BY <1>0, <1>9 DEF Forget, LiveFault, MishapTypes, viewVars, historyVars
  <2>3. QED
    BY <1>0, <1>9, <2>1, <2>2, ViewTypesStay DEF Forget, LiveTypes
<1>10. CASE OpenSocket \/ OpenStream
  <2>1. PICK ids \in SUBSET Nat : Open(ids)
    BY <1>0, <1>10 DEF OpenSocket, OpenStream, ViewTypes
  <2>2. ViewTypes'
    <3>1. Fits(queue)' /\ queue' \in Seq(Things) /\ inbox' \in Seq(Updates \cup {Control})
      BY <1>0, <2>1, LiveAssumption, EmptyQueue DEF Open, Fits, LiveAssumption
    <3>2. openedLate' \in BOOLEAN
      BY <2>1 DEF Open, TerminationSent
    <3>3. QED
      BY <1>0, <2>1, <3>1, <3>2 DEF Open, ViewTypes
  <2>3. QED
    BY <1>0, <2>1, <2>2, SendTypesStay DEF Open, LiveTypes, MishapTypes
<1>11. CASE Subscribe
  <2>1. ViewTypes'
    BY <1>0, <1>11 DEF Subscribe, ViewTypes, Fits, historyVars
  <2>2. QED
    BY <1>0, <1>11, <2>1, SendTypesStay DEF Subscribe, LiveTypes, MishapTypes
<1>12. CASE Replay
  <2> DEFINE missed == SubSeq(buffer, eventId + 1, Len(buffer))
  <2>1. missed \in Seq(Things)
    <3>1. Len(buffer) \in Nat /\ eventId + 1 \in Nat \ {0} /\ buffer \in Seq(Things)
      BY <1>0, LenProperties DEF SendTypes, ViewTypes, Things
    <3>2. QED
      BY <3>1
  <2>2. PutAll(queue, missed) \in Seq(Things) /\ Fits(PutAll(queue, missed))
    <3> HIDE DEF missed
    <3>1. QED
      BY <1>0, <2>1, PutAllKeeps DEF ViewTypes
  <2>3. queue' \in Seq(Things) /\ Fits(queue)'
    BY <1>12, <2>2 DEF Replay, Fits
  <2>4. early' \in Nat
    BY <1>0, <1>12, LenProperties DEF Replay, SendTypes
  <2>5. squeezed' \in BOOLEAN /\ replayed' \subseteq CriticalTypes
    BY <1>0, <1>12 DEF Replay, ViewTypes
  <2>6. ViewTypes'
    BY <1>0, <1>12, <2>3, <2>4, <2>5 DEF Replay, ViewTypes
  <2>7. QED
    BY <1>0, <1>12, <2>6, SendTypesStay DEF Replay, LiveTypes, MishapTypes
<1>13. CASE CheckStatus
  <2>1. queue' \in Seq(Things) /\ Fits(queue)' /\ squeezed' \in BOOLEAN
    <3>1. Synthesized \in Things
      BY DEF Things
    <3>2. queue' \in Seq(Things) /\ Fits(queue)'
      BY <1>0, <1>13, <3>1, QueueTypes DEF CheckStatus, Fits, ViewTypes
    <3>3. squeezed' \in BOOLEAN
      BY <1>0, <1>13 DEF CheckStatus, ViewTypes, Squeezes
    <3>4. QED
      BY <3>2, <3>3
  <2>2. ViewTypes'
    BY <1>0, <1>13, <2>1 DEF CheckStatus, ViewTypes
  <2>3. QED
    BY <1>0, <1>13, <2>2, SendTypesStay DEF CheckStatus, LiveTypes, MishapTypes
<1>14. CASE Listen
  <2>1. Head(inbox) \in Updates /\ Tail(inbox) \in Seq(Updates \cup {Control})
    BY <1>0, <1>14, TakeHead DEF Listen, ViewTypes
  <2>2. queue' \in Seq(Things) /\ Fits(queue)'
    BY <1>0, <1>14, <2>1, QueueTypes DEF Listen, Fits, ViewTypes, Things
  <2>3. squeezed' \in BOOLEAN
    BY <1>0, <1>14 DEF Listen, ViewTypes, Squeezes
  <2>4. ViewTypes'
    BY <1>0, <1>14, <2>1, <2>2, <2>3 DEF Listen, ViewTypes
  <2>5. QED
    BY <1>0, <1>14, <2>4, SendTypesStay DEF Listen, LiveTypes, MishapTypes
<1>15. CASE HearControl
  BY <1>0, <1>15, AwayTypes, SendTypesStay DEF HearControl, LiveTypes, MishapTypes
<1>16. CASE Deliver
  <2>1. /\ Head(queue) \in Things /\ Tail(queue) \in Seq(Things)
        /\ Len(Tail(queue)) = Len(queue) - 1 /\ Len(queue) \in Nat
    BY <1>0, <1>16, TakeHead DEF Deliver, ViewTypes
  <2>2. Fits(queue)'
    BY <1>0, <1>16, <2>1, LiveAssumption DEF Deliver, Fits, ViewTypes, LiveAssumption
  <2>3. eventId' \in Nat /\ shown' \subseteq Things \cup {Control}
    BY <1>0, <1>16, <2>1 DEF Deliver, ViewTypes
  <2>4. ViewTypes'
    BY <1>0, <1>16, <2>1, <2>2, <2>3 DEF Deliver, ViewTypes, historyVars
  <2>5. QED
    BY <1>0, <1>16, <2>4, SendTypesStay DEF Deliver, LiveTypes, MishapTypes
<1>17. CASE StreamFails
  <2>1. queue' \in Seq(Things) /\ Fits(queue)'
    <3>1. Broken \in Things
      BY DEF Things
    <3>2. QED
      BY <1>0, <1>17, <3>1, QueueTypes DEF StreamFails, Fits, ViewTypes
  <2>2. ViewTypes'
    BY <1>0, <1>17, <2>1, EmptyQueue DEF StreamFails, ViewTypes, historyVars
  <2>3. MishapTypes'
    BY <1>0, <1>17 DEF StreamFails, LiveFault, MishapTypes
  <2>4. QED
    BY <1>0, <1>17, <2>2, <2>3, SendTypesStay DEF StreamFails, LiveTypes
<1>18. CASE SocketFails \/ IdleOut \/ Leave
  <2>1. Away /\ kind' = kind /\ eventId' = eventId /\ UNCHANGED sendVars
    BY <1>18 DEF SocketFails, IdleOut, Leave
  <2>2. MishapTypes'
    BY <1>0, <1>18 DEF SocketFails, IdleOut, Leave, LiveFault, MishapTypes
  <2>3. QED
    BY <1>0, <2>1, <2>2, AwayTypes, SendTypesStay DEF LiveTypes
<1>19. CASE UNCHANGED liveVars
  <2>1. UNCHANGED sendVars /\ UNCHANGED viewVars /\ liveFaults' = liveFaults /\ leaves' = leaves
    BY <1>19 DEF liveVars, viewVars
  <2>2. QED
    BY <1>0, <2>1, SendTypesStay, ViewTypesStay DEF LiveTypes, MishapTypes
<1>20. QED
  BY <1>1, <1>2, <1>3, <1>4, <1>5, <1>6, <1>7, <1>8, <1>9, <1>10, <1>11, <1>12, <1>13, <1>14,
     <1>15, <1>16, <1>17, <1>18, <1>19
     DEF LiveNext, LiveStep, SenderStep, TearDown, StreamStep

(* What is in the variables of the live updates is what LiveTypeOK says.   *)
THEOREM LiveTypeCorrect == LiveSpec => []LiveTypeOK
<1>1. LiveTypes => LiveTypeOK
  BY DEF LiveTypes, SendTypes, ViewTypes, MishapTypes, LiveTypeOK, Things, Fits
<1>2. LiveInit => LiveTypes
  BY LiveTypesInit
<1>3. LiveTypes /\ [LiveNext]_liveVars => LiveTypes'
  BY LiveTypesStep
<1>4. QED
  BY <1>1, <1>2, <1>3, PTL DEF LiveSpec

-----------------------------------------------------------------------------
(* Live updates: what a socket was told when it is closed *)

SocketToldInv ==
  /\ stage = "away" => ~listed
  /\ kind = "ws" => (listed <=> stage # "away")
  /\ kind = "ws" /\ stage # "away" /\ ~openedLate /\ TerminationSent
       => Told("terminated", shown \cup ToSet(queue))

LEMMA TypeOfCurrent ==
  ASSUME LiveTypes, NEW s \in Senders
  PROVE  TypeOf(Current(s)) = Script[s][next[s]]
<1>1. next[s] \in Nat \ {0}
  BY DEF LiveTypes, SendTypes
<1>2. next[s] # 0
  BY <1>1
<1>3. Current(s) # Synthesized /\ Current(s) # Broken /\ Current(s) # Control
  BY <1>2 DEF Current, Synthesized, Broken, Control
<1>4. QED
  BY <1>3 DEF TypeOf, Current

(* terminate_session runs in the API process, and so does its broadcast. *)
LEMMA TerminationIsLocal ==
  ASSUME LiveTypes, NEW s \in Senders, Current(s) \in Updates, TypeOf(Current(s)) = "terminated"
  PROVE  s \in LocalSenders
<1>1. next[s] \in 1 .. Len(Script[s])
  BY DEF Current, Updates
<1>2. next[s] \in DOMAIN Script[s]
  <2>1. Script[s] \in Seq({"progress", "paused", "complete", "terminated"})
    BY LiveAssumption DEF LiveAssumption
  <2>2. QED
    BY <1>1, <2>1, LenProperties
<1>3. Script[s][next[s]] = "terminated"
  BY TypeOfCurrent
<1>4. QED
  BY <1>2, <1>3, LiveAssumption DEF LiveAssumption

LEMMA TerminationSentStays ==
  ASSUME UNCHANGED <<next, sending, teardown>>
  PROVE  TerminationSent' <=> TerminationSent
  BY DEF TerminationSent, Current

(* A step after which the client has what it had, on the same stream.      *)
Undisturbed ==
  /\ kind' = kind /\ stage' # "away" /\ listed' = listed /\ openedLate' = openedLate
  /\ stage # "away"
  /\ kind = "ws" => \A e \in shown \cup ToSet(queue) : e \in shown' \cup ToSet(queue')

LEMMA UndisturbedTold ==
  ASSUME SocketToldInv, Undisturbed, TerminationSent' => TerminationSent
  PROVE  SocketToldInv'
<1>1. stage' # "away" /\ (kind' = "ws" => (listed' <=> stage' # "away"))
  BY DEF SocketToldInv, Undisturbed
<1>2. ASSUME kind' = "ws", ~openedLate', TerminationSent'
      PROVE  Told("terminated", shown' \cup ToSet(queue'))
  <2>1. kind = "ws" /\ stage # "away" /\ ~openedLate /\ TerminationSent
    BY <1>2 DEF Undisturbed
  <2>2. Told("terminated", shown \cup ToSet(queue))
    BY <2>1 DEF SocketToldInv
  <2>3. \A e \in shown \cup ToSet(queue) : e \in shown' \cup ToSet(queue')
    BY <2>1 DEF Undisturbed
  <2>4. QED
    BY <2>2, <2>3 DEF Told
<1>3. Told("terminated", shown \cup ToSet(queue))' <=> Told("terminated", shown' \cup ToSet(queue'))
  BY DEF Told
<1>4. QED
  BY <1>1, <1>2, <1>3 DEF SocketToldInv

LEMMA AwayTold ==
  ASSUME Away
  PROVE  SocketToldInv'
  BY DEF Away, SocketToldInv

LEMMA SameViewTold ==
  ASSUME SocketToldInv, TerminationSent' => TerminationSent, UNCHANGED viewVars
  PROVE  SocketToldInv'
<1>1. UNCHANGED <<kind, stage, listed, queue, shown, openedLate>>
  BY DEF viewVars, historyVars
<1>2. Told("terminated", shown \cup ToSet(queue))' <=> Told("terminated", shown \cup ToSet(queue))
  BY <1>1 DEF Told
<1>3. QED
  BY <1>1, <1>2 DEF SocketToldInv

(* In the queue of a socket everything stays, and what is put there too.   *)
LEMMA SocketQueueKeeps ==
  ASSUME LiveTypes, kind = "ws", NEW e \in Things
  PROVE  ToSet(queue) \cup {e} \subseteq ToSet(Put(queue, e))
<1>1. Kept(queue) \subseteq ToSet(Put(queue, e)) /\ e \in ToSet(Put(queue, e))
  BY PutKeeps DEF LiveTypes, ViewTypes
<1>2. QED
  BY <1>1 DEF Kept

LEMMA SocketToldStep == LiveTypes /\ SocketToldInv /\ [LiveNext]_liveVars => SocketToldInv'
<1> SUFFICES ASSUME LiveTypes, SocketToldInv, [LiveNext]_liveVars PROVE SocketToldInv'
  OBVIOUS
<1>0. SendTypes /\ ViewTypes
  BY DEF LiveTypes
<1>1. CASE Conclude
  BY <1>1, TerminationSentStays, SameViewTold DEF Conclude, viewVars
<1>2. ASSUME NEW s \in Senders, Begin(s) PROVE SocketToldInv'
  <2>1. TerminationSent' => TerminationSent
    <3>1. SUFFICES ASSUME TerminationSent' PROVE TerminationSent
      OBVIOUS
    <3>2. next' = next /\ teardown' = teardown /\ sending[s] = "ready"
      BY <1>2 DEF Begin
    <3>3. \A r \in Senders : sending'[r] # sending[r] => r = s
      BY <1>0, <1>2 DEF Begin, Step, SendTypes
    <3>4. Current(s) \in Updates
      BY <1>2, CurrentIsUpdate DEF Begin
    <3>5. TypeOf(Current(s)) = "terminated" => sending'[s] = "local"
      BY <1>0, <1>2, <3>4, TerminationIsLocal DEF Begin, Step, SendTypes
    <3>6. \A r \in Senders : Current(r)' = Current(r)
      BY <3>2 DEF Current
    <3>7. \A r \in Senders : TypeOf(Current(r))' = TypeOf(Current(r))
      BY <3>6 DEF TypeOf
    <3>8. QED
      BY <3>1, <3>2, <3>3, <3>5, <3>7 DEF TerminationSent
  <2>2. QED
    BY <1>2, <2>1, SameViewTold DEF Begin
<1>3. ASSUME NEW s \in Senders, SendLocally(s) PROVE SocketToldInv'
  <2>1. Current(s) \in Things
    BY <1>3, CurrentIsUpdate DEF SendLocally, Things
  <2>2. UNCHANGED <<kind, stage, listed, openedLate, shown, next, teardown>>
    BY <1>3 DEF SendLocally
  <2>3. ASSUME kind = "ws", stage # "away"
        PROVE  ToSet(queue) \cup {Current(s)} \subseteq ToSet(queue')
    <3>1. queue' = Put(queue, Current(s))
      BY <1>3, <2>3 DEF SendLocally, SocketToldInv
    <3>2. QED
      BY <2>1, <2>3, <3>1, SocketQueueKeeps
  <2>4. ASSUME kind' = "ws", stage' # "away", ~openedLate', TerminationSent'
        PROVE  Told("terminated", shown' \cup ToSet(queue'))
    <3>1. CASE TerminationSent
      <4>1. Told("terminated", shown \cup ToSet(queue))
        BY <2>2, <2>4, <3>1 DEF SocketToldInv
      <4>2. QED
        BY <2>2, <2>3, <2>4, <4>1 DEF Told
    <3>2. CASE ~TerminationSent
      <4>1. \A r \in Senders : sending'[r] # sending[r] => r = s
        BY <1>0, <1>3 DEF SendLocally, Step, SendTypes
      <4>2. \A r \in Senders : Current(r)' = Current(r)
        BY <2>2 DEF Current
      <4>3. \A r \in Senders : TypeOf(Current(r))' = TypeOf(Current(r))
        BY <4>2 DEF TypeOf
      <4>4. TypeOf(Current(s)) = "terminated"
        BY <2>2, <2>4, <3>2, <4>1, <4>3 DEF TerminationSent
      <4>5. Current(s) \in ToSet(queue')
        BY <2>2, <2>3, <2>4
      <4>6. QED
        BY <4>4, <4>5 DEF Told
    <3>3. QED
      BY <3>1, <3>2
  <2>5. Told("terminated", shown \cup ToSet(queue))' <=> Told("terminated", shown' \cup ToSet(queue'))
    BY DEF Told
  <2>6. QED
    BY <2>2, <2>4, <2>5 DEF SocketToldInv
<1>4. ASSUME NEW s \in Senders, Publish(s) PROVE SocketToldInv'
  <2>1. TerminationSent' => TerminationSent
    <3>1. next' = next /\ teardown' = teardown /\ sending[s] = "publish"
      BY <1>4 DEF Publish
    <3>2. \A r \in Senders : sending'[r] # sending[r] => r = s
      BY <1>0, <1>4 DEF Publish, Step, SendTypes
    <3>3. \A r \in Senders : Current(r)' = Current(r)
      BY <3>1 DEF Current
    <3>4. \A r \in Senders : TypeOf(Current(r))' = TypeOf(Current(r))
      BY <3>3 DEF TypeOf
    <3>5. QED
      BY <3>1, <3>2, <3>4 DEF TerminationSent
  <2>2. UNCHANGED <<kind, stage, listed, queue, shown, openedLate>>
    BY <1>4 DEF Publish, historyVars
  <2>3. Told("terminated", shown \cup ToSet(queue))' <=> Told("terminated", shown \cup ToSet(queue))
    BY <2>2 DEF Told
  <2>4. QED
    BY <2>1, <2>2, <2>3 DEF SocketToldInv
<1>5. ASSUME NEW s \in Senders, Finished(s), sending[s] \in {"publish", "push"}, UNCHANGED viewVars
      PROVE  SocketToldInv'
  <2>1. TerminationSent' => TerminationSent
    <3>1. \A r \in Senders : r # s => sending'[r] = sending[r] /\ next'[r] = next[r]
      BY <1>0, <1>5 DEF Finished, Step, SendTypes
    <3>2. \A r \in Senders : r # s => Current(r)' = Current(r)
      BY <3>1 DEF Current
    <3>3. \A r \in Senders : r # s => TypeOf(Current(r))' = TypeOf(Current(r))
      BY <3>2 DEF TypeOf
    <3>4. sending'[s] = "ready"
      BY <1>0, <1>5 DEF Finished, Step, SendTypes
    <3>5. teardown' # teardown => TypeOf(Current(s)) = "terminated"
      BY <1>5 DEF Finished
    <3>6. QED
      BY <1>5, <3>1, <3>3, <3>4, <3>5 DEF TerminationSent
  <2>2. QED
    BY <1>5, <2>1, SameViewTold
<1>6. CASE TellControl
  <2>1. UNCHANGED <<next, sending, kind, stage, listed, queue, shown, openedLate>>
    BY <1>6 DEF TellControl, historyVars
  <2>2. TerminationSent
    BY <1>6 DEF TellControl, TerminationSent
  <2>3. Told("terminated", shown \cup ToSet(queue))' <=> Told("terminated", shown \cup ToSet(queue))
    BY <2>1 DEF Told
  <2>4. QED
    BY <2>1, <2>2, <2>3 DEF SocketToldInv
<1>7. CASE CloseSockets
  <2>1. CASE kind = "ws" /\ listed
    BY <1>7, <2>1, AwayTold DEF CloseSockets
  <2>2. CASE ~(kind = "ws" /\ listed)
    BY <1>7, <2>2 DEF CloseSockets, SocketToldInv, historyVars
  <2>3. QED
    BY <2>1, <2>2
<1>8. CASE Forget
  <2>1. TerminationSent /\ UNCHANGED viewVars
    BY <1>8 DEF Forget, TerminationSent
  <2>2. QED
    BY <2>1, SameViewTold
<1>9. CASE OpenSocket \/ OpenStream
  <2>1. PICK ids \in SUBSET Nat : Open(ids)
    BY <1>0, <1>9 DEF OpenSocket, OpenStream, ViewTypes
  <2>2. TerminationSent' <=> TerminationSent
    BY <2>1, TerminationSentStays DEF Open, sendVars
  <2>3. stage' = "registered" /\ listed' = TRUE /\ openedLate' = TerminationSent
    BY <2>1 DEF Open
  <2>4. QED
    BY <2>2, <2>3 DEF SocketToldInv
<1>10. CASE HearControl \/ SocketFails \/ IdleOut \/ Leave
  BY <1>10, AwayTold DEF HearControl, SocketFails, IdleOut, Leave
<1>11. CASE Subscribe \/ Replay \/ CheckStatus \/ Listen \/ Deliver \/ StreamFails
  <2>1. UNCHANGED sendVars /\ kind' = kind /\ listed' = listed /\ openedLate' = openedLate
    BY <1>11 DEF Subscribe, Replay, CheckStatus, Listen, Deliver, StreamFails, historyVars
  <2>2. TerminationSent' => TerminationSent
    BY <2>1, TerminationSentStays DEF sendVars
  <2>3. stage # "away" /\ stage' # "away"
    BY <1>11 DEF Subscribe, Replay, CheckStatus, Listen, Deliver, StreamFails
  <2>4. ASSUME kind = "ws", NEW e \in shown \cup ToSet(queue)
        PROVE  e \in shown' \cup ToSet(queue')
    <3>1. CASE Subscribe
      BY <2>4, <3>1 DEF Subscribe
    <3>2. CASE Replay
      <4> DEFINE missed == SubSeq(buffer, eventId + 1, Len(buffer))
      <4>1. missed \in Seq(Things)
        <5>1. Len(buffer) \in Nat /\ eventId + 1 \in Nat \ {0} /\ buffer \in Seq(Things)
          BY <1>0, LenProperties DEF SendTypes, ViewTypes, Things
        <5>2. QED
          BY <5>1
      <4>2. queue' = PutAll(queue, missed) /\ shown' = shown
        BY <3>2 DEF Replay
      <4> HIDE DEF missed
      <4>3. ToSet(queue) \cup ToSet(missed) \subseteq ToSet(PutAll(queue, missed))
        BY <1>0, <2>4, <4>1, PutAllKeeps DEF ViewTypes
      <4>4. QED
        BY <2>4, <4>2, <4>3
    <3>3. CASE CheckStatus
      <4>1. Synthesized \in Things
        BY DEF Things
      <4>2. QED
        BY <2>4, <3>3, <4>1, SocketQueueKeeps DEF CheckStatus
    <3>4. CASE Listen
      <4>1. Head(inbox) \in Things
        BY <1>0, <3>4, TakeHead DEF Listen, ViewTypes, Things
      <4>2. QED
        BY <2>4, <3>4, <4>1, SocketQueueKeeps DEF Listen
    <3>5. CASE Deliver
      <4>1. ToSet(queue) = {Head(queue)} \cup ToSet(Tail(queue))
        BY <1>0, <3>5, TakeHead DEF Deliver, ViewTypes
      <4>2. QED
        BY <2>4, <3>5, <4>1 DEF Deliver
    <3>6. CASE StreamFails
      BY <2>4, <3>6 DEF StreamFails
    <3>7. QED
      BY <1>11, <3>1, <3>2, <3>3, <3>4, <3>5, <3>6
  <2>5. Undisturbed
    BY <2>1, <2>3, <2>4 DEF Undisturbed
  <2>6. QED
    BY <2>2, <2>5, UndisturbedTold
<1>12. CASE UNCHANGED liveVars
  <2>1. UNCHANGED viewVars /\ UNCHANGED <<next, sending, teardown>>
    BY <1>12 DEF liveVars, viewVars, sendVars
  <2>2. QED
    BY <2>1, TerminationSentStays, SameViewTold
<1>13. QED
  BY <1>1, <1>2, <1>3, <1>4, <1>5, <1>6, <1>7, <1>8, <1>9, <1>10, <1>11, <1>12
     DEF LiveNext, LiveStep, SenderStep, TearDown, StreamStep, Push, BroadcastFails

LEMMA UntoldIsExcluded ==
  LiveTypes /\ SocketToldInv /\ [LiveNext]_liveVars => ~ClosedUntold
<1> SUFFICES ASSUME LiveTypes, SocketToldInv, [LiveNext]_liveVars, ClosedUntold PROVE FALSE
  OBVIOUS
<1>1. /\ teardown = "close" /\ teardown' = "forget" /\ listed /\ stage' = "away" /\ ~openedLate
      /\ ~Told("terminated", shown \cup ToSet(queue))
  BY DEF ClosedUntold
<1>2. kind # "ws"
  BY <1>1 DEF SocketToldInv, TerminationSent
<1>3. stage # "away"
  BY <1>1 DEF SocketToldInv
<1>4. CloseSockets
  <2>1. \A s \in Senders : ~Finished(s)
    BY <1>1 DEF Finished
  <2>2. QED
    BY <1>1, <2>1
       DEF LiveNext, LiveStep, SenderStep, TearDown, StreamStep, Conclude, Begin, SendLocally,
           Publish, Push, BroadcastFails, TellControl, Forget, OpenSocket, OpenStream, Open,
           Subscribe, Replay, CheckStatus, Listen, HearControl, Deliver, StreamFails, SocketFails,
           IdleOut, Leave, sendVars, liveVars
<1>5. QED
  BY <1>1, <1>2, <1>3, <1>4 DEF CloseSockets

(* "emit the termination broadcast FIRST while the websocket connections   *)
(* are still alive" (sessions.py:155): no socket is closed by a            *)
(* termination without having been sent the reason, or having it in what   *)
(* is being sent, unless it was opened after the broadcast.                *)
THEOREM SocketsAreToldWhy == LiveSpec => [][~ClosedUntold]_liveVars
<1>1. LiveInit => LiveTypes
  BY LiveTypesInit
<1>2. LiveInit => SocketToldInv
  BY DEF LiveInit, SocketToldInv
<1>3. LiveTypes /\ SocketToldInv /\ [LiveNext]_liveVars => LiveTypes' /\ SocketToldInv'
  BY LiveTypesStep, SocketToldStep
<1>4. LiveTypes /\ SocketToldInv /\ [LiveNext]_liveVars => [~ClosedUntold]_liveVars
  BY UntoldIsExcluded
<1>5. QED
  BY <1>1, <1>2, <1>3, <1>4, PTL DEF LiveSpec

-----------------------------------------------------------------------------
(* Live updates: how many a client can miss *)

(* What the senders have appended to the replay buffer. *)
Pushed == {e \in Updates : next[e[1]] > e[2]}
Gone == Pushed \ ToSet(buffer)

(* Each append adds one to what was pushed, and a trimmed buffer loses one.*)
PushedInv ==
  liveFaults = 0 =>
    /\ IsFiniteSet(Pushed) /\ Cardinality(Pushed) <= pushes
    /\ IsFiniteSet(Gone) /\ Cardinality(Gone) <= pushes - Len(buffer)

FreshInv == stage \in {"registered", "subscribed"} /\ fresh => eventId = 0

Watching == stage \in {"replayed", "live"} /\ fresh /\ ~squeezed /\ liveFaults = 0
MissedOf(s) == {e \in Missed : e[1] = s}
GapInv ==
  Watching => \A s \in Senders : /\ IsFiniteSet(MissedOf(s))
                                 /\ Cardinality(MissedOf(s)) <= 1 + early

(* A set that gains at most one element. *)
LEMMA OneMore ==
  ASSUME NEW S, NEW T, NEW x, IsFiniteSet(S), \A e \in T : e \in S \/ e = x
  PROVE  /\ IsFiniteSet(T) /\ Cardinality(S) \in Nat /\ Cardinality(T) \in Nat
         /\ Cardinality(T) <= Cardinality(S) + 1
<1> DEFINE U == S \cup {x}
<1>1. /\ IsFiniteSet(U) /\ Cardinality(S) \in Nat
      /\ Cardinality(U) = IF x \in S THEN Cardinality(S) ELSE Cardinality(S) + 1
  BY FS_AddElement, FS_CardinalityType
<1>2. T \subseteq U
  OBVIOUS
<1>3. IsFiniteSet(T) /\ Cardinality(T) <= Cardinality(U)
  BY <1>1, <1>2, FS_Subset
<1>4. Cardinality(T) \in Nat
  BY <1>3, FS_CardinalityType
<1> HIDE DEF U
<1>5. QED
  BY <1>1, <1>3, <1>4

LEMMA NoMore ==
  ASSUME NEW S, NEW T, IsFiniteSet(S), \A e \in T : e \in S
  PROVE  /\ IsFiniteSet(T) /\ Cardinality(S) \in Nat /\ Cardinality(T) \in Nat
         /\ Cardinality(T) <= Cardinality(S)
<1>1. T \subseteq S
  OBVIOUS
<1>2. QED
  BY <1>1, FS_Subset, FS_CardinalityType

LEMMA PushedSame ==
  ASSUME PushedInv, UNCHANGED <<next, buffer, pushes>>, liveFaults' = 0 => liveFaults = 0
  PROVE  PushedInv'
<1>1. Pushed' = Pushed
  BY DEF Pushed, Updates
<1>2. ToSet(buffer)' = ToSet(buffer)
  OBVIOUS
<1>3. Gone' = Gone
  BY <1>1, <1>2 DEF Gone
<1>4. QED
  BY <1>1, <1>3 DEF PushedInv

LEMMA PushedGrows ==
  ASSUME LiveTypes, NEW s \in Senders, next' = [next EXCEPT ![s] = @ + 1]
  PROVE  \A e \in Pushed' : e \in Pushed \/ e = Current(s)
<1>1. SUFFICES ASSUME NEW e \in Pushed', e \notin Pushed PROVE e = Current(s)
  OBVIOUS
<1>2. e \in Updates /\ next'[e[1]] > e[2]
  BY <1>1 DEF Pushed, Updates
<1>3. PICK r \in Senders : \E n \in 1 .. Len(Script[r]) : e = <<r, n>>
  BY <1>2 DEF Updates
<1>4. PICK n \in 1 .. Len(Script[r]) : e = <<r, n>>
  BY <1>3
<1>5. n \in Nat
  BY <1>4, ScriptsAreSequences
<1>6. next'[r] > n /\ ~(next[r] > n)
  BY <1>1, <1>2, <1>4 DEF Pushed
<1>7. next[r] \in Nat /\ next[s] \in Nat /\ next'[s] = next[s] + 1 /\ (r # s => next'[r] = next[r])
  BY DEF LiveTypes, SendTypes
<1>8. r = s
  BY <1>6, <1>7
<1>9. n = next[s]
  BY <1>5, <1>6, <1>7, <1>8
<1>10. QED
  BY <1>4, <1>8, <1>9 DEF Current

LEMMA PushedStep == LiveTypes /\ PushedInv /\ [LiveNext]_liveVars => PushedInv'
<1> SUFFICES ASSUME LiveTypes, PushedInv, [LiveNext]_liveVars PROVE PushedInv'
  OBVIOUS
<1>0. /\ buffer \in Seq(Updates) /\ pushes \in Nat /\ Len(buffer) \in Nat /\ liveFaults \in Nat
      /\ leaves \in Nat
  BY LenProperties DEF LiveTypes, SendTypes, MishapTypes
<1>1. ASSUME NEW s \in Senders, Push(s), liveFaults = 0 PROVE PushedInv'
  <2> DEFINE longer == Append(buffer, Current(s))
             p == Pushed'
             g == Gone'
             b == ToSet(buffer)'
  <2>1. Current(s) \in Updates
    BY <1>1, CurrentIsUpdate DEF Push
  <2>2. /\ longer \in Seq(Updates) /\ Len(longer) = Len(buffer) + 1 /\ longer # <<>>
        /\ ToSet(longer) = ToSet(buffer) \cup {Current(s)}
    BY <1>0, <2>1, AddLast
  <2>3. \A e \in p : e \in Pushed \/ e = Current(s)
    BY <1>1, PushedGrows DEF Push, Finished
  <2>4. /\ IsFiniteSet(Pushed) /\ Cardinality(Pushed) <= pushes
        /\ IsFiniteSet(Gone) /\ Cardinality(Gone) <= pushes - Len(buffer)
    BY <1>1 DEF PushedInv
  <2>5. pushes' = pushes + 1 /\ liveFaults' = 0
    BY <1>1 DEF Push
  <2>6. g = p \ b
    BY DEF Gone
  <2>7. buffer' = IF Len(longer) > BufferMax THEN Tail(longer) ELSE longer
    BY <1>1 DEF Push
  <2> HIDE DEF p, g, b, longer
  <2>8. IsFiniteSet(p) /\ Cardinality(p) <= pushes'
    <3>1. /\ IsFiniteSet(p) /\ Cardinality(p) \in Nat /\ Cardinality(Pushed) \in Nat
          /\ Cardinality(p) <= Cardinality(Pushed) + 1
      BY <2>3, <2>4, OneMore
    <3>2. QED
      BY <1>0, <2>4, <2>5, <3>1
  <2>9. CASE Len(longer) > BufferMax
    <3>1. /\ Len(buffer') = Len(buffer) /\ ToSet(longer) = {Head(longer)} \cup b
      <4>1. /\ ToSet(longer) = {Head(longer)} \cup ToSet(Tail(longer))
            /\ Len(Tail(longer)) = Len(longer) - 1
        BY <2>2, TakeHead
      <4>2. buffer' = Tail(longer)
        BY <2>7, <2>9
      <4>3. QED
        BY <1>0, <2>2, <4>1, <4>2 DEF b
    <3>2. \A e \in g : e \in Gone \/ e = Head(longer)
      BY <2>2, <2>3, <2>6, <3>1 DEF Gone
    <3>3. /\ IsFiniteSet(g) /\ Cardinality(g) \in Nat /\ Cardinality(Gone) \in Nat
          /\ Cardinality(g) <= Cardinality(Gone) + 1
      BY <2>4, <3>2, OneMore
    <3>4. Cardinality(g) <= pushes' - Len(buffer')
      BY <1>0, <2>4, <2>5, <3>1, <3>3
    <3>5. QED
      BY <2>8, <3>3, <3>4 DEF PushedInv, p, g
  <2>10. CASE ~(Len(longer) > BufferMax)
    <3>1. buffer' = longer
      BY <2>7, <2>10
    <3>2. Len(buffer') = Len(buffer) + 1 /\ b = ToSet(buffer) \cup {Current(s)}
      BY <2>2, <3>1 DEF b
    <3>3. \A e \in g : e \in Gone
      BY <2>3, <2>6, <3>2 DEF Gone
    <3>4. /\ IsFiniteSet(g) /\ Cardinality(g) \in Nat /\ Cardinality(Gone) \in Nat
          /\ Cardinality(g) <= Cardinality(Gone)
      BY <2>4, <3>3, NoMore
    <3>5. Cardinality(g) <= pushes' - Len(buffer')
      BY <1>0, <2>4, <2>5, <3>2, <3>4
    <3>6. QED
      BY <2>8, <3>4, <3>5 DEF PushedInv, p, g
  <2>11. QED
    BY <2>9, <2>10
<1>2. CASE Forget /\ buffer' = <<>> /\ liveFaults = 0
  <2>1. next' = next /\ pushes' = pushes
    BY <1>2 DEF Forget
  <2>2. Pushed' = Pushed
    BY <2>1 DEF Pushed, Updates
  <2>3. Gone' = Pushed /\ Len(buffer') = 0
    <3>1. ToSet(buffer)' = {}
      BY <1>2, EmptyQueue
    <3>2. QED
      BY <1>2, <2>2, <3>1, EmptyQueue DEF Gone
  <2>4. IsFiniteSet(Pushed) /\ Cardinality(Pushed) <= pushes /\ Cardinality(Pushed) \in Nat
    BY <1>2, FS_CardinalityType DEF PushedInv
  <2>5. QED
    BY <1>0, <2>1, <2>2, <2>3, <2>4 DEF PushedInv
<1>3. CASE Forget /\ buffer' = buffer
  BY <1>0, <1>3, PushedSame DEF Forget, LiveFault
<1>4. ASSUME NEW s \in Senders, BroadcastFails(s) PROVE PushedInv'
  BY <1>0, <1>4 DEF BroadcastFails, LiveFault, PushedInv
<1>5. CASE Forget
  <2>1. buffer' = buffer \/ buffer' = <<>>
    BY <1>5 DEF Forget
  <2>2. CASE liveFaults # 0
    BY <1>0, <1>5, <2>2 DEF Forget, LiveFault, PushedInv
  <2>3. QED
    BY <1>2, <1>3, <1>5, <2>1, <2>2
<1>6. ASSUME NEW s \in Senders, Push(s), liveFaults # 0 PROVE PushedInv'
  BY <1>6 DEF Push, PushedInv
<1>7. CASE /\ UNCHANGED <<next, buffer, pushes>>
           /\ liveFaults' \in {liveFaults, liveFaults + 1}
  BY <1>0, <1>7, PushedSame
<1>8. QED
  <2>1. CASE \E s \in Senders : Push(s) \/ BroadcastFails(s)
    BY <1>1, <1>4, <1>6, <2>1
  <2>2. CASE Forget
    BY <1>5, <2>2
  <2>3. CASE \E s \in Senders : Begin(s) \/ SendLocally(s) \/ Publish(s)
    BY <1>7, <2>3 DEF Begin, SendLocally, Publish
  <2>4. CASE Conclude \/ TellControl \/ CloseSockets
    BY <1>7, <2>4 DEF Conclude, TellControl, CloseSockets, LiveFault
  <2>5. CASE OpenSocket \/ OpenStream \/ StreamFails \/ SocketFails \/ IdleOut \/ Leave \/ StreamStep
    BY <1>7, <2>5 DEF OpenSocket, OpenStream, Open, StreamFails, SocketFails, IdleOut, Leave, StreamStep,
                      Subscribe, Replay, CheckStatus, Listen, HearControl, Deliver, LiveFault, sendVars
  <2>6. CASE UNCHANGED liveVars
    BY <1>7, <2>6 DEF liveVars, sendVars
  <2>7. QED
    BY <2>1, <2>2, <2>3, <2>4, <2>5, <2>6 DEF LiveNext, LiveStep, SenderStep, TearDown

LEMMA FreshStep == LiveTypes /\ FreshInv /\ [LiveNext]_liveVars => FreshInv'
<1> SUFFICES ASSUME LiveTypes, FreshInv, [LiveNext]_liveVars PROVE FreshInv'
  OBVIOUS
<1>1. CASE \E s \in Senders : SenderStep(s) \/ BroadcastFails(s)
  BY <1>1 DEF SenderStep, BroadcastFails, Begin, SendLocally, Publish, Push, FreshInv, viewVars, historyVars
<1>2. CASE Conclude \/ TearDown
  BY <1>2 DEF Conclude, TearDown, TellControl, CloseSockets, Forget, Away, FreshInv, viewVars, historyVars
<1>3. CASE OpenSocket \/ OpenStream
  BY <1>3 DEF OpenSocket, OpenStream, Open, FreshInv
<1>4. CASE StreamStep
  BY <1>4 DEF StreamStep, Subscribe, Replay, CheckStatus, Listen, HearControl, Deliver, Away, FreshInv,
              LiveTypes, ViewTypes, historyVars
<1>5. CASE StreamFails \/ SocketFails \/ IdleOut \/ Leave
  BY <1>5 DEF StreamFails, SocketFails, IdleOut, Leave, Away, FreshInv
<1>6. CASE UNCHANGED liveVars
  BY <1>6 DEF liveVars, viewVars, historyVars, FreshInv
<1>7. QED
  BY <1>1, <1>2, <1>3, <1>4, <1>5, <1>6 DEF LiveNext, LiveStep

-----------------------------------------------------------------------------

Has(e) == e \in ToSet(inbox) \cup ToSet(queue) \cup shown

(* A step of a client that watches after which it misses nothing more.     *)
MissesNoMore ==
  /\ kind' = kind /\ early' = early
  /\ \A e \in Updates : (kind = "ws" \/ Critical(e)) /\ Has(e) => Has(e)'
  /\ \A e \in Updates : (kind = "ws" \/ Critical(e)) /\ Published(e)' => Published(e) \/ Has(e)'

LEMMA MissedShrinks ==
  ASSUME LiveTypes, GapInv, Watching, MissesNoMore
  PROVE  GapInv'
<1>1. \A e : e \in Missed' <=> /\ e \in Updates /\ Published(e)' /\ (kind' = "ws" \/ Critical(e))
                               /\ ~Has(e)'
  BY DEF Missed, Has, Critical, TypeOf, Updates
<1>2. \A e : e \in Missed <=> /\ e \in Updates /\ Published(e) /\ (kind = "ws" \/ Critical(e))
                              /\ ~Has(e)
  BY DEF Missed, Has
<1>3. \A e \in Missed' : e \in Missed
  BY <1>1, <1>2 DEF MissesNoMore
<1>4. ASSUME NEW s \in Senders
      PROVE  /\ IsFiniteSet(MissedOf(s)') /\ Cardinality(MissedOf(s)') <= 1 + early'
  <2> DEFINE m == MissedOf(s)'
  <2>1. \A e \in m : e \in MissedOf(s)
    BY <1>3 DEF MissedOf
  <2>2. IsFiniteSet(MissedOf(s)) /\ Cardinality(MissedOf(s)) <= 1 + early
    BY DEF GapInv
  <2> HIDE DEF m
  <2>3. /\ IsFiniteSet(m) /\ Cardinality(m) \in Nat /\ Cardinality(MissedOf(s)) \in Nat
        /\ Cardinality(m) <= Cardinality(MissedOf(s))
    BY <2>1, <2>2, NoMore
  <2>4. early' = early /\ early \in Nat
    BY DEF MissesNoMore, LiveTypes, ViewTypes
  <2>5. IsFiniteSet(m) /\ Cardinality(m) <= 1 + early'
    BY <2>2, <2>3, <2>4
  <2>6. QED
    BY <2>5 DEF m
<1>5. QED
  BY <1>4 DEF GapInv

LEMMA PublishedSame ==
  ASSUME LiveTypes, LiveTypes', NEW t \in Senders,
         \A r \in Senders : r # t => next'[r] = next[r] /\ sending'[r] = sending[r],
         \/ next'[t] = next[t] /\ (sending'[t] = "push" => sending[t] = "push")
         \/ sending[t] = "push" /\ next'[t] = next[t] + 1 /\ sending'[t] = "ready"
  PROVE  \A e \in Updates : Published(e)' => Published(e)
<1>1. SUFFICES ASSUME NEW s \in Senders, NEW n \in 1 .. Len(Script[s]), Published(<<s, n>>)'
               PROVE  Published(<<s, n>>)
  BY DEF Updates
<1>2. n \in Nat /\ next[s] \in Nat /\ next[t] \in Nat
  BY ScriptsAreSequences DEF LiveTypes, SendTypes
<1>3. next'[s] > n \/ (n = next'[s] /\ sending'[s] = "push")
  BY <1>1 DEF Published, Current
<1>4. next[s] > n \/ (n = next[s] /\ sending[s] = "push")
  BY <1>2, <1>3
<1>5. QED
  BY <1>4 DEF Published, Current

LEMMA SendersSame ==
  ASSUME UNCHANGED <<next, sending>>
  PROVE  \A e \in Updates : Published(e)' => Published(e)
  BY DEF Published, Current

LEMMA QueueHas ==
  ASSUME LiveTypes, NEW x \in Things, ~Squeezes(queue, x)
  PROVE  \A e \in ToSet(queue) \cup {x} :
           kind = "ws" \/ Critical(e) => e \in ToSet(Put(queue, x))
<1>1. /\ Kept(queue) \subseteq ToSet(Put(queue, x))
      /\ kind = "ws" => x \in ToSet(Put(queue, x))
  BY PutKeeps DEF LiveTypes, ViewTypes
<1>2. Critical(x) => x \in ToSet(Put(queue, x))
  BY DEF Squeezes
<1>3. QED
  BY <1>1, <1>2 DEF Kept

(* At the replay a client misses what is no more in the buffer, and what   *)
(* was published before it subscribed and is not appended yet.             *)
LEMMA ReplayGap ==
  ASSUME LiveTypes, LiveTypes', PushedInv, FreshInv, Replay
  PROVE  GapInv'
<1>1. SUFFICES ASSUME Watching' PROVE GapInv'
  BY DEF GapInv
<1>2. fresh /\ ~squeezed' /\ liveFaults = 0 /\ eventId = 0
  BY <1>1 DEF Watching, Replay, FreshInv
<1>3. buffer \in Seq(Updates) /\ Len(buffer) \in Nat /\ pushes \in Nat /\ buffer \in Seq(Things)
  BY LenProperties DEF LiveTypes, SendTypes, Things
<1>4. SubSeq(buffer, eventId + 1, Len(buffer)) = buffer
  <2>1. eventId + 1 = 1
    BY <1>2
  <2>2. QED
    BY <1>3, <2>1
<1>5. \A e \in Updates : e \in ToSet(buffer) /\ (kind = "ws" \/ Critical(e)) => e \in ToSet(queue')
  <2>1. queue' = PutAll(queue, buffer)
    BY <1>4 DEF Replay
  <2>2. kind = "ws" => ToSet(buffer) \subseteq ToSet(queue')
    BY <1>3, <2>1, PutAllKeeps DEF LiveTypes, ViewTypes
  <2>3. \A e \in ToSet(queue \o buffer) : Critical(e) => e \in ToSet(queue')
    BY <1>2, <1>4 DEF Replay
  <2>4. ToSet(buffer) \subseteq ToSet(queue \o buffer)
    <3> DEFINE c == queue \o buffer
    <3>1. queue \in Seq(Things) /\ Len(queue) \in Nat
      BY LenProperties DEF LiveTypes, ViewTypes
    <3>2. /\ c \in Seq(Things) /\ Len(c) = Len(queue) + Len(buffer)
          /\ \A i \in 1 .. Len(queue) + Len(buffer) :
               c[i] = IF i <= Len(queue) THEN queue[i] ELSE buffer[i - Len(queue)]
      BY <1>3, <3>1, ConcatProperties
    <3> HIDE DEF c
    <3>3. DOMAIN c = 1 .. Len(queue) + Len(buffer) /\ DOMAIN buffer = 1 .. Len(buffer)
      BY <1>3, <3>2, LenProperties
    <3>4. ASSUME NEW i \in 1 .. Len(buffer) PROVE buffer[i] \in ToSet(c)
      <4>1. /\ Len(queue) + i \in 1 .. Len(queue) + Len(buffer)
            /\ ~(Len(queue) + i <= Len(queue)) /\ (Len(queue) + i) - Len(queue) = i
        BY <1>3, <3>1
      <4>2. c[Len(queue) + i] = buffer[i]
        BY <3>2, <4>1
      <4>3. QED
        BY <3>3, <4>1, <4>2 DEF ToSet
    <3>5. QED
      BY <3>3, <3>4 DEF ToSet, c
  <2>5. QED
    BY <2>2, <2>3, <2>4
<1>6. ASSUME NEW s \in Senders
      PROVE  IsFiniteSet(MissedOf(s)') /\ Cardinality(MissedOf(s)') <= 1 + early'
  <2> DEFINE m == MissedOf(s)'
  <2>1. \A e \in m : e \in Gone \/ e = Current(s)
    <3>1. SUFFICES ASSUME NEW e \in m PROVE e \in Gone \/ e = Current(s)
      OBVIOUS
    <3>2. /\ e \in Updates /\ Published(e)' /\ (kind' = "ws" \/ Critical(e)) /\ e[1] = s
          /\ e \notin ToSet(queue')
      BY <3>1 DEF MissedOf, Missed, Critical, TypeOf, Updates
    <3>3. kind' = kind /\ UNCHANGED <<next, sending>>
      BY DEF Replay, sendVars
    <3>4. e \notin ToSet(buffer)
      BY <1>5, <3>2, <3>3
    <3>5. next[e[1]] > e[2] \/ e = Current(s)
      BY <3>2, <3>3 DEF Published, Current
    <3>6. QED
      BY <3>2, <3>4, <3>5 DEF Gone, Pushed
  <2>2. IsFiniteSet(Gone) /\ Cardinality(Gone) <= pushes - Len(buffer)
    BY <1>2 DEF PushedInv
  <2>3. early' = pushes - Len(buffer)
    BY DEF Replay
  <2> HIDE DEF m
  <2>4. /\ IsFiniteSet(m) /\ Cardinality(m) \in Nat /\ Cardinality(Gone) \in Nat
        /\ Cardinality(m) <= Cardinality(Gone) + 1
    BY <2>1, <2>2, OneMore
  <2>5. IsFiniteSet(m) /\ Cardinality(m) <= 1 + early'
    BY <1>3, <2>2, <2>3, <2>4
  <2>6. QED
    BY <2>5 DEF m
<1>7. QED
  BY <1>6 DEF GapInv

LEMMA GapStep ==
  LiveTypes /\ LiveTypes' /\ PushedInv /\ FreshInv /\ GapInv /\ [LiveNext]_liveVars => GapInv'
<1> SUFFICES ASSUME LiveTypes, LiveTypes', PushedInv, FreshInv, GapInv, [LiveNext]_liveVars
             PROVE  GapInv'
  OBVIOUS
<1>0. /\ liveFaults \in Nat /\ leaves \in Nat /\ kind \in {"sse", "ws"}
      /\ sending \in [Senders -> {"ready", "local", "publish", "push"}]
      /\ next \in [Senders -> Nat \ {0}]
      /\ inbox \in Seq(Updates \cup {Control}) /\ queue \in Seq(Things)
  BY DEF LiveTypes, SendTypes, ViewTypes, MishapTypes
<1>1. SUFFICES ASSUME Watching' PROVE GapInv'
  BY DEF GapInv
<1>2. stage' \in {"replayed", "live"} /\ fresh' /\ ~squeezed' /\ liveFaults' = 0
  BY <1>1 DEF Watching
<1>3. CASE Replay
  BY <1>3, ReplayGap
<1>4. ASSUME NEW s \in Senders, Begin(s) PROVE GapInv'
  <2>1. Watching /\ UNCHANGED <<kind, early, inbox, queue, shown>> /\ next' = next
    BY <1>2, <1>4 DEF Watching, Begin, viewVars, historyVars
  <2>2. \A r \in Senders : r # s => sending'[r] = sending[r]
    BY <1>0, <1>4 DEF Begin, Step
  <2>3. sending'[s] # "push"
    BY <1>0, <1>4 DEF Begin, Step
  <2>4. \A e \in Updates : Published(e)' => Published(e)
    BY <2>1, <2>2, <2>3, PublishedSame
  <2>5. MissesNoMore
    BY <2>1, <2>4 DEF MissesNoMore, Has
  <2>6. QED
    BY <2>1, <2>5, MissedShrinks
<1>5. ASSUME NEW s \in Senders, SendLocally(s) PROVE GapInv'
  <2>1. Watching /\ UNCHANGED <<kind, early, inbox, shown, next>>
    <3>1. UNCHANGED <<kind, early, inbox, shown, next>>
      BY <1>5 DEF SendLocally
    <3>2. stage \in {"replayed", "live"} /\ liveFaults = 0
      BY <1>2, <1>5 DEF SendLocally
    <3>3. fresh
      BY <1>2, <1>5 DEF SendLocally
    <3>4. ~squeezed
      BY <1>2, <1>5 DEF SendLocally
    <3>5. QED
      BY <3>1, <3>2, <3>3, <3>4 DEF Watching
  <2>2. \A r \in Senders : r # s => sending'[r] = sending[r]
    BY <1>0, <1>5 DEF SendLocally, Step
  <2>3. sending'[s] # "push"
    BY <1>0, <1>5 DEF SendLocally, Step
  <2>4. \A e \in Updates : Published(e)' => Published(e)
    BY <2>1, <2>2, <2>3, PublishedSame
  <2>5. Current(s) \in Things
    BY <1>5, CurrentIsUpdate DEF SendLocally, Things
  <2>6. \A e \in ToSet(queue) : kind = "ws" \/ Critical(e) => e \in ToSet(queue')
    <3>1. CASE ~listed
      BY <1>5, <3>1 DEF SendLocally
    <3>2. CASE listed
      <4>1. ~Squeezes(queue, Current(s)) /\ queue' = Put(queue, Current(s))
        BY <1>2, <1>5, <3>2 DEF SendLocally
      <4>2. QED
        BY <2>5, <4>1, QueueHas
    <3>3. QED
      BY <3>1, <3>2
  <2>7. MissesNoMore
    BY <2>1, <2>4, <2>6 DEF MissesNoMore, Has
  <2>8. QED
    BY <2>1, <2>7, MissedShrinks
<1>6. ASSUME NEW s \in Senders, Publish(s) PROVE GapInv'
  <2>1. Watching /\ UNCHANGED <<kind, early, queue, shown>> /\ next' = next /\ stage \in {"replayed", "live"}
    BY <1>2, <1>6 DEF Watching, Publish, historyVars
  <2>2. inbox' = Append(inbox, Current(s))
    BY <1>6, <2>1 DEF Publish
  <2>3. Current(s) \in Updates
    BY <1>6, CurrentIsUpdate DEF Publish
  <2>4. ToSet(inbox') = ToSet(inbox) \cup {Current(s)}
    BY <1>0, <2>2, <2>3, AddLast
  <2>5. \A r \in Senders : r # s => sending'[r] = sending[r]
    BY <1>0, <1>6 DEF Publish, Step
  <2>6. ASSUME NEW e \in Updates, Published(e)' PROVE Published(e) \/ Has(e)'
    <3>1. CASE e = Current(s)
      BY <2>4, <3>1 DEF Has
    <3>2. CASE e # Current(s)
      <4>1. e[1] \in Senders
        BY DEF Updates
      <4>2. next[e[1]] > e[2] \/ (e = Current(e[1]) /\ sending'[e[1]] = "push")
        BY <2>1, <2>6 DEF Published, Current
      <4>3. e = Current(e[1]) => e[1] # s
        BY <3>2
      <4>4. QED
        BY <2>5, <4>1, <4>2, <4>3 DEF Published
    <3>3. QED
      BY <3>1, <3>2
  <2>7. MissesNoMore
    BY <2>1, <2>4, <2>6 DEF MissesNoMore, Has
  <2>8. QED
    BY <2>1, <2>7, MissedShrinks
<1>7. ASSUME NEW s \in Senders, Push(s) PROVE GapInv'
  <2>1. Watching /\ UNCHANGED <<kind, early, inbox, queue, shown>>
    BY <1>2, <1>7 DEF Watching, Push, viewVars, historyVars
  <2>2. /\ \A r \in Senders : r # s => next'[r] = next[r] /\ sending'[r] = sending[r]
        /\ sending[s] = "push" /\ next'[s] = next[s] + 1 /\ sending'[s] = "ready"
    BY <1>0, <1>7 DEF Push, Finished, Step
  <2>3. \A e \in Updates : Published(e)' => Published(e)
    BY <2>2, PublishedSame
  <2>4. MissesNoMore
    BY <2>1, <2>3 DEF MissesNoMore, Has
  <2>5. QED
    BY <2>1, <2>4, MissedShrinks
<1>8. ASSUME NEW s \in Senders, BroadcastFails(s) PROVE GapInv'
  BY <1>0, <1>2, <1>8 DEF BroadcastFails, LiveFault
<1>9. CASE TellControl
  <2>1. Watching /\ UNCHANGED <<kind, early, queue, shown, next, sending>>
    BY <1>0, <1>2, <1>9 DEF Watching, TellControl, LiveFault, historyVars
  <2>2. \A e \in ToSet(inbox) : e \in ToSet(inbox')
    <3>1. inbox' = Append(inbox, Control) \/ inbox' = inbox
      BY <1>9 DEF TellControl
    <3>2. ToSet(Append(inbox, Control)) = ToSet(inbox) \cup {Control}
      BY <1>0, AddLast
    <3>3. QED
      BY <3>1, <3>2
  <2>3. MissesNoMore
    BY <2>1, <2>2, SendersSame DEF MissesNoMore, Has
  <2>4. QED
    BY <2>1, <2>3, MissedShrinks
<1>10. CASE Conclude \/ Forget \/ (CloseSockets /\ stage' = stage)
  <2>1. Watching /\ UNCHANGED <<kind, early, inbox, queue, shown, next, sending>>
    <3>1. CASE Conclude
      BY <1>2, <3>1 DEF Watching, Conclude, viewVars, historyVars
    <3>2. CASE Forget
      BY <1>0, <1>2, <3>2 DEF Watching, Forget, LiveFault, viewVars, historyVars
    <3>3. CASE CloseSockets /\ stage' = stage
      <4>1. ~(kind = "ws" /\ listed)
        BY <1>2, <3>3 DEF CloseSockets, Away
      <4>2. QED
        BY <1>2, <3>3, <4>1 DEF Watching, CloseSockets, historyVars
    <3>4. QED
      BY <1>10, <3>1, <3>2, <3>3
  <2>2. MissesNoMore
    BY <2>1, SendersSame DEF MissesNoMore, Has
  <2>3. QED
    BY <2>1, <2>2, MissedShrinks
<1>11. CASE CloseSockets /\ stage' # stage
  BY <1>2, <1>11 DEF CloseSockets, Away
<1>12. CASE CheckStatus
  <2>1. Watching /\ UNCHANGED <<kind, early, inbox, shown, next, sending>>
    <3>1. UNCHANGED <<kind, early, inbox, shown, next, sending>>
      BY <1>12 DEF CheckStatus, sendVars
    <3>2. stage \in {"replayed", "live"} /\ liveFaults = 0
      BY <1>2, <1>12 DEF CheckStatus, sendVars
    <3>3. fresh
      BY <1>2, <1>12 DEF CheckStatus, sendVars
    <3>4. ~squeezed
      BY <1>2, <1>12 DEF CheckStatus, sendVars
    <3>5. QED
      BY <3>1, <3>2, <3>3, <3>4 DEF Watching
  <2>2. \A e \in ToSet(queue) : kind = "ws" \/ Critical(e) => e \in ToSet(queue')
    <3>1. CASE queue' = queue
      BY <3>1
    <3>2. CASE queue' # queue
      <4>1. ~Squeezes(queue, Synthesized) /\ queue' = Put(queue, Synthesized) /\ Synthesized \in Things
        BY <1>2, <1>12, <3>2 DEF CheckStatus, Things
      <4>2. QED
        BY <4>1, QueueHas
    <3>3. QED
      BY <3>1, <3>2
  <2>3. MissesNoMore
    BY <2>1, <2>2, SendersSame DEF MissesNoMore, Has
  <2>4. QED
    BY <2>1, <2>3, MissedShrinks
<1>13. CASE Listen
  <2>1. Watching /\ UNCHANGED <<kind, early, shown, next, sending>>
    <3>1. UNCHANGED <<kind, early, shown, next, sending>>
      BY <1>13 DEF Listen, sendVars
    <3>2. stage \in {"replayed", "live"} /\ liveFaults = 0
      BY <1>2, <1>13 DEF Listen, sendVars
    <3>3. fresh
      BY <1>2, <1>13 DEF Listen, sendVars
    <3>4. ~squeezed
      BY <1>2, <1>13 DEF Listen, sendVars
    <3>5. QED
      BY <3>1, <3>2, <3>3, <3>4 DEF Watching
  <2>2. Head(inbox) \in Updates /\ ToSet(inbox) = {Head(inbox)} \cup ToSet(Tail(inbox))
    BY <1>0, <1>13, TakeHead DEF Listen
  <2>3. ~Squeezes(queue, Head(inbox)) /\ queue' = Put(queue, Head(inbox)) /\ inbox' = Tail(inbox)
    BY <1>2, <1>13 DEF Listen
  <2>4. \A e \in ToSet(queue) \cup {Head(inbox)} : kind = "ws" \/ Critical(e) => e \in ToSet(queue')
    BY <2>2, <2>3, QueueHas DEF Things
  <2>5. ToSet(inbox') = ToSet(Tail(inbox))
    BY <2>3
  <2>6. \A e \in Updates : (kind = "ws" \/ Critical(e)) /\ Has(e) => Has(e)'
    BY <2>1, <2>2, <2>4, <2>5 DEF Has
  <2>7. MissesNoMore
    BY <2>1, <2>6, SendersSame DEF MissesNoMore
  <2>8. QED
    BY <2>1, <2>7, MissedShrinks
<1>14. CASE Deliver
  <2>1. Watching /\ UNCHANGED <<kind, early, inbox, next, sending>>
    BY <1>2, <1>14 DEF Watching, Deliver, sendVars, historyVars
  <2>2. ToSet(queue) = {Head(queue)} \cup ToSet(Tail(queue))
    BY <1>0, <1>14, TakeHead DEF Deliver
  <2>3. queue' = Tail(queue) /\ shown' = shown \cup {Head(queue)}
    BY <1>14 DEF Deliver
  <2>4. ToSet(queue') = ToSet(Tail(queue))
    BY <2>3
  <2>5. MissesNoMore
    BY <2>1, <2>2, <2>3, <2>4, SendersSame DEF MissesNoMore, Has
  <2>6. QED
    BY <2>1, <2>5, MissedShrinks
<1>15. CASE Subscribe \/ HearControl \/ OpenSocket \/ OpenStream \/ StreamFails \/ SocketFails \/ IdleOut \/ Leave
  BY <1>2, <1>15 DEF Subscribe, HearControl, OpenSocket, OpenStream, Open, StreamFails, SocketFails,
                     IdleOut, Leave, Away
<1>16. CASE UNCHANGED liveVars
  <2>1. Watching /\ UNCHANGED <<kind, early, inbox, queue, shown, next, sending>>
    BY <1>2, <1>16 DEF Watching, liveVars, sendVars, viewVars, historyVars
  <2>2. MissesNoMore
    BY <2>1, SendersSame DEF MissesNoMore, Has
  <2>3. QED
    BY <2>1, <2>2, MissedShrinks
<1>17. QED
  BY <1>3, <1>4, <1>5, <1>6, <1>7, <1>8, <1>9, <1>10, <1>11, <1>12, <1>13, <1>14, <1>15, <1>16
     DEF LiveNext, LiveStep, SenderStep, TearDown, StreamStep

LEMMA GapInit == LiveInit => PushedInv /\ FreshInv /\ GapInv
<1>1. SUFFICES ASSUME LiveInit PROVE PushedInv /\ FreshInv /\ GapInv
  OBVIOUS
<1>2. \A e \in Updates : ~(next[e[1]] > e[2])
  <2>1. SUFFICES ASSUME NEW s \in Senders, NEW n \in 1 .. Len(Script[s]) PROVE ~(next[s] > n)
    BY DEF Updates
  <2>2. n \in Nat \ {0} /\ next[s] = 1
    BY <1>1, ScriptsAreSequences DEF LiveInit
  <2>3. QED
    BY <2>2
<1>3. Pushed = {} /\ Gone = {}
  BY <1>2 DEF Pushed, Gone
<1>4. pushes = 0 /\ Len(buffer) = 0 /\ stage = "away"
  BY <1>1, EmptyQueue DEF LiveInit
<1>5. QED
  BY <1>3, <1>4, FS_EmptySet DEF PushedInv, FreshInv, GapInv, Watching

(* Between SUBSCRIBE and LRANGE a client whose stream began at the start   *)
(* of the buffer misses at most one update of each sender, besides those   *)
(* trimmed off or deleted before it read.                                  *)
THEOREM GapStaysNarrow == LiveSpec => []GapIsNarrow
<1>1. LiveInit => LiveTypes /\ PushedInv /\ FreshInv /\ GapInv
  BY LiveTypesInit, GapInit
<1>2. LiveTypes /\ PushedInv /\ FreshInv /\ GapInv /\ [LiveNext]_liveVars
        => LiveTypes' /\ PushedInv' /\ FreshInv' /\ GapInv'
  BY LiveTypesStep, PushedStep, FreshStep, GapStep
<1>3. GapInv => GapIsNarrow
  BY DEF GapInv, GapIsNarrow, Watching, MissedOf
<1>4. QED
  BY <1>1, <1>2, <1>3, PTL DEF LiveSpec

=============================================================================
