--------------------------- MODULE SessionOutcome ---------------------------
(***************************************************************************)
(* How one session ends (session_finalization.py, session_persistence.py,  *)
(* the handler of worker.py, terminate_session and the polling endpoint of *)
(* sessions.py, the restart recovery of lifespan.py), in worker mode.      *)
(*                                                                         *)
(* Worker and API share no memory: what a client learns is read from three *)
(* places that are written one after the other, the session metadata and   *)
(* the report cache in Redis and the session_reports row in the database.  *)
(* Of the metadata only the status is kept: every writer of it overwrites  *)
(* that field, so whether the merge of the rest is atomic does not show.   *)
(* Sessions share none of this, one stands for all.                        *)
(***************************************************************************)
EXTENDS Naturals, Sequences

CONSTANTS
  MaxFaults,    \* bound: Redis or database calls of one session that fail
  MaxRestarts,  \* bound: restarts of the API process
  MaxResumes    \* bound: resume requests

ASSUME OutcomeAssumption == MaxFaults \in Nat /\ MaxRestarts \in Nat /\ MaxResumes \in Nat

VARIABLES
  meta,      \* status in the session metadata
  rep,       \* is the report in the report cache?
  row,       \* status of the session_reports row
  inv,       \* status of the investigation_state row
  told,      \* kinds of final broadcasts sent to the client
  job,       \* where the worker's job is
  phase,     \* position in PhaseStatus
  cut,       \* has wait_for timed out?
  term,      \* where terminate_session is
  rec,       \* where the restart recovery is
  resume,    \* a resume request has read the status and not yet written it
  faults, restarts, resumes

worker == <<job, phase, cut>>
api == <<term, rec, resume, restarts, resumes>>
stores == <<meta, rep, row, inv>>
vars == <<stores, told, worker, api, faults>>

(* Status written while the agents, the two gates and the arbiter run. *)
PhaseStatus == <<"awaiting_decision", "running", "awaiting_deep_report", "deliberating">>

MetaStatus == {"none", "queued", "running", "awaiting_decision", "awaiting_deep_report",
  "paused_resume_requested", "deliberating", "report_ready", "completed", "degraded", "error",
  "interrupted"}

(* The lines of investigation_handler and what it calls, up to its return. *)
Handler == {"starting", "working", "caching", "readying", "logging", "completing", "regen",
  "storing", "stating", "publishing", "marking", "degrading",
  "failing", "degradeRow", "degradeMeta", "errorRow", "errorMeta"}
Over == {"ended", "dead", "dropped"}

TypeOK ==
  /\ meta \in MetaStatus
  /\ rep \in BOOLEAN
  /\ row \in {"none", "completed", "degraded", "error", "terminated"}
  /\ inv \in {"queued", "completed", "interrupted"}
  /\ told \subseteq {"complete", "degraded", "error", "terminated"}
  /\ job \in Handler \cup Over \cup {"queued", "escalateMeta", "escalateRow"}
  /\ phase \in 0 .. Len(PhaseStatus)
  /\ cut \in BOOLEAN
  /\ term \in {"idle", "clearing", "pruning", "recording", "done", "lost"}
  /\ rec \in {"idle", "reading", "writing", "saving"}
  /\ resume \in BOOLEAN
  /\ faults \in 0 .. MaxFaults /\ restarts \in 0 .. MaxRestarts /\ resumes \in 0 .. MaxResumes

(* start_investigation has written metadata and state row and queued the   *)
(* session (UploadDedup).                                                  *)
Init ==
  /\ meta = "queued" /\ rep = FALSE /\ row = "none" /\ inv = "queued"
  /\ told = {}
  /\ job = "queued" /\ phase = 0 /\ cut = FALSE
  /\ term = "idle" /\ rec = "idle" /\ resume = FALSE
  /\ faults = 0 /\ restarts = 0 /\ resumes = 0

-----------------------------------------------------------------------------
Fault == faults < MaxFaults /\ faults' = faults + 1
Go(from, to) == job = from /\ job' = to /\ UNCHANGED <<phase, cut, api>>

(* update_active_pipeline_metadata: when Redis fails it returns quietly. *)
SetStatus(status) ==
  \/ meta' = status /\ UNCHANGED faults
  \/ UNCHANGED meta /\ Fault

(* Mutant of SetRow: the WHERE clause is missing. *)
SetRowAlways(status) == row' = status /\ UNCHANGED faults

(* update_session_status with an error: ON CONFLICT ... WHERE status !=    *)
(* 'completed'; a database error is logged and False returned.             *)
SetRow(status) ==
  \/ row' = (IF row = "completed" THEN row ELSE status) /\ UNCHANGED faults
  \/ UNCHANGED row /\ Fault

Start ==
  /\ Go("queued", "starting")
  /\ UNCHANGED <<stores, told, faults>>

MarkRunning ==
  /\ Go("starting", "working")
  /\ SetStatus("running")
  /\ UNCHANGED <<rep, row, inv, told>>

(* A phase of the pipeline writes its status; phases may be skipped. *)
Advance ==
  /\ job = "working"
  /\ \E next \in (phase + 1) .. Len(PhaseStatus) :
       phase' = next /\ SetStatus(PhaseStatus[next])
  /\ UNCHANGED <<rep, row, inv, told, job, cut, api>>

(* An agent majority fails, a database call raises, ... *)
PipelineFails ==
  /\ Go("working", "failing")
  /\ UNCHANGED <<stores, told, faults>>

Sign ==
  /\ phase = Len(PhaseStatus)
  /\ Go("working", "caching")
  /\ UNCHANGED <<stores, told, faults>>

CacheReport ==
  /\ Go("caching", "readying")
  /\ \/ rep' = TRUE /\ UNCHANGED faults
     \/ UNCHANGED rep /\ Fault
  /\ UNCHANGED <<meta, row, inv, told>>

MarkReady ==
  /\ Go("readying", "logging")
  /\ SetStatus("report_ready")
  /\ UNCHANGED <<rep, row, inv, told>>

(* The custody entry REPORT_SIGNED; its exception fails the investigation. *)
LogSigned ==
  /\ \/ Go("logging", "completing") /\ UNCHANGED faults
     \/ Go("logging", "failing") /\ Fault
  /\ UNCHANGED <<stores, told>>

-----------------------------------------------------------------------------
(* mark_investigation_completed *)

CheckIdempotent ==
  /\ Go("completing", IF meta = "completed" THEN "ended" ELSE "regen")
  /\ UNCHANGED <<stores, told, faults>>

Regenerate ==
  /\ Go("regen", "storing")
  /\ UNCHANGED <<stores, told, faults>>

(* save_report: an error of the INSERT is swallowed, only a missing        *)
(* connection raises.                                                      *)
SaveReport ==
  /\ \/ Go("storing", "stating") /\ row' = "completed" /\ UNCHANGED faults
     \/ Go("storing", "stating") /\ UNCHANGED row /\ Fault
     \/ Go("storing", "degrading") /\ UNCHANGED row /\ Fault
  /\ UNCHANGED <<meta, rep, inv, told>>

SaveStatus ==
  /\ Go("stating", "publishing")
  /\ \/ inv' = "completed" /\ UNCHANGED faults
     \/ UNCHANGED inv /\ Fault
  /\ UNCHANGED <<meta, rep, row, told>>

(* Mutant of PublishReport: a Redis error does not matter any more. *)
PublishReportQuietly ==
  /\ Go("publishing", "marking")
  /\ rep' \in {TRUE, rep}
  /\ UNCHANGED <<meta, row, inv, told, faults>>

(* set_final_report: here a Redis error is not caught. *)
PublishReport ==
  /\ \/ Go("publishing", "marking") /\ rep' = TRUE /\ UNCHANGED faults
     \/ Go("publishing", "failing") /\ UNCHANGED rep /\ Fault
  /\ UNCHANGED <<meta, row, inv, told>>

(* A broadcast shares the step of the write before it. *)
MarkCompleted ==
  /\ Go("marking", "ended")
  /\ SetStatus("completed")
  /\ told' = told \cup {"complete"}
  /\ UNCHANGED <<rep, row, inv>>

MarkUnsaved ==
  /\ Go("degrading", "ended")
  /\ SetStatus("degraded")
  /\ told' = told \cup {"degraded"}
  /\ UNCHANGED <<rep, row, inv>>

-----------------------------------------------------------------------------
(* mark_investigation_failed, then _mark_session_failed of the queue,      *)
(* because the handler raises again.                                       *)

LookForReport ==
  /\ \/ rep /\ Go("failing", "degradeRow") /\ UNCHANGED faults
     \/ ~rep /\ Go("failing", "errorRow") /\ UNCHANGED faults
     \/ Go("failing", "escalateMeta") /\ Fault
  /\ UNCHANGED <<stores, told>>

DegradeRow ==
  /\ Go("degradeRow", "degradeMeta")
  /\ SetRow("degraded")
  /\ UNCHANGED <<meta, rep, inv, told>>

DegradeMeta ==
  /\ Go("degradeMeta", "escalateMeta")
  /\ SetStatus("degraded")
  /\ told' = told \cup {"degraded"}
  /\ UNCHANGED <<rep, row, inv>>

ErrorRow ==
  /\ Go("errorRow", "errorMeta")
  /\ SetRow("error")
  /\ UNCHANGED <<meta, rep, inv, told>>

ErrorMeta ==
  /\ Go("errorMeta", "escalateMeta")
  /\ SetStatus("error")
  /\ told' = told \cup {"error"}
  /\ UNCHANGED <<rep, row, inv>>

EscalateMeta ==
  /\ Go("escalateMeta", "escalateRow")
  /\ SetStatus("error")
  /\ told' = told \cup {"error"}
  /\ UNCHANGED <<rep, row, inv>>

EscalateRowUntilDone ==
  /\ Go("escalateRow", IF row = "error" THEN "ended" ELSE "escalateRow")
  /\ row' = (IF row = "completed" THEN row ELSE "error")
  /\ UNCHANGED <<meta, rep, inv, told, faults>>

EscalateRow ==
  /\ Go("escalateRow", "ended")
  /\ SetRow("error")
  /\ UNCHANGED <<meta, rep, inv, told>>

(* Mutant of Timeout: nobody is told. *)
TimeoutSilently ==
  /\ job \in Handler /\ ~cut
  /\ cut' = TRUE
  /\ job' = "ended"
  /\ UNCHANGED <<stores, told, phase, api, faults>>

(* wait_for cancels the handler once.  CancelledError passes every except  *)
(* Exception; only the narrative regeneration catches it and goes on.      *)
Timeout ==
  /\ job \in Handler /\ ~cut
  /\ cut' = TRUE
  /\ job' = (IF job = "regen" THEN "storing" ELSE "escalateMeta")
  /\ UNCHANGED <<stores, told, phase, api, faults>>

(* SIGKILL of the worker: the session is not queued again. *)
WorkerDies ==
  /\ job \notin Over \cup {"queued"}
  /\ job' = "dead"
  /\ UNCHANGED <<stores, told, phase, cut, api, faults>>

-----------------------------------------------------------------------------
(* The API process.  It serves requests once its recovery is over. *)

Terminate(from, to) == rec = "idle" /\ term = from /\ term' = to /\ UNCHANGED <<rec, resume, restarts, resumes>>

(* No task and no pipeline of the session live in this process. *)
TerminateTells ==
  /\ Terminate("idle", "clearing")
  /\ told' = told \cup {"terminated"}
  /\ UNCHANGED <<stores, worker, faults>>

(* Mutant of TerminateClears: the cached report goes with the metadata. *)
TerminateClearsAll ==
  /\ Terminate("clearing", "pruning")
  /\ meta' = "none" /\ rep' = FALSE
  /\ UNCHANGED <<row, inv, told, worker, faults>>

TerminateClears ==
  /\ \/ Terminate("clearing", "pruning") /\ meta' = "none" /\ UNCHANGED faults
     \/ Terminate("clearing", "lost") /\ UNCHANGED meta /\ Fault
  /\ UNCHANGED <<rep, row, inv, told, worker>>

(* A queued session leaves the queue (QueuePruning). *)
TerminatePrunes ==
  /\ Terminate("pruning", "recording")
  /\ job' = (IF job = "queued" THEN "dropped" ELSE job)
  /\ UNCHANGED <<stores, told, phase, cut, faults>>

TerminateRecords ==
  /\ Terminate("recording", "done")
  /\ SetRow("terminated")
  /\ UNCHANGED <<meta, rep, inv, told, worker>>

(* resume_investigation without a pipeline in the process: the status is   *)
(* checked first and overwritten after the decision was published.         *)
ResumeChecks ==
  /\ rec = "idle" /\ ~resume /\ resumes < MaxResumes
  /\ meta \in {"awaiting_decision", "awaiting_deep_report"}
  /\ resume' = TRUE /\ resumes' = resumes + 1
  /\ UNCHANGED <<stores, told, worker, term, rec, restarts, faults>>

ResumeWrites ==
  /\ rec = "idle" /\ resume
  /\ resume' = FALSE
  /\ SetStatus("paused_resume_requested")
  /\ UNCHANGED <<rep, row, inv, told, worker, term, rec, restarts, resumes>>

Restart ==
  /\ restarts < MaxRestarts
  /\ restarts' = restarts + 1
  /\ rec' = "reading"
  /\ resume' = FALSE
  /\ term' = (IF term \in {"idle", "done"} THEN term ELSE "lost")
  /\ UNCHANGED <<stores, told, worker, resumes, faults>>

Stuck == {"running", "awaiting_decision", "awaiting_deep_report", "deliberating"}

Recover(from, to) == rec = from /\ rec' = to /\ UNCHANGED <<term, resume, restarts, resumes>>

RecoveryReads ==
  /\ Recover("reading", IF meta \in Stuck THEN "writing" ELSE "idle")
  /\ UNCHANGED <<stores, told, worker, faults>>

RecoveryWrites ==
  /\ \/ Recover("writing", "saving") /\ meta' = "interrupted" /\ UNCHANGED faults
     \/ Recover("writing", "idle") /\ UNCHANGED meta /\ Fault
  /\ UNCHANGED <<rep, row, inv, told, worker>>

RecoverySaves ==
  /\ Recover("saving", "idle")
  /\ \/ inv' = "interrupted" /\ UNCHANGED faults
     \/ UNCHANGED inv /\ Fault
  /\ UNCHANGED <<meta, rep, row, told, worker>>

-----------------------------------------------------------------------------
PipelineStep == Start \/ MarkRunning \/ Advance \/ PipelineFails \/ Sign \/ CacheReport \/ MarkReady \/ LogSigned
CompletionStep ==
  CheckIdempotent \/ Regenerate \/ SaveReport \/ SaveStatus \/ PublishReport \/ MarkCompleted \/ MarkUnsaved
FailureStep ==
  LookForReport \/ DegradeRow \/ DegradeMeta \/ ErrorRow \/ ErrorMeta \/ EscalateMeta \/ EscalateRow
JobStep == PipelineStep \/ CompletionStep \/ FailureStep
ApiStep ==
  \/ TerminateTells \/ TerminateClears \/ TerminatePrunes \/ TerminateRecords
  \/ ResumeChecks \/ ResumeWrites
  \/ Restart \/ RecoveryReads \/ RecoveryWrites \/ RecoverySaves

Next == JobStep \/ Timeout \/ WorkerDies \/ ApiStep

Spec == Init /\ [][Next]_vars

(* The worker's event loop runs the job; the gates time out by themselves. *)
FairSpec == Spec /\ WF_vars(JobStep)

-----------------------------------------------------------------------------
(* get_arbiter_status: cache, then metadata, then database. *)
PollComplete ==
  \/ rep
  \/ meta \in {"completed", "degraded", "report_ready"}
  \/ meta = "none" /\ row = "completed"

PollError == ~rep /\ (meta = "error" \/ (meta = "none" /\ row = "error"))

-----------------------------------------------------------------------------
(* Properties *)

(* "WHERE session_reports.status != 'completed'": nothing a timeout, a     *)
(* second failure report or a termination does takes a stored report's     *)
(* status back.                                                            *)
StoredReportIsFinal == [][row = "completed" => row' = "completed"]_vars

(* A client that was told "complete" by a poll is never told otherwise     *)
(* later, whatever times out, dies, restarts or is terminated in between,  *)
(* as long as no Redis or database call fails.                             *)
PollNeverTakesBack == [][faults' = 0 /\ PollComplete => PollComplete']_vars

(* PIPELINE_COMPLETE is sent only when the report can be fetched, from the *)
(* cache or from the database, even when calls fail.                       *)
AnnouncedIsRetrievable == "complete" \in told => rep \/ row = "completed"

(* "Investigation completed with errors. Report is available." is told of  *)
(* a session without a report only if two calls failed.                    *)
DegradedHasReport == "degraded" \in told /\ faults < 2 => rep \/ row = "completed"

(* When the job has ended and nobody else touched the session, a poll gets *)
(* a final answer: no client waits for a session that is over.             *)
EndedIsVisible ==
  job = "ended" /\ faults = 0 /\ term = "idle" /\ restarts = 0 /\ resumes = 0 =>
    PollComplete \/ PollError

(* Every job a worker started ends, also on every failure path. *)
EveryJobEnds == job = "starting" ~> job \in Over

-----------------------------------------------------------------------------
(* A statement of the repository that the code does not keep *)

(* "Persist the signed report to durable storage BEFORE marking the        *)
(* session as completed or broadcasting PIPELINE_COMPLETE. This ensures    *)
(* the report survives Redis/cache loss."                                  *)
DurableBeforeComplete == "complete" \in told => row = "completed"
=============================================================================
