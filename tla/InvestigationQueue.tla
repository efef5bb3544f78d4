------------------------- MODULE InvestigationQueue -------------------------
(***************************************************************************)
(* The Redis work queue between the API process and the worker process     *)
(* (orchestration/investigation_queue.py, and the start-up and shutdown of *)
(* the worker in orchestration/worker.py).                                 *)
(*                                                                         *)
(* The API submits a session with one MULTI that writes the task hash and  *)
(* pushes the session on the list.  The worker loop pops a session, fetches*)
(* its task record and starts a background job for it; at most Concurrency *)
(* jobs are unfinished at a time.  A redelivery does not exist: what a     *)
(* popped session is worth is only in the memory of the worker.            *)
(***************************************************************************)
EXTENDS Naturals, Sequences, FiniteSets

CONSTANTS
  Sessions,     \* session ids; each is submitted by one upload request
  NoSession,    \* "the loop holds nothing"
  Concurrency,  \* WORKER_CONCURRENCY
  MaxRuns,      \* bound: background jobs remembered per session
  MaxStops,     \* bound: graceful shutdowns (SIGTERM) of the worker
  MaxCrashes,   \* bound: kills of the worker process
  MaxFaults     \* bound: Redis commands that fail

ASSUME QueueAssumption ==
  /\ NoSession \notin Sessions
  /\ Concurrency \in Nat \ {0}
  /\ MaxRuns \in Nat \ {0}
  /\ MaxStops \in Nat
  /\ MaxCrashes \in Nat
  /\ MaxFaults \in Nat

VARIABLES
  queue,    \* list forensic:investigation:queue
  tasks,    \* hash forensic:investigation:tasks
  request,  \* the submit() call of each session's upload request
  loop,     \* where the worker's main loop is
  held,     \* the session it popped and has not started yet
  runs,     \* background jobs started for each session
  job,      \* state of each background job
  stops, crashes, faults

qvars == <<queue, tasks, request, loop, held, runs, job, stops, crashes, faults>>

Runs == 1 .. MaxRuns
Jobs == Sessions \X Runs

TaskStatus == {"absent", "QUEUED", "RUNNING", "COMPLETED", "FAILED"}

(* "created": the task exists, process_task has not written RUNNING yet;   *)
(* "succeeded" and "failed": the handler ended, the final update_task is   *)
(* still to come; "skipped": process_task gave up before the handler ran;  *)
(* "killed": the process died under it.                                    *)
JobState == {"none", "created", "running", "succeeded", "failed", "done", "skipped", "killed"}
Unfinished == {"created", "running", "succeeded", "failed"}

ActiveJobs == {j \in Jobs : job[j] \in Unfinished}
Queued(s) == \E i \in 1 .. Len(queue) : queue[i] = s

TypeOK ==
  /\ queue \in Seq(Sessions)
  /\ tasks \in [Sessions -> TaskStatus]
  /\ request \in [Sessions -> {"new", "accepted", "undoing", "rejected"}]
  /\ loop \in {"polling", "fetching", "draining", "stopped", "down"}
  /\ held \in Sessions \cup {NoSession}
  /\ loop = "fetching" <=> held # NoSession
  /\ runs \in [Sessions -> 0 .. MaxRuns]
  /\ job \in [Jobs -> JobState]
  /\ stops \in 0 .. MaxStops
  /\ crashes \in 0 .. MaxCrashes
  /\ faults \in 0 .. MaxFaults

Init ==
  /\ queue = <<>>
  /\ tasks = [s \in Sessions |-> "absent"]
  /\ request = [s \in Sessions |-> "new"]
  /\ loop = "polling"
  /\ held = NoSession
  /\ runs = [s \in Sessions |-> 0]
  /\ job = [j \in Jobs |-> "none"]
  /\ stops = 0
  /\ crashes = 0
  /\ faults = 0

-----------------------------------------------------------------------------
(* The API process *)

Enqueue(s) ==
  /\ tasks' = [tasks EXCEPT ![s] = "QUEUED"]
  /\ queue' = Append(queue, s)

Submit(s) ==
  /\ request[s] = "new"
  /\ Enqueue(s)
  /\ request' = [request EXCEPT ![s] = "accepted"]
  /\ UNCHANGED <<loop, held, runs, job, stops, crashes, faults>>

(* EXEC raises: the transaction was not executed, or it was and the reply  *)
(* got lost.                                                               *)
SubmitFails(s) ==
  /\ request[s] = "new"
  /\ faults < MaxFaults
  /\ faults' = faults + 1
  /\ \/ Enqueue(s)
     \/ UNCHANGED <<queue, tasks>>
  /\ request' = [request EXCEPT ![s] = "undoing"]
  /\ UNCHANGED <<loop, held, runs, job, stops, crashes>>

(* The except branch: HDEL, which does not take the session off the list,  *)
(* then re-raise; the HDEL may itself fail.                                *)
SubmitUndo(s) ==
  /\ request[s] = "undoing"
  /\ request' = [request EXCEPT ![s] = "rejected"]
  /\ \/ /\ tasks' = [tasks EXCEPT ![s] = "absent"]
        /\ UNCHANGED faults
     \/ /\ faults < MaxFaults
        /\ faults' = faults + 1
        /\ UNCHANGED tasks
  /\ UNCHANGED <<queue, loop, held, runs, job, stops, crashes>>

-----------------------------------------------------------------------------
(* The worker's main loop *)

PopOneTooMany ==
  /\ loop = "polling"
  /\ Cardinality(ActiveJobs) <= Concurrency
  /\ queue # <<>>
  /\ held' = Head(queue)
  /\ queue' = Tail(queue)
  /\ loop' = "fetching"
  /\ UNCHANGED <<tasks, request, runs, job, stops, crashes, faults>>

(* BLPOP, reached only with a free slot. *)
Pop ==
  /\ loop = "polling"
  /\ Cardinality(ActiveJobs) < Concurrency
  /\ queue # <<>>
  /\ held' = Head(queue)
  /\ queue' = Tail(queue)
  /\ loop' = "fetching"
  /\ UNCHANGED <<tasks, request, runs, job, stops, crashes, faults>>

(* get_status, then create_task(process_task). *)
StartJob ==
  /\ loop = "fetching"
  /\ tasks[held] # "absent"
  /\ runs[held] < MaxRuns
  /\ runs' = [runs EXCEPT ![held] = @ + 1]
  /\ job' = [job EXCEPT ![<<held, runs[held] + 1>>] = "created"]
  /\ loop' = "polling"
  /\ held' = NoSession
  /\ UNCHANGED <<queue, tasks, request, stops, crashes, faults>>

(* "metadata missing": the popped session is dropped. *)
SkipMissing ==
  /\ loop = "fetching"
  /\ tasks[held] = "absent"
  /\ loop' = "polling"
  /\ held' = NoSession
  /\ UNCHANGED <<queue, tasks, request, runs, job, stops, crashes, faults>>

(* get_status raises: logged, slept on, and the popped session is dropped. *)
FetchFails ==
  /\ loop = "fetching"
  /\ faults < MaxFaults
  /\ faults' = faults + 1
  /\ loop' = "polling"
  /\ held' = NoSession
  /\ UNCHANGED <<queue, tasks, request, runs, job, stops, crashes>>

-----------------------------------------------------------------------------
(* process_task *)

(* Mutant of BeginJob: a finished task is picked up again. *)
BeginJobAgain(j) ==
  /\ job[j] \in {"created", "done"}
  /\ job' = [job EXCEPT ![j] = "running"]
  /\ tasks' = [tasks EXCEPT ![j[1]] = "RUNNING"]
  /\ UNCHANGED <<queue, request, loop, held, runs, stops, crashes, faults>>

(* update_task(RUNNING): HSET writes the record whether or not it exists.  *)
BeginJob(j) ==
  /\ job[j] = "created"
  /\ job' = [job EXCEPT ![j] = "running"]
  /\ tasks' = [tasks EXCEPT ![j[1]] = "RUNNING"]
  /\ UNCHANGED <<queue, request, loop, held, runs, stops, crashes, faults>>

(* update_task raises: "task bookkeeping failed" and the job ends. *)
BeginFails(j) ==
  /\ job[j] = "created"
  /\ faults < MaxFaults
  /\ faults' = faults + 1
  /\ job' = [job EXCEPT ![j] = "skipped"]
  /\ UNCHANGED <<queue, tasks, request, loop, held, runs, stops, crashes>>

(* The handler returns, raises, or is cut off by wait_for. *)
HandlerEnds(j) ==
  /\ job[j] = "running"
  /\ \E end \in {"succeeded", "failed"} : job' = [job EXCEPT ![j] = end]
  /\ UNCHANGED <<queue, tasks, request, loop, held, runs, stops, crashes, faults>>

(* Mutants of CloseJob: the final update_task is missing; a failed job is  *)
(* recorded with the status CANCELLED, which no reader of the hash expects.*)
CloseJobUnrecorded(j) ==
  /\ job[j] \in {"succeeded", "failed"}
  /\ job' = [job EXCEPT ![j] = "done"]
  /\ UNCHANGED <<queue, tasks, request, loop, held, runs, stops, crashes, faults>>

(* The final update_task, or its failure. *)
CloseJob(j) ==
  /\ job[j] \in {"succeeded", "failed"}
  /\ job' = [job EXCEPT ![j] = "done"]
  /\ \/ /\ tasks' = [tasks EXCEPT ![j[1]] =
                      IF job[j] = "succeeded" THEN "COMPLETED" ELSE "FAILED"]
        /\ UNCHANGED faults
     \/ /\ faults < MaxFaults
        /\ faults' = faults + 1
        /\ UNCHANGED tasks
  /\ UNCHANGED <<queue, request, loop, held, runs, stops, crashes>>

-----------------------------------------------------------------------------
(* Shutdown, crash and restart of the worker process *)

(* SIGTERM cancels the loop at its await; the finally block then gathers   *)
(* the jobs.  A session popped and not started yet is forgotten.           *)
Shutdown ==
  /\ loop \in {"polling", "fetching"}
  /\ stops < MaxStops
  /\ stops' = stops + 1
  /\ loop' = "draining"
  /\ held' = NoSession
  /\ UNCHANGED <<queue, tasks, request, runs, job, crashes, faults>>

Drained ==
  /\ loop = "draining"
  /\ ActiveJobs = {}
  /\ loop' = "stopped"
  /\ UNCHANGED <<queue, tasks, request, held, runs, job, stops, crashes, faults>>

(* SIGKILL, an out-of-memory kill, or the end of the grace period. *)
Crash ==
  /\ loop \notin {"stopped", "down"}
  /\ crashes < MaxCrashes
  /\ crashes' = crashes + 1
  /\ loop' = "down"
  /\ held' = NoSession
  /\ job' = [j \in Jobs |-> IF job[j] \in Unfinished THEN "killed" ELSE job[j]]
  /\ UNCHANGED <<queue, tasks, request, runs, stops, faults>>

(* The container's restart policy, or a deployment. *)
Restart ==
  /\ loop \in {"stopped", "down"}
  /\ loop' = "polling"
  /\ UNCHANGED <<queue, tasks, request, held, runs, job, stops, crashes, faults>>

-----------------------------------------------------------------------------
ApiStep == \E s \in Sessions : Submit(s) \/ SubmitFails(s) \/ SubmitUndo(s)
LoopStep == Pop \/ StartJob \/ SkipMissing \/ FetchFails
JobStep == \E j \in Jobs : BeginJob(j) \/ BeginFails(j) \/ HandlerEnds(j) \/ CloseJob(j)
ProcessStep == Shutdown \/ Drained \/ Crash \/ Restart

Next == ApiStep \/ LoopStep \/ JobStep \/ ProcessStep

Spec == Init /\ [][Next]_qvars

(* The consumer goes on while it has something to pop or to start, and so  *)
(* do the jobs: the event loop runs its coroutines and wait_for bounds     *)
(* every handler.  Nobody has to upload, nothing has to be restarted.      *)
Consume == Pop \/ StartJob \/ SkipMissing
Work == \E j \in Jobs : BeginJob(j) \/ HandlerEnds(j) \/ CloseJob(j)
Fairness == WF_qvars(Consume) /\ WF_qvars(Work)

FairSpec == Spec /\ Fairness

-----------------------------------------------------------------------------
(* Properties *)

(* However submissions, Redis failures, shutdowns, crashes and restarts    *)
(* interleave, a session's pipeline is started at most once, and once it   *)
(* was started the session is neither on the list nor in the loop's hand.  *)
DispatchedAtMostOnce ==
  \A s \in Sessions :
    /\ runs[s] <= 1
    /\ runs[s] = 1 => ~Queued(s) /\ held # s

(* The worker never has more than WORKER_CONCURRENCY unfinished jobs, the  *)
(* one it is about to create included: the slot checked before BLPOP is    *)
(* still free when the job is created, two awaits later.                   *)
ConcurrencyRespected ==
  Cardinality(ActiveJobs) + (IF loop = "fetching" THEN 1 ELSE 0) <= Concurrency

(* A worker that stopped gracefully has left no job behind: each of its    *)
(* jobs ran to its final update_task.                                      *)
StoppedMeansDrained ==
  loop = "stopped" => ActiveJobs = {} /\ held = NoSession

(* No accepted session is left behind: time and again all of them are      *)
(* settled in the task hash, unless the worker was stopped or killed or a  *)
(* Redis command failed.                                                   *)
AcceptedIsSettled ==
  []<>(\/ \A s \in Sessions : request[s] = "accepted" => tasks[s] \in {"COMPLETED", "FAILED"}
       \/ stops + crashes + faults > 0)

-----------------------------------------------------------------------------
(* What the queue promises, see DispatchOnce *)

PhaseOf(s) ==
  CASE \E k \in Runs : job[<<s, k>>] \in Unfinished -> "running"
    [] \E k \in Runs : job[<<s, k>>] = "done" -> "finished"
    [] runs[s] = 0 /\ (Queued(s) \/ held = s) -> "pending"
    [] runs[s] = 0 /\ request[s] = "new" -> "idle"
    [] OTHER -> "gone"

Abstract == INSTANCE DispatchOnce WITH phase <- [s \in Sessions |-> PhaseOf(s)]

(* The queue implements dispatch-once: sessions only ever move forward,    *)
(* from idle to pending, to one run, to finished, or out of the system.    *)
ImplementsDispatchOnce == Abstract!Spec
=============================================================================
