--------------------------- MODULE QueuePruning ---------------------------
(***************************************************************************)
(* DELETE /sessions/{id} (terminate_session in api/routes/sessions.py)     *)
(* composed with the work queue.  The endpoint takes the session off the   *)
(* Redis list by reading the whole list, filtering it, and writing it back *)
(* in a later transaction; submissions and pops may come in between.       *)
(***************************************************************************)
EXTENDS InvestigationQueue

VARIABLES
  prune,    \* progress of the DELETE request of each session
  snapshot  \* the filtered list it read

pvars == <<prune, snapshot>>

PruneInit ==
  /\ prune = [s \in Sessions |-> "none"]
  /\ snapshot = [s \in Sessions |-> <<>>]

(* The endpoint never reaches into the worker process. *)
WorkerUntouched == UNCHANGED <<request, loop, held, runs, job, stops, crashes>>

(* Mutant of ClearKeys: the task record survives. *)
ClearKeysOnly(s) ==
  /\ request[s] = "accepted"
  /\ prune[s] = "none"
  /\ prune' = [prune EXCEPT ![s] = "cleared"]
  /\ UNCHANGED <<queue, tasks, snapshot, faults>>
  /\ WorkerUntouched

(* Metadata, replay and decision keys are deleted, then HDEL of the task.  *)
ClearKeys(s) ==
  /\ request[s] = "accepted"
  /\ prune[s] = "none"
  /\ prune' = [prune EXCEPT ![s] = "cleared"]
  /\ tasks' = [tasks EXCEPT ![s] = "absent"]
  /\ UNCHANGED <<queue, snapshot, faults>>
  /\ WorkerUntouched

(* LRANGE and the list comprehension. *)
ReadList(s) ==
  /\ prune[s] = "cleared"
  /\ prune' = [prune EXCEPT ![s] = "read"]
  /\ snapshot' = [snapshot EXCEPT ![s] = SelectSeq(queue, LAMBDA t : t # s)]
  /\ UNCHANGED <<queue, tasks, faults>>
  /\ WorkerUntouched

(* MULTI: DEL of the list and RPUSH of what is left. *)
WriteList(s) ==
  /\ prune[s] = "read"
  /\ prune' = [prune EXCEPT ![s] = "over"]
  /\ queue' = snapshot[s]
  /\ UNCHANGED <<tasks, snapshot, faults>>
  /\ WorkerUntouched

(* A Redis failure while pruning is logged and skipped. *)
PruneFails(s) ==
  /\ prune[s] \in {"cleared", "read"}
  /\ faults < MaxFaults
  /\ faults' = faults + 1
  /\ prune' = [prune EXCEPT ![s] = "over"]
  /\ UNCHANGED <<queue, tasks, snapshot>>
  /\ WorkerUntouched

Terminate ==
  \E s \in Sessions : ClearKeys(s) \/ ReadList(s) \/ WriteList(s) \/ PruneFails(s)

PruningInit == Init /\ PruneInit
PruningNext ==
  \/ Next /\ UNCHANGED pvars
  \/ Terminate
PruningSpec == PruningInit /\ [][PruningNext]_<<qvars, pvars>>

-----------------------------------------------------------------------------
(* A session whose owner terminated it before its pipeline was started is  *)
(* never started, even if the list rewrite of another termination puts it  *)
(* back on the list or the worker already held it.                         *)
TerminatedBeforeStartNeverRuns ==
  [][\A s \in Sessions : prune[s] # "none" /\ runs[s] = 0 => runs'[s] = 0]_<<qvars, pvars>>

InHand(s) ==
  \/ Queued(s)
  \/ held = s
  \/ \E k \in Runs : job[<<s, k>>] \notin {"none", "skipped", "killed"}

(* docs/API_CONTRACT.md says of DELETE /sessions/{id} that it "Cancels     *)
(* active task, aborts pipeline, clears Redis [...] task-hash/queue        *)
(* entries" of the session: no other accepted session may fall out of the  *)
(* system because of it.                                                   *)
TerminationSparesOthers ==
  stops = 0 /\ crashes = 0 /\ faults = 0 =>
    \A s \in Sessions : request[s] = "accepted" /\ prune[s] = "none" => InHand(s)
=============================================================================
