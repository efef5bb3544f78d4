---------------------------- MODULE UploadDedup ----------------------------
(***************************************************************************)
(* Concurrent uploads of the same evidence file for the same case          *)
(* (start_investigation in api/routes/investigation.py, worker mode).      *)
(*                                                                         *)
(* Every request draws a fresh session id, so a request and its session    *)
(* share a name here.  The Redis key dedup:<case>:<hash> names the session *)
(* that claimed the content.  A request that finds it taken looks at that  *)
(* session's metadata and takes the claim over when the session does not   *)
(* look active.  Each Redis command is a step of its own, and one that     *)
(* raises may have been applied all the same.                              *)
(***************************************************************************)
EXTENDS Naturals, FiniteSets

CONSTANTS
  Requests,   \* upload requests, and the sessions they create
  NoClaim,    \* the dedup key does not exist
  MaxUploadFaults \* bound: Redis or database calls that fail

ASSUME DedupAssumption == NoClaim \notin Requests /\ MaxUploadFaults \in Nat

VARIABLES
  claim,     \* value of the dedup key
  meta,      \* status in each session's metadata
  pc,        \* where each request is
  existing,  \* the session a request found the claim to name
  seen,      \* the status it read for that session
  life,      \* what the worker side does with each session
  hit,       \* history: the steps of each request at which a call failed
  uploadFaults

uploadVars == <<claim, meta, pc, existing, seen, life, hit, uploadFaults>>

(* "awaiting" stands for the statuses of a live session that are none of   *)
(* queued, running, paused: awaiting_decision, deliberating,               *)
(* awaiting_deep_report, paused_resume_requested, report_ready.            *)
Status == {"none", "queued", "running", "awaiting", "over"}
Answers == {"accepted", "dup409", "bad400", "failed"}
PC == {"new", "conflict", "checking", "deleting", "reclaiming", "claimed", "verified",
       "registering", "probing", "submitting", "cleaning", "forgetting"} \cup Answers

(* The statuses start_investigation takes for an active session. *)
LooksActive == {"running", "paused", "queued"}

UploadTypeOK ==
  /\ claim \in Requests \cup {NoClaim}
  /\ meta \in [Requests -> Status]
  /\ pc \in [Requests -> PC]
  /\ existing \in [Requests -> Requests \cup {NoClaim}]
  /\ seen \in [Requests -> Status \cup {"unread"}]
  /\ life \in [Requests -> {"none", "queued", "live", "failing", "over"}]
  /\ hit \in [Requests -> SUBSET PC]
  /\ uploadFaults \in 0 .. MaxUploadFaults
  /\ \A r \in Requests :
       pc[r] \in {"checking", "deleting", "reclaiming"} => existing[r] \in Requests \ {r}

UploadInit ==
  /\ claim = NoClaim
  /\ meta = [r \in Requests |-> "none"]
  /\ pc = [r \in Requests |-> "new"]
  /\ existing = [r \in Requests |-> NoClaim]
  /\ seen = [r \in Requests |-> "unread"]
  /\ life = [r \in Requests |-> "none"]
  /\ hit = [r \in Requests |-> {}]
  /\ uploadFaults = 0

-----------------------------------------------------------------------------
At(r, from, to) == pc[r] = from /\ pc' = [pc EXCEPT ![r] = to]

(* A call of r fails, or none does. *)
Fault(r) ==
  /\ uploadFaults < MaxUploadFaults
  /\ uploadFaults' = uploadFaults + 1
  /\ hit' = [hit EXCEPT ![r] = @ \cup {pc[r]}]

NoFault == UNCHANGED <<hit, uploadFaults>>

(* SET dedup_key session_id NX *)
ClaimOr(r, from, taken) ==
  /\ \/ /\ claim = NoClaim
        /\ At(r, from, "claimed")
        /\ claim' = r
     \/ /\ claim # NoClaim
        /\ At(r, from, taken)
        /\ UNCHANGED claim
  /\ UNCHANGED <<meta, existing, seen, life>> /\ NoFault

TryClaim(r) == ClaimOr(r, "new", "conflict")

(* The SET or the GET raises: 503, and the SET may have been applied. *)
ClaimFails(r) ==
  /\ \/ /\ At(r, "new", "failed")
        /\ claim' \in {claim, IF claim = NoClaim THEN r ELSE claim}
     \/ At(r, "conflict", "failed") /\ UNCHANGED claim
  /\ Fault(r)
  /\ UNCHANGED <<meta, existing, seen, life>>

(* GET dedup_key; a key that vanished since makes .decode() raise: 503. *)
ReadClaim(r) ==
  /\ \/ claim # NoClaim /\ At(r, "conflict", "checking")
     \/ claim = NoClaim /\ At(r, "conflict", "failed")
  /\ existing' = [existing EXCEPT ![r] = claim]
  /\ UNCHANGED <<claim, meta, seen, life>> /\ NoFault

Judge(r, active, verdict) ==
  /\ At(r, "checking", IF meta[existing[r]] \in active THEN verdict ELSE "deleting")
  /\ seen' = [seen EXCEPT ![r] = meta[existing[r]]]
  /\ UNCHANGED <<claim, meta, existing, life>> /\ NoFault

(* Mutant of CheckExisting: a finished session still counts as active. *)
CheckExistingStale(r) == Judge(r, Status \ {"none"}, "dup409")

(* get_active_pipeline_metadata of the session the claim names. *)
CheckExisting(r) == Judge(r, LooksActive, "dup409")

DeleteClaim(r) ==
  /\ At(r, "deleting", "reclaiming")
  /\ claim' = NoClaim
  /\ UNCHANGED <<meta, existing, seen, life>> /\ NoFault

Reclaim(r) == ClaimOr(r, "reclaiming", "dup409")

(* The inner except logs and leaves was_set false: 409, whatever the DELETE *)
(* or the SET did.                                                         *)
TakeoverFails(r) ==
  /\ \/ At(r, "checking", "dup409") /\ UNCHANGED claim
     \/ At(r, "deleting", "dup409") /\ claim' \in {claim, NoClaim}
     \/ /\ At(r, "reclaiming", "dup409")
        /\ claim' \in {claim, IF claim = NoClaim THEN r ELSE claim}
  /\ Fault(r)
  /\ UNCHANGED <<meta, existing, seen, life>>

-----------------------------------------------------------------------------
(* Pillow or ffprobe on the stored file; a rejected file keeps the claim. *)
Verify(r) ==
  /\ At(r, "claimed", "verified") \/ At(r, "claimed", "bad400")
  /\ UNCHANGED <<claim, meta, existing, seen, life>> /\ NoFault

(* set_active_pipeline_metadata(status queued), or its failure: 500. *)
WriteMetadata(r) ==
  /\ \/ /\ At(r, "verified", "registering")
        /\ meta' = [meta EXCEPT ![r] = "queued"]
        /\ NoFault
     \/ /\ At(r, "verified", "failed")
        /\ meta' \in {meta, [meta EXCEPT ![r] = "queued"]}
        /\ Fault(r)
  /\ UNCHANGED <<claim, existing, seen, life>>

(* _register_session_before_dispatch; production cleans up when it fails. *)
Register(r) ==
  /\ \/ At(r, "registering", "probing") /\ NoFault
     \/ At(r, "registering", "cleaning") /\ Fault(r)
  /\ UNCHANGED <<claim, meta, existing, seen, life>>

(* is_worker_alive: yes, no (503 after a clean-up), or an exception (500   *)
(* from the outer handler, which cleans up the file only).                 *)
ProbeWorker(r) ==
  /\ \/ (At(r, "probing", "submitting") \/ At(r, "probing", "cleaning")) /\ NoFault
     \/ At(r, "probing", "failed") /\ Fault(r)
  /\ UNCHANGED <<claim, meta, existing, seen, life>>

(* queue.submit.  When its EXEC raises although it was applied, submit     *)
(* deletes the task and leaves the session on the list: a worker that has  *)
(* fetched the task by then, or a DELETE that fails too, makes it run.     *)
SubmitTask(r) ==
  /\ \/ /\ At(r, "submitting", "accepted")
        /\ life' = [life EXCEPT ![r] = "queued"]
        /\ NoFault
     \/ /\ At(r, "submitting", "cleaning")
        /\ life' \in {life, [life EXCEPT ![r] = "queued"]}
        /\ Fault(r)
  /\ UNCHANGED <<claim, meta, existing, seen>>

(* _cleanup_stale_investigation_session, first DELETE: the dedup key,      *)
(* whoever it names.  An exception skips the second DELETE.                *)
CleanClaim(r) ==
  /\ \/ At(r, "cleaning", "forgetting") /\ claim' = NoClaim /\ NoFault
     \/ At(r, "cleaning", "failed") /\ claim' \in {claim, NoClaim} /\ Fault(r)
  /\ UNCHANGED <<meta, existing, seen, life>>

(* Mutant of ForgetMetadata: only the dedup key is cleaned. *)
ForgetNothing(r) ==
  /\ At(r, "forgetting", "failed")
  /\ UNCHANGED <<claim, meta, existing, seen, life>> /\ NoFault

(* Second DELETE: the metadata. *)
ForgetMetadata(r) ==
  /\ At(r, "forgetting", "failed")
  /\ \/ meta' = [meta EXCEPT ![r] = "none"] /\ NoFault
     \/ meta' \in {meta, [meta EXCEPT ![r] = "none"]} /\ Fault(r)
  /\ UNCHANGED <<claim, existing, seen, life>>

-----------------------------------------------------------------------------
(* The worker and the pipeline, as far as the status shows.  An update of  *)
(* the status merges into whatever record is there, also none.             *)

Live(r, from, to, status) ==
  /\ life[r] = from
  /\ life' = [life EXCEPT ![r] = to]
  /\ meta' = [meta EXCEPT ![r] = status]
  /\ UNCHANGED <<claim, pc, existing, seen>> /\ NoFault

StartRun(r) == Live(r, "queued", "live", "running")
Pause(r) == Live(r, "live", "live", "awaiting")

(* Completion, or a timeout: the claim stays until it expires or is taken. *)
EndRun(r) == \E end \in {"over", "failing"} : Live(r, "live", end, "over")

(* investigation_handler after a failure: DEL dedup key, whoever it names, *)
(* unless the record that says which key has been deleted.                 *)
ReleaseAfterFailure(r) ==
  /\ life[r] = "failing"
  /\ life' = [life EXCEPT ![r] = "over"]
  /\ claim' = IF meta[r] = "none" THEN claim ELSE NoClaim
  /\ UNCHANGED <<meta, pc, existing, seen>> /\ NoFault

-----------------------------------------------------------------------------
RequestStep(r) ==
  \/ TryClaim(r) \/ ClaimFails(r) \/ ReadClaim(r) \/ CheckExisting(r) \/ DeleteClaim(r) \/ Reclaim(r)
  \/ TakeoverFails(r)
  \/ Verify(r) \/ WriteMetadata(r) \/ Register(r) \/ ProbeWorker(r) \/ SubmitTask(r)
  \/ CleanClaim(r) \/ ForgetMetadata(r)

WorkerStep(r) == StartRun(r) \/ Pause(r) \/ EndRun(r) \/ ReleaseAfterFailure(r)

UploadNext == \E r \in Requests : RequestStep(r) \/ WorkerStep(r)

UploadSpec == UploadInit /\ [][UploadNext]_uploadVars

-----------------------------------------------------------------------------
(* Properties *)

Active == {r \in Requests : life[r] \in {"queued", "live"}}

Winners == {q \in Requests :
  pc[q] \notin {"new", "conflict", "checking", "deleting", "reclaiming", "dup409"}}

(* A finished or vanished session never blocks its file: a request that    *)
(* found one and is answered "duplicate" lost the claim to a third request *)
(* that did get it.  Requests racing to take over a dead claim never all   *)
(* lose.                                                                   *)
NoFalseDuplicate ==
  \A r \in Requests :
    pc[r] = "dup409" /\ seen[r] \notin LooksActive /\ uploadFaults = 0 =>
      Winners \ {r, existing[r]} # {}

(* A request that was answered with an error has left no session behind,   *)
(* save for what its own failed calls explain.  A session is dispatched    *)
(* only where the submission raised after Redis had applied it.  A record  *)
(* is left only by such a session, by a write or a clean-up that failed,   *)
(* or by a probe of the worker that raised: nothing is cleaned after it.   *)
FailedUploadLeavesNoSession ==
  \A r \in Requests : pc[r] \in Answers \ {"accepted"} =>
    /\ life[r] # "none" => "submitting" \in hit[r]
    /\ meta[r] # "none" =>
         \/ life[r] # "none"
         \/ hit[r] \cap {"verified", "probing", "cleaning", "forgetting"} # {}

=============================================================================
