# Forensic Council: a formal model of the investigation backend

Forensic Council takes a piece of evidence, lets a set of agents examine it, asks
an analyst at two gates how to go on, lets an arbiter write a signed report and
keeps a chain of custody of all of it. The hard part of the code is not the
forensics but the life of a session between an API process, a worker process,
Redis, Postgres, models behind quotas, a timeout and a human, and the rules by
which many weak signals become one verdict. That is what this directory models:
the TLA+ modules here follow `src/apps/api` control step by control step, TLC
checks them on small instances, and TLAPS proves the central properties for
instances of any size. `PROJECT.json` maps every definition to the lines it
stands for.

Contents: 1 the system, 2 the modules, 3 the runs, 4 fairness, 5 the proofs,
6 where code and documentation disagree, 7 what the models leave out, 8 the plan.

## 1. The system

All paths are below `src/apps/api`. With `use_redis_worker` (the deployed
configuration, `infra/docker-compose.yml`) an API process and a worker process
share Redis and Postgres and nothing else; without it the API process runs the
pipeline itself.

| Component | State | Operations | Module |
|---|---|---|---|
| Work queue, `orchestration/investigation_queue.py` | Redis list and task hash; the worker's set of jobs | `submit`, the worker loop, `process_task`, shutdown | `InvestigationQueue`, `QueuePruning` |
| Upload intake, `api/routes/investigation.py` | dedup key per case and content, session metadata | `start_investigation`, its clean-up | `UploadDedup` |
| Visual context, `core/visual_context_store.py` | cached context and a lock in Redis | elect a creator, create, wait, save | `VisualContext` |
| Vision client, `core/gemini_client.py` | cooldown, files at the provider, reads kept in the process | preflight of a file, upload, walk through the models | `GeminiCalls` |
| Investigation, `orchestration/pipeline*.py` | results of the agents, the arbiter's prepared report | first pass, deep pass, pre-warm, deliberation, signing | `CouncilRun` |
| Gates, `orchestration/pipeline*.py`, `api/routes/sessions.py` | flag, event and "awaiting" mark; a decision key per gate | wait at gate 1 (deep pass?) and gate 2 (report?), resume | `HitlGate` |
| Agents, `agents/mixins/investigation.py`, `core/react_loop.py`, `core/working_memory.py` | plan in the working memory, in Redis and in a copy | plan, take a task, run its tool, add tasks, complete | `AgentLoop` |
| Tool processes, `core/ml_subprocess.py` | a process and its pipe per script, a semaphore | request and answer, restart, fallback | `ToolWorkers` |
| Arbiter, `agents/arbiter.py`, `core/arbiter_deliberation.py`, `core/severity.py` | none | ground findings, label, verdict per agent, live card | `Verdict` |
| Finalization, `orchestration/session_finalization.py`, `core/session_persistence.py`, `orchestration/worker.py` | `session_reports` row, `investigation_state` row, report cache, metadata | mark completed, mark failed, handler and its failure path | `SessionOutcome` |
| Session routes and recovery, `api/routes/sessions.py`, `api/lifespan.py` | none of their own | terminate, resume, poll; mark orphans interrupted | `SessionOutcome`, `QueuePruning`, `HitlGate` |
| Session metadata, `api/routes/_session_state.py` | a JSON record per session | merge with WATCH, fallback, plain writers | `SessionMetadata` |
| Live updates, `_session_state.py`, `sse.py`, `_websocket.py` | replay buffer, connections, their queues | broadcast, subscribe, replay, listen, reconnect | `LiveUpdates` |
| Chain of custody, `core/custody_logger.py` | table `chain_of_custody`, WAL and dead letters in Redis, a lock per chain | `log_entry`, flush, `verify_chain` | `CustodyChain` |
| Quota guard, `core/provider_quota_guard.py` | call times per process, counters in Redis | `check_and_record` | `ProviderQuota` |
| Model calls, `core/llm_client.py`, `core/retry.py`, `core/quota_manager.py` | circuit breakers, shares, semaphores | reasoning steps and syntheses with retry and fallback | `ModelCalls` |
| Stores, keys, auth, exports, observability, front end | - | - | none, see section 7 |

An upload registers a session and pushes it on the queue; the worker pops it and
runs the investigation inside the handler that finalizes it. The investigation
asks for the visual context (which calls the vision client), runs an `AgentLoop`
per agent (which call tool processes and models), waits at the gates, and turns
the results into verdicts. Every step of it logs to the chain of custody, writes
metadata and broadcasts; every call of a model passes the quota guard. Clients
poll, listen, resume and terminate meanwhile.

**What is hard.** Every `await` is a point where another coroutine, another
process or a cancellation may come in, and nearly all state is in a store that
several writers reach with single commands. In particular: a session is popped
before it is recorded as running; a status is read and acted on some awaits
later; five stores are written one after the other when a report is done, and
`asyncio.wait_for` may cut that sequence anywhere; a decision travels on two
ways at once; an entry of the chain of custody may wait in a log while later
entries overtake it; counters are raised before it is known whether they may be;
an update is published before it is in the buffer that a new client replays;
a report is prepared while the results it rests on may still change; a plan
lives in two copies of which either may be the newer one; and a verdict that is
shown early must be the one that is signed later.

**What makes a component correct.**

* *Queue*: a session runs at most once; never more jobs than slots; an accepted
  session is settled; a clean stop leaves no job.
* *Termination*: a session terminated before it started never runs; nobody else
  is touched (the code does not keep this, section 6).
* *Intake*: a finished session never blocks its file; a refused upload leaves nothing
  behind but what its own failed calls explain.
* *Visual context*: one creator per file while nothing expires; no lock is left
  behind; what a call returns is stored for its session.
* *Vision client*: a walk gives up only after every model was tried; uploads are taken
  back from the provider; what is called a model's read is one (not kept, section 6).
* *Investigation*: a signed report rests on the results of the last pass; an
  abort takes as many failures as it claims; a run ends; a deep pass that timed
  out keeps its first findings, and choosing it goes on (neither kept, section 6).
* *Agents*: an agent that returns before its ceiling has a finding for everything it
  planned, whatever became of single Redis commands; a tool runs twice only when a
  reply was lost; a fallback keeps the plan (not kept, section 6).
* *Tools*: an answer goes to the call that asked, unless a caller was cancelled before
  its answer came (section 6).
* *Verdicts*: a clean label is explained; two strong positives stand; more bad
  news never makes a verdict better; a live card does not show what the report
  clears (not kept, section 6).
* *Outcome*: what is announced can be fetched; a stored report keeps its status;
  a poll never takes back "complete"; a session that is over looks over; every
  job ends; a report is durable before it is announced (not kept, section 6).
* *Gates*: a gate acts on decisions made at that gate and discloses timeouts; an
  analyst who looks sees the gate that waits; the pipeline gets through.
* *Metadata*: an answered update is stored; a lost one has a cause one can name.
* *Live updates*: a client misses no more than what was between publishing and
  buffering; it learns of the end, of a termination too, and its socket is not closed
  without the reason.
* *Custody*: rows are linked in the order of signing (not kept after an outage,
  section 6), and always are when the log was not needed; dead letters lose
  nothing; no failure costs more than one entry; every call ends.
* *Quota and model calls*: the limits hold across processes and per sliding window;
  a refusal leaves no trace; every caller is answered; a breaker closes only on
  successes; a share of calls is not exceeded, save by a call that is recorded twice.

The hazards behind these are listed in `PROJECT.json` under "hazards", each at
the line where it bites.

## 2. The modules

Each module names the code it follows in its heading. One action is one stretch
of code between two awaits that matter: usually one command to Redis or
Postgres with the local code around it. A store command may be applied, fail, or
fail after it was applied; failures are counted against a named bound
(`MaxFaults`, `MaxFailures`, `MaxTroubles`, ...). Definitions
under a comment "Mutant of ..." are deliberate bugs that no specification uses: put in
the place of the definition they name, each breaks a property, which shows that the
property depends on the code it is about ("mutants" in `PROJECT.json`).

### The life of a session

**`InvestigationQueue`** - the queue and the worker's loop.
`Submit`/`SubmitFails`/`SubmitUndo` are `submit` with its MULTI and its `except`
branch; `Pop`, `StartJob`, `SkipMissing`, `FetchFails` are one turn of the loop;
`BeginJob`, `BeginFails`, `HandlerEnds`, `CloseJob` are `process_task`;
`Shutdown`, `Drained`, `Crash`, `Restart` are the process. `request` is the state
of an upload's call of `submit`, `held` the local variable of the loop, `job` the
tasks of `active_tasks`. **`DispatchOnce`** is what the queue promises: a session
goes forward from idle to pending, one run and finished, or is gone.
`InvestigationQueue` implements it under the mapping `PhaseOf`.

**`QueuePruning`** - extends the queue by `terminate_session`'s clean-up of the
list: the task record is deleted (`ClearKeys`), the list read (`ReadList`) and
written back (`WriteList`), or Redis fails (`PruneFails`), with submissions and
pops in between.

**`UploadDedup`** - several uploads of one file for one case. Each request runs
`start_investigation` from SET NX of the dedup key (`TryClaim`) over the take-over
of a claim (`ReadClaim`, `CheckExisting`, `DeleteClaim`, `Reclaim`) and the
registration (`WriteMetadata`, `Register`, `ProbeWorker`, `SubmitTask`) to the
answer, or through the clean-up (`CleanClaim`, `ForgetMetadata`). Every command may
raise and have been applied all the same: a request can be refused while its session
stays on the list and runs. `hit`, a history variable, keeps the steps at which a
request's calls failed. The worker's side is the life of a session as far as its status
shows (`StartRun` ... `ReleaseAfterFailure`).

**`SessionOutcome`** - one session from "queued" to its end. The worker's job walks
through `investigation_handler` and `mark_investigation_completed` or
`mark_investigation_failed`; after an exception or a timeout the queue's
`_mark_session_failed` follows (`EscalateMeta`, `EscalateRow`). Beside it run
`terminate_session`, a resume request that is late, and restarts of the API process
with their recovery. The poll is an operator, `PollComplete`, that reads the three
stores in the order of `get_arbiter_status`. Of the metadata only the status is
kept: each of these writers overwrites it.

**`HitlGate`** - one pipeline, its two gates and resume requests, with a worker or
in one process (`mode`). A gate opens (`OpenGate`, `MarkPaused`), takes a decision
that came early (`TakeEarly`), waits for event or key (`SeeEvent`, `PollKey`) or
gives up (`GateTimesOut`), and cleans up. A request reads the status, sets the key
of that gate, publishes, and overwrites the status. Published messages carry no
gate and may be late or lost. The status may fail to be written, since the update gives up
quietly; deletions of keys may fail; a request may end anywhere (`CutOff`), and so may the
run (`CutShort`). Beside the gates the session is terminated (`BeginTermination`,
`DeleteSession`) or taken for an orphan by an API process that starts (`FindOrphan`,
`Interrupt`) while the worker waits on. Two history variables: `late` records that gate 2
opened while something of gate 1 was still on its way, `unmarked` that the pause of the
gate was not written.

**`SessionMetadata`** - the record of a session under concurrent merges. A call of
`update_active_pipeline_metadata` watches, reads and executes (`Watch`, `Get`,
`Exec`), loses rounds to others (`LoseRound`) and after `MaxRetries` of them, or
after a failed command, merges without protection (`Reread`, `Set`); plain writers do
so from the start. `Delete` is `terminate_session`. `record` says for each field
which writer set it last, and `merged`, a history variable, what it would say if every
update were one atomic merge.

**`LiveUpdates`** - one session's broadcasts and one client. A sender puts an update
in the connections of its own process (`SendLocally`), publishes it (`Publish`) and
appends it to the replay buffer (`Push`); the client opens a socket or an SSE stream,
subscribes, replays (`OpenSocket`, `OpenStream`, `Subscribe`, `Replay`), looks at the
status (`CheckStatus`) and listens, over a bounded queue when it is an SSE stream. After
its broadcast a termination tells the sockets on the control channel, closes those of its
process and deletes buffer and metadata (`TellControl`, `CloseSockets`, `Forget`), while
the worker may still finalize. Streams fail, idle sockets are closed, clients leave and
come back.

### The investigation

**`CouncilRun`** - `_run_investigation_core` from intake to signature. A pass is one
step that picks how each agent ended (`InitialPass`, `DeepPass`), since the agents
share nothing the properties look at. `PreWarm` is the background task that
deliberates ahead of a decision; `Invalidate`, `DiscardPreWarm` and `SameInputs` are
what keeps or drops its report; `Deliberate`, `Finalise` and `Sign` are the arbiter's
part with its timeout; `CountFailures` aborts; `Cancel` may come at any await.

**`AgentLoop`** - one pass of one agent: the plan is written (`WritePlan`), pruned,
and followed task by task (`TakeTask`, `RunTool`, `Ground`, `Inject`, `Complete`). Every access to the
working memory is one operator with its outcomes (`GetState`, `CreateTask`,
`UpdateTask`, `UpdateState`): in Redis, in the copy, applied with a lost reply, or
ended by a failing log entry. Tasks added on a result and by `Reflect` join the plan.

**`Verdict`** - what the results of tools and the read of the visual model are turned
into. Its state is what has been found so far; `Report(t)` adds the result of a tool.
`Cleared` is the grounding of uncorroborated positives, `Rule` the rules of the
arbiter, `Label` the verdict of the report, `Signed(a)` and `Card(a)` those of an agent,
in the report and on its live card. Confidences take the values that the thresholds
tell apart.

**`ToolWorkers`** - calls of `run_ml_tool`: a slot of the semaphore (`TakeSlot`), the
worker of the script (`FindWorker`, `StartProcess`), request and answer over its pipe
under its lock (`Write`, `Read`), time-outs with and without the process
(`TimeOut`), and the fresh run (`RunAfresh`). Processes die, hang
or write stray lines (`Misbehave`); callers are cancelled at any await.

**`VisualContext`** - calls of `create_visual_context_preflight` for sessions of one
file: `Look` in the caches, `Elect` by SET NX, `Wait`, `Peek` and `Recheck` for the
others, creation, saving under session and hash, `Release`. `Tick` lets lock and reads expire.

**`GeminiCalls`** - what that creation calls: delivery of the file (`Encode`, `Upload`,
`Poll`), the walk through `Cascade` under a semaphore (`NextModel`, `EnterPool`,
`NextAttempt`), the process's cooldown after repeated outages, and the file's removal
(`Sweep`).

### Logs and limits

**`CustodyChain`** - several chains over one table and one write-ahead log. A call
of `log_entry` takes the lock of its chain (`Start`), reads the last entry and signs
(`AskToLog`), inserts, and then flushes the log, entry by entry (`Pop`, `Replay`, `Bury`,
`Restore`); an entry that could not be inserted is queued. Cancellation may strike
at every await. `Linked` is the check of `verify_chain`.

**`ProviderQuota`** - calls of `check_and_record` for one provider and model in two
processes. `MemoryAllows` is the check of the process's own window, under its lock;
`Count`, `Grant`, `Exceed` raise the three shared counters in turn, `TakeBack` and
`Refuse` lower what a refused call has raised. Redis may fail (`RedisFails`: the
call is allowed on the local window), callers may be cancelled, processes restart.

**`ModelCalls`** - `generate_reasoning_step` behind a breaker per model and
`generate_synthesis` behind the share of its priority, both walking through
`Candidates` and sharing one semaphore; a synthesis that got nothing may try a light model
(`LightRetry`). `Success` and `Failure` are the breaker's two transitions; several calls may
be in flight across a change of its state. `echo`, a history variable, runs while a call that
was recorded twice stands in the window: a 429 is recorded, and again by the handler of the
exception when its Retry-After is not a number.

### Instances and proofs

`MC...` modules are the instances for TLC. Four of them put parts that have no common
variable into one run: `MCPipeline` (queue, investigation, agent, verdicts),
`MCSessions` (outcome, live updates, gates), `MCClaims` (uploads, visual context,
vision client, pruning, tools, metadata) and `MCCalls` (quota, model calls, custody). A
variable `part` is chosen by the initial state and never changes; only that part moves, so
the state space is the sum of those of the parts, and each property speaks of its own.
`..._proofs` modules hold the proofs.

## 3. The runs

| Run | Checks | Distinct states |
|---|---|---|
| `pipeline` | queue: slots, settlement, refinement of `DispatchOnce`; investigation: nothing stale, earned aborts, its end; agent: plan carried out, repeats explained; verdicts: two strong stand, clean is explained, bad news never clears | 322,000 |
| `sessions` | the five properties of the outcome; gap and end of live updates; the gates' decisions, visibility and end | 814,000 |
| `claims` | no false duplicate, refused uploads leave only what their failed calls explain; locks returned, one creator; vision models and uploaded files; terminated sessions never run; tool answers; metadata updates | 2,876,000 |
| `calls` | limits, counters, answers; shares, earned closing; custody chains, dead letters, losses, end of calls | 568,000 |
| `prune_spares` | termination spares others: **violated** | - |
| `outcome_durable` | durable before announced: **violated** | - |
| `council_continues` | choosing a deep pass goes on: **violated** | - |
| `council_evidence` | a timed-out deep pass keeps its findings: **violated** | - |
| `agent_fallback` | a plan that Redis refused is kept: **violated** | - |
| `verdict_card` | the live card agrees with the report on what was cleared: **violated** | - |
| `gemini_reads` | what is called a model's read is one: **violated** | - |
| `custody_linked` | every row linked: **violated** | - |

**The instances, and why they are enough to mean something.**

`pipeline`. *Queue*: three sessions over two slots let the third wait for a slot while
one job begins and another closes; `MaxRuns = 2` leaves room for the second dispatch
that must not happen; one stop, one crash and one fault may occur in one behaviour in
any order. *Investigation*: three agents, and three failures abort, so that an abort needs
all of them and every smaller mixture goes on. *Agent*: a plan of five tasks of all
kinds (with and without a tool, left to others, unregistered, asking for more), a
ceiling of 7 iterations above the tasks it can come to, three lost Redis commands and one
failing log entry: three losses reach the retries of one write. *Verdicts*: eight tools in
three roles with every outcome that the rules tell apart, all eleven reads of the visual
model, screenshots or not, bars of 80 and 70 as in the code.

`sessions`. *Outcome*: two failures reach every handler of a failure inside the handling
of another one; one restart and one late resume may follow. *Live updates*: the pipeline
pauses and completes while the session is terminated; a buffer of two and a queue of
one overflow; a failure or a reconnect, not both, since a failure excuses what the two
properties promise. *Gates*: both modes; two requests
race at one gate, or decide one each, one of them late. Of a pause not written, a recovery
and a termination a behaviour meets one at a time (`OneMisfortune`); the theorems know no
such bound.

`claims`. *Uploads*: three requests are what it takes for one to own the claim, one to
read it and a third to take it in between. *Visual context*: three calls of two sessions,
the lock expires before the reads do, one failure or death. *Vision client*: two
preflights of an image and one of a video, two models, two attempts each, an outage
counter of two, a pool of one, one cancellation. *Pruning*: one slot and no crash isolate
the rewrite of the list; a session can be dispatched three times (it is put back by
another's rewrite), which is why `MaxRuns` is 3. *Tools*: two calls of one script
and one of another, two slots, three workers, one cancelled caller and one bad
process. *Metadata*: two protected writers and a plain one over overlapping fields, one
retry, one failure; one of the writers makes three updates, so that rounds are lost twice.

`calls`. *Quota*: limits of 2 are exceeded by the four calls on each counter, the window of
2 ticks slides over the border of a minute, and costs of 0, 1 and 2 with one critical
call reach every case of the token check. *Model calls*: two agents that call again and
again open, probe and close breakers with threshold and probes of two, so that a call that
began before the breaker opened may end when it is half open; or one agent calls beside two
syntheses with a share of one, which meet it at the semaphore for requests only. *Custody*: calls of one chain race, a third reads after them,
and the other chain's flush writes into the first; the log overflows at 3 entries, a
batch of 2 ends before it is empty.

`CHECK_DEADLOCK FALSE` is set because each system may stop: nobody has to upload,
ask or call again, and one session, pipeline or call does come to its end.

## 4. Fairness

An event loop that has something to run runs some of it; that is weak fairness of all
steps of a process together, and more is assumed only where one coroutine cannot delay
another for ever.

* *Queue*: the loop's steps (with drain and restart) and the steps of the jobs are weakly
  fair. Every handler is bounded by `wait_for`; containers have
  `restart: unless-stopped`. Uploads, faults, stops and crashes are not fair.
* *Investigation*: `Run`, the steps of the investigation itself: every await in it has a
  timeout. Its background task and a cancellation are not fair.
* *Outcome*: the job's own step is weakly fair (event loop; the gates time out).
  Requests, restarts and the timeout are not, so `EveryJobEnds` does not rest on the timeout.
* *Live updates*: finalization, each sender and the stream are weakly fair; each
  waits only for Redis, whose client has a socket timeout. Losing and reconnecting are not.
* *Gates*: the pipeline's step is weakly fair: the agents end and the clock of a gate
  runs out. Neither requests nor the delivery of messages are fair.
* *Quota, custody*: some call that can go on does. An `asyncio.Lock` wakes its
  waiters in order, and every holder leaves it. Failures and cancellations are not fair.
* Everything else is checked for safety only and needs none.

## 5. What is proved

The theorems hold for every value of the constants that meets the named assumption of
their module (`QueueAssumption`, `OutcomeAssumption`, `LoopAssumption`,
`CouncilAssumption`, `ToolAssumption`, `VerdictConstants`, `DedupAssumption`,
`MetadataAssumption`, `VisualAssumption`, `GeminiAssumption`, `CustodyAssumption`,
`QuotaAssumption`, `ModelAssumption`): any number of sessions, calls, tasks, tools and
processes, any limits, any number of failures. The assumptions say no more than that
bounds are natural numbers, that a "nothing" value is none of the things it stands
beside, that a plan is a sequence of tasks, that a call belongs to a chain, a process or a
session, and, where something is counted, that what is counted is finite.

`Queue_proofs` (queue and pruning)
* `TypeCorrect`. Invariant: the type invariant itself.
* `AtMostOneDispatch`. The property is not inductive: it
  does not say that a session on the list has never run. `OnePlace` adds this: the
  list has no duplicates, what is on it or in hand was requested and has not run,
  and the list and the hand are disjoint.
* `QueueDispatchesOnce` (`ImplementsDispatchOnce`): the queue implements `DispatchOnce`.
  `JobsCounted` says that a job exists only for a run that was counted; with `OnePlace`
  there is then at most one, so a session's phase can be read off its first job
  (`MapsAgree`). Each step of the queue moves one session forward, or
  takes a set of sessions that have not finished out of the system (`Simulated`).
* `SlotsRespected` (`ConcurrencyRespected`). `SlotInv` adds that the set of unfinished
  jobs is finite; the argument counts the job that `StartJob` creates against the
  slot `Pop` found free, as no step in between adds a job.
* `GracefulStopDrains`: jobs begin only from the polling loop.
* `TerminatedStaysOut` (`TerminatedBeforeStartNeverRuns`). `GoneInv` says why: only an
  accepted session is terminated (`OnlyAccepted`), a session never started has no job
  (`NoJobBefore`), so nobody is left to write its task record again (`RecordIsGone`),
  and without a record the loop skips it. What the list holds plays no part.
* `SlotsRespectedBesidePruning` (`ConcurrencyRespected`) reuses the steps of
  `SlotsRespected`. The types used (`TablesOK`) leave out list and snapshots: that
  filtering a list of sessions yields one needs induction over the list.

`Session_proofs` (outcome, gates, live updates)
* `TypeCorrect`, in two halves: `Parts` (everything with a value) and `FlagsOK` (the
  truth-valued variables), which two different provers handle.
* `StoredReportStays` (`StoredReportIsFinal`): every writer of the row asks first
  whether it is completed, in the same UPDATE.
* `CompleteIsRetrievable` (`AnnouncedIsRetrievable`), `DegradedTakesTwo` and
  `PollsAgree` (`PollNeverTakesBack`) rest on `CacheInv`: from
  the step of the handler that follows `set_final_report` on, the report is in the
  cache or a call has failed (`CachedOnTheWay`); so it is when a message was sent
  (`CachedWhenTold`) and when row or status say "completed" (`CachedWhenShown`);
  nothing empties the cache. The properties alone do not say where in
  `mark_investigation_completed` the handler is, so they are not inductive.
* `EndIsSeen` (`EndedIsVisible`) rests on `EndInv`: a recovery or a late resume under way
  has been counted (`BusyIsCounted`), and a job that ran alone and without a failure
  has marked the status when it ends (`EndIsMarked`).
* `GateTypeCorrect`, `DecisionsAreExplained` (`GatesExplained`), `UndecidedIsVisible`
  (`WaitingIsVisible`). The invariants say that a stored key, a published message and a
  set event each come from a request that won its gate and wished just that (`Decided`);
  a message names no gate, so `GateOneInv` holds while there is only the first, and
  `GateTwoInv` says what may be left over when the second begins. `PauseIsShown`: only a
  request that has won, a recovery and a termination change the status under a gate that has
  declared its pause. What happens beside the gates is dealt with once (`OutsideKeeps`).
* `LiveTypeCorrect`. `GapStaysNarrow` (`GapIsNarrow`): an append adds one to what was
  pushed and a full buffer loses one (`PushedInv`); at the replay a client lacks only what the
  buffer no longer holds and what each sender has published and not yet appended, and
  afterwards it comes to lack no more (`FreshInv`, `GapInv`). That a fold over the queue
  keeps what it may not drop is proved for the library's recursive function by induction on the length.
* `SocketsAreToldWhy`, the action part of `EndIsShown`. `SocketToldInv`: a termination is
  sent to the sockets of its own process before it closes them, so a socket that was
  listed then has the reason shown or in its queue.

`AgentLoop_proofs`
* `LoopTypeCorrect`. `LoopInv` splits into what is said of the two copies of the memory
  (`MemPart`) and of the loop's position (`ControlPart`); that a lookup, an update or
  the script of `create_task` leaves a list of tasks one is a lemma each.
* `LoopCarriesOutPlan` (`PlanCarriedOut`). `PlanInv` says that there is one
  account of what each task is about, and that both copies of the list and the loop's
  view of it follow it (`Follows`): every task in them is one of those created, what is
  marked has a finding or is in hand (`Taken`), and the whole plan is there (`Owed`,
  `Shown`) unless it was founded anew or a log entry was lost. A loop that returns below its
  ceiling has read a list with nothing pending. The first pending task is a `CHOOSE` of
  the least position, whose existence comes from the well-foundedness of `Nat`.
* `RepeatsHaveCause` (`RepeatsExplained`). Each access is given its price: `After(m, n, k)`
  says that memory `n` came out of `m` and at least `k` failures were spent on it
  (`UpdateCosts`: the two copies disagree on a mark only after two; `CreateCosts`: the process
  has the old list and Redis the new one only after two). `RepeatInv` adds up these prices.
  `Paired`: up to one failure both copies list the same tasks, up to two the process knows no
  more than Redis. `Viewed`: the loop acts on tasks the memory has, and what it sees as
  pending was not run. `InHand` and `Rested`: the task in hand, and every task that was run
  and put down, is marked in both copies, unless it was appended twice or there were
  failures enough: two for the task in hand, which is marked again, four for the others.
  That an access leaves such a set of lists is one lemma for all of them
  (`Shut`: a list in which more tasks are taken up stays in the set). All of it is needed
  because a lost mark does not show at once: a tool is repeated only when a later failure
  makes the loop read the copy without the mark.

`Council_proofs` (investigation, tools, verdicts)
* `CouncilTypeCorrect`.
* `ReportIsCurrent` (`NothingStaleReported`). `Rests` says on which pass the arbiter's
  report, the one in preparation and the ended pre-warm rest at every stage.
* `AbortTakesFailures` (`AbortIsEarned`). `AbortInv` relates those that the code counts as
  failed to those that lost a pass (`Lost`); the rest is the monotony of cardinality.
* `ToolTypeCorrect`, `AnswersAreOwn` (`AnswerIsOwn`). The property does not speak of what
  lies in the pipes. `Locked` says that the call that uses a process has its worker's
  lock, and `PipesOf` that the pipes of a process that is not tainted hold nothing but noise,
  or the request or the one answer of the call that reads from it: a call that gives up
  has the process replaced, so that no late answer is left for the next.
* `VerdictTypeCorrect`, `TwoStrongAlwaysStand` (`TwoStrongStand`),
  `CleanReportsAreExplained` (`CleanIsExplained`), `BadNewsClearsNothing`
  (`BadNewsNeverClears`), for every table of tools, roles and bars: the counts in the
  verdict functions grow with the sets they count, which are finite.

`Upload_proofs` (uploads and metadata)
* `MetaTypeCorrect`, with `RoundsLeft`: a call in its rounds has one left.
* `AnswersAreStored` (`AnsweredIsStored`). `RouteKnown` says how a call that merges
  without protection got there; the answer depends on it.
* `LostUpdatesHaveCause` (`LossHasCause`). `LossInv` adds `CopyIsCurrent` (between GET and
  EXEC an untouched key still holds what was read: this is what WATCH is for) and
  `WritesCount` (a round lost is a write by somebody else, so a call that has used up
  its rounds has met that many).
* `UploadTypeCorrect`, `DuplicatesAreReal` (`NoFalseDuplicate`), `RefusalsLeaveNothing`
  (`FailedUploadLeavesNoSession`). `ClaimantWon` and `FoundWon`: as long as no call has
  failed, the claim on a hash, and every copy of it that another request has read, names a
  request that won it, and winners stay winners. `TakenByThird`: a request that deleted a dead
  claim finds no claim or that of a third. `StoredInv` says at which steps a request can have a
  session or a record, and which failed call left it there.

`Vision_proofs` (visual context and vision client)
* `VisualTypeCorrect`.
* `LockIsReturned` (`NoLockLeftBehind`). `OwnerAtWork`: a standing lock is that of a
  call which is still between its election and its release.
* `ContextIsStored`: a call returns a context only after it was stored for its own
  session. `HeldIsStored` follows it through the two saves.
* `OneCreatorElected` (`FirstCreationAlone`). `SoleCreator`: while nothing has
  failed or expired and nothing is stored, whoever creates holds the lock.
* `GeminiTypeCorrect`, `UploadsComeBack` (`UploadsAreRemoved`), `FilesAreNotStranded`
  (`NoFileStranded`). `FileAccounted`: a file the provider has is known by name, or a
  deletion has lost it, or its call was cut short. `Started` says how far a preflight has
  got, for which the walk over the models never passes the end of the cascade.

`Custody_proofs`
* `TypeCorrect`; its invariant contains that an active call is exactly the holder of
  its chain's lock.
* `DeadLettersSettled` (`DeadAreSettled`), from the type invariant: the table only grows.
* `NoFalseAlarm` (`UndivertedChainsVerify`). `ChainInv` adds `SignedFirst` (an
  unsigned entry is not stored), `OnlyDiverted` (the log holds only entries of calls
  that fell back on it, so flushes write only into diverted chains) and `KnowsLast`
  (between reading the last entry and the insert, it stays the last one: this is what
  the lock is for).
* `FailuresLoseOneEach` (`OneLossPerFailure`): no step loses more
  entries than it adds failures and overflows to those counted (`Loses`); `OwnRow`: a call that flushes has
  stored its own entry, so giving up there costs nothing of its own.

`Provider_proofs` (quota and model calls)
* `TypeCorrect`.
* `LimitsKept` (`LimitsRespected`), from two invariants. `WindowInv` adds that memory
  holds only allowed calls of its own process and that what the check found is still
  true of the call that holds the lock, whatever the clock does meanwhile
  (`WindowsNeverOverflow`). `BucketInv`
  says that a counter of calls is never below the number of calls that raised it and
  did not take it back (failures can only leave it higher), and that a call takes
  each counter back once (`ProcessesShareTheLimit`); a call that finds the counter within
  the limit is then one of at most that many.
* `SharedCountersKept` (`CountersKept`). A call owes a counter its amount from the
  increment until it is taken back. `OwedIsCounted`: a counter is at least what is owed to
  it, and just that while nothing was disturbed; `TokensFit`: the tokens of the calls that were let
  through fit the limit. The sum over calls is the library's, a recursive function on subsets; that
  there is one, and that the order of the summands does not matter, is proved by induction on
  the number of elements.
* `ModelTypeCorrect`, `SharesAreRespected` (`ShareRespected`), `ClosingsAreEarned`
  (`ClosingIsEarned`). `HasCandidate`: a call about to ask has a model to ask.
  `CountIsKept`: the breaker's count of successes is that of the successes while half open.
  `OneAtATime` and `RoomForCall`: one synthesis at a time is past its turn, and between its
  check of the share and its call there is room for that call. `SurplusIsNew`: a record too many is the
  newest of the window and as old as `echo` says, so that it leaves with it.

Only model-checked:
* everything that must happen some time (`AcceptedIsSettled`, `RunEnds`, `EveryJobEnds`,
  `GatesAreLeft`, `CallersAnswered`, `CallsEnd`, and that part of `EndIsShown`): the
  prover has no liveness under fairness.

Every other property of a passing run is stated by a theorem.

## 6. Where the code and its documentation disagree

Each is a run that ends in a counterexample, listed with its quotations under
"findings" in `PROJECT.json`.

* `prune_spares`: `terminate_session` reads the list and later replaces it; a session
  submitted in between is dropped, though it was accepted.
* `outcome_durable`: when the INSERT of the report fails the session is announced
  complete all the same, with the report in Redis only.
* `council_continues`: choosing a deep pass cancels the pre-warm and awaits it under
  `except Exception`; the `CancelledError` ends the investigation as if it had been cancelled.
* `council_evidence`: the error of a deep pass that timed out is the empty string, which is
  not counted as a failure but is no `None` either: its findings are replaced.
* `agent_fallback`: the first update after a plan that Redis refused makes a record
  without tasks, and this replaces the copy that had them.
* `verdict_card`: the gate of the live card replaces only findings that are dicts; an
  agent's are objects, so the card keeps what the report clears.
* `gemini_reads`: in the cooldown a local analysis is given out, and stored, as the
  read of the model.
* `custody_linked`: an entry that waited in the log and the next entry of its agent name
  the same predecessor, so `verify_chain` reports a broken chain after a mere outage.

Other behaviour the models contain, which a reader should know and which no
statement of the repository contradicts clearly enough to be a finding, or which is
of less consequence:

* *Queue*: a stop within the grace period loses a session that was popped and not
  started. Nothing re-queues the jobs of a killed worker; their task records stay RUNNING.
* *Uploads*: only running, paused and queued count as active
  (`api/routes/investigation.py:537`), so the claim of a session that awaits a decision is taken over.
  Two uploads that both find a dead claim may both get it, one after the other.
* *Outcome*: after a degraded outcome the queue's failure path overwrites the status by
  "error" and broadcasts it; on a timeout the broadcast precedes the row. Terminating a
  session does not stop its job in the worker. The recovery after an API restart marks
  sessions interrupted that a worker is running.
* *Gates*: the decision key is taken by the pipeline before the first request has changed
  the status, so a second request is also told "resumed". A gate may wait where no request
  reaches it: its pause was not written and nobody is told (`_session_state.py:244`), or an API
  process that started has marked the session as interrupted, although the comment at
  `api/lifespan.py:349` takes it that no pipeline is running, or the session was terminated. The
  gate then ends by its timeout.
* *Metadata*: a call that lost its rounds, and the writers that get and set by themselves,
  undo what others merged in between: the docstring at `_session_state.py:168` promises
  an atomic merge "at every call site" and tells of the unprotected write at its end.
* *Live updates*: a replayed pause counts as the end of a session (`sse.py:160`), so a
  stream that reconnects between a pause and the end may not be told of the end. A
  termination cannot close an SSE stream, whose consumer has no `close` (`sessions.py:193`): it
  stays open, and is not told when it reconnects later, as only "completed" and "error" are
  read from the metadata. The pings of a socket call `websocket.ping` (`_websocket.py:344`), which
  the class of the framework does not have: they end at the first, and a socket over which
  nothing went for 300 s is closed.
* *Visual context*: a waiter whose miss precedes the save and whose look at the lock
  follows the release creates once more; every hit saves again and renews the TTL; the release is
  GET and DELETE, so it may remove another's lock.
* *Vision client*: nothing limits a window after the cooldown to one probe, as the comment at
  `gemini_client.py:1029` says; time-outs of the HTTP client do not count for it; the file stays
  with the provider when the key is refused, the answer is blocked or the caller is cut off.
* *Investigation*: a pre-warm that has finished is never used, although
  the comment at `orchestration/pipeline.py:737` says the deliberation waits for it: only one still at
  work, with equal inputs, is kept. An agent that
  fails to initialise is reported as unsupported.
* *Agents*: a failing log entry ends a loop that could go on; an outage at the end of an
  iteration aborts the agent; a loop that cannot read its memory reports that it
  completed; a task that was appended twice runs until the ceiling.
* *Verdicts*: a suspicious visual read is treated as a clean one by the grounding
  (`core/arbiter_deliberation.py:326`) though `core/severity.py:53` counts it as corroboration; the
  metadata agent's card inherits the visual read and its signed verdict does not; positives that
  are not defensible count in an agent's verdict and not in the label.
* *Tools*: a cancelled call leaves its process running and its answer in the pipe, where
  the next call of that script reads it as its own; and its slot is free for another
  while the process still works.
* *Model calls*: a half-open breaker admits any number of calls, and successes of calls that
  began before it opened count for closing it. A 429 whose Retry-After is a date is recorded
  twice (`core/llm_client.py:943`, `:998`), one more than the share.
* *Custody*: an exception while the last entry is read leaves `log_entry` before the log is
  tried; the log is flushed only by a later call that succeeds; its cap drops the newest.
* *Quota*: a refusal whose taking-back fails becomes a permission; counters are too high
  for a moment while a refusal is taken back, which may refuse others; all providers of
  a process share one lock.

## 7. What the models leave out

* The time to live of Redis keys where nothing rests on it: dedup claims, metadata,
  decision keys, cached reports (`PollNeverTakesBack` is about a time within the report's TTL),
  counters of past minutes. `VisualContext` and `GeminiCalls` have clocks. The bound of 1000
  dead letters.
* The contents of reports, findings, prompts and messages, and all signal processing:
  they are values to the control. Signatures are taken as valid for what was signed. Of the
  scores, `Verdict` keeps the comparisons with thresholds; the formulas of confidence are
  floating-point arithmetic that no verdict depends on.
* `expected_phase` in resume requests, request validation and authorization, the
  token budget of an investigation: they only refuse more.
* Reasoning steps proposed by a model (`LLM_ENABLE_REACT_REASONING`, off by default) and the
  pauses of the loop for a human, which no investigation reaches.
* The mode without a worker, except at the gates. `_supersede_prior_investigations`, which
  only a setting that `core/config.py` does not define would call.
* More than one worker process: the deployment has one; the in-memory lock of the
  chain of custody and the slot count rely on that.
* The composition of parts that call each other: each caller takes what it calls by its
  possible answers (`CouncilRun` the agents, `VisualContext` the vision client,
  `InvestigationQueue` the handler). The parts of one run share no variable, so their product
  would add interleavings and no behaviour that a property speaks of.
* The components with status "not_modelled" in `PROJECT.json`, each with its reason:
  the narrative writers (`agents/arbiter_narrative.py`, `core/synthesis.py`,
  `core/per_agent_synthesis.py`) choose words for verdicts that are settled by then; tools and
  handlers are signal processing; exports are layout; the rest are I/O wrappers,
  configuration, request guards and the front end.

## 8. Plan

What would add most, in this order:

1. `SessionOutcome` with `SessionMetadata`: the status is a field of a record that is
   merged; the outcome's writers would be calls of that module, with the abstract record as
   refinement (a map to which updates are applied one by one).
2. `UploadDedup` with `InvestigationQueue`: what a refused upload that is popped after all
   does to the slots and to the other sessions of its file.
3. `VisualContext` over `GeminiCalls`: `Create` replaced by the client's walk, with the TTL of
   the lock against the client's retries.
4. `api/routes/auth.py`, `core/rate_limiting.py`: windows and lockouts over shared
   counters, of the kind that `ProviderQuota` shows.
