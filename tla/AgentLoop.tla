------------------------------ MODULE AgentLoop ------------------------------
(***************************************************************************)
(* The investigation of one agent (agents/mixins/investigation.py): its    *)
(* plan is written to the working memory (core/working_memory.py), and the *)
(* loop (core/react_loop.py) takes one task per iteration, runs the tool   *)
(* of the task, adds the tasks the result asks for, and marks the task as  *)
(* done.  The working memory is a record in Redis with a copy in the       *)
(* process for the time Redis is away; most accesses are also written to   *)
(* the chain of custody.                                                   *)
(*                                                                         *)
(* No other task writes the record of this agent, so each access is one    *)
(* step with several outcomes; reads that nothing depends on are left out. *)
(* The loop is the one that follows the plan (LLM_ENABLE_REACT_REASONING=  *)
(* false, the default).  Tasks and tools have the same name.               *)
(***************************************************************************)
EXTENDS Naturals, Sequences, FiniteSets, SequencesExt

CONSTANTS
  Plan,        \* task_decomposition: a sequence of tasks
  Toolless,    \* tasks the router finds no tool for
  LeftToOthers,\* tasks the pipeline does itself (skip_tasks)
  Unregistered,\* tasks whose tool this agent has not registered
  Asks,        \* the tasks on_tool_result adds after a tool that flags
  Absences,    \* the tasks the self-reflection adds when they are missing
  Ceiling,     \* iteration_ceiling
  MaxOutages, MaxAuditFaults, \* bounds: failed Redis commands, failed log entries
  Nothing, NoTask

Tasks == ToSet(Plan) \cup Absences \cup UNION {ToSet(Asks[t]) : t \in DOMAIN Asks}

Status == {"PENDING", "IN_PROGRESS", "COMPLETE"}
Task == [id : Nat, what : Tasks, status : Status]

ASSUME LoopAssumption ==
  /\ Plan \in Seq(Tasks) /\ IsInjective(Plan) /\ Plan # <<>>
  /\ DOMAIN Asks \subseteq Tasks /\ \A t \in DOMAIN Asks : Asks[t] \in Seq(Tasks)
  /\ IsFiniteSet(Absences)
  /\ Toolless \cap LeftToOthers = {} /\ Toolless \cup LeftToOthers \cup Unregistered \subseteq Tasks
  /\ Ceiling \in Nat \ {0} /\ MaxOutages \in Nat /\ MaxAuditFaults \in Nat
  /\ NoTask \notin Task /\ Nothing \notin Seq(Task)

VARIABLES
  step,      \* where the agent is
  memory,    \* the record in Redis, its copy in the process, the faults so far
  view,      \* the tasks as last read by the loop
  iteration, \* _current_iteration
  current,   \* the task in hand
  reflected, \* the self-reflection has added tasks in this iteration
  wanted,    \* tasks still to be added after a result
  findings,  \* tools (and toolless tasks) with a finding
  recorded,  \* _tool_context: tools whose handler returned
  made,      \* number of tasks created, the last identifier
  runsOf,    \* history: how often each tool was run
  doubled,   \* history: tasks that were appended a second time
  refounded  \* history: the record was made anew without the plan

loopVars == <<step, memory, view, iteration, current, reflected, wanted, findings, recorded,
              made, runsOf, doubled, refounded>>

AgentEnds == {"returned", "raised", "cut off"}
Steps == {"plan", "snapshot", "scan", "prune", "head", "orphans", "choose", "reflect",
          "prepare", "run", "ground", "react", "save"} \cup AgentEnds
New(n, t) == [id |-> n, what |-> t, status |-> "PENDING"]

LoopTypeOK ==
  /\ step \in Steps
  /\ memory \in [redis : Seq(Task) \cup {Nothing}, copy : Seq(Task),
                 outages : 0 .. MaxOutages, losses : 0 .. MaxAuditFaults]
  /\ view \in Seq(Task)
  /\ iteration \in 0 .. Ceiling
  /\ current \in Task \cup {NoTask}
  /\ reflected \in BOOLEAN
  /\ wanted \in Seq(Tasks)
  /\ findings \subseteq Tasks /\ recorded \subseteq Tasks
  /\ made \in Nat
  /\ runsOf \in [Tasks -> 0 .. Ceiling]
  /\ doubled \subseteq Tasks
  /\ refounded \in BOOLEAN

LoopInit ==
  /\ step = "plan"
  /\ memory = [redis |-> Nothing, copy |-> <<>>, outages |-> 0, losses |-> 0]
  /\ view = <<>> /\ iteration = 0 /\ current = NoTask
  /\ reflected = FALSE /\ wanted = <<>> /\ made = 0
  /\ findings = {} /\ recorded = {}
  /\ runsOf = [t \in Tasks |-> 0] /\ doubled = {} /\ refounded = FALSE

-----------------------------------------------------------------------------
(* The working memory.  An access has several outcomes: the memory after   *)
(* it and the tasks it returned, or Broken for an exception.               *)
Broken == Nothing
Outcome(m, s) == [mem |-> m, got |-> s]
Fails(m) == Outcome(m, Broken)

(* One more failed command, one more failed log entry. *)
Down(m) == IF m.outages < MaxOutages THEN {[m EXCEPT !.outages = @ + 1]} ELSE {}
Unlogged(m) == IF m.losses < MaxAuditFaults THEN {[m EXCEPT !.losses = @ + 1]} ELSE {}

(* log_entry at the end of an access: its exception is the access's. *)
Audited(O) == O \cup UNION {{Fails(n) : n \in Unlogged(o.mem)} : o \in {p \in O : p.got # Broken}}

(* Mutant of GetState: a failed read is a record without tasks.            *)
GetStateEmpty(m) == Audited(
  {Outcome(m, IF m.redis = Nothing THEN m.copy ELSE m.redis)} \cup {Outcome(n, <<>>) : n \in Down(m)})

GetState(m) == Audited(
  {Outcome(m, IF m.redis = Nothing THEN m.copy ELSE m.redis)} \cup {Outcome(n, n.copy) : n \in Down(m)})

(* save_state, and the SET at the end of the non-atomic fallbacks. *)
SetBoth(m, s) ==
  LET k == [m EXCEPT !.copy = s] IN
  {Outcome([k EXCEPT !.redis = s], s)}
    \cup {Fails(n) : n \in Down(k)} \cup {Fails([n EXCEPT !.redis = s]) : n \in Down(k)}

Places(s, id) == {i \in DOMAIN s : s[i].id = id}
Mark(s, id, st) == [s EXCEPT ![CHOOSE i \in Places(s, id) : \A j \in Places(s, id) : i <= j].status = st]

LegacyUpdateTask(m, id, st) == UNION {
  IF o.got = Broken \/ Places(o.got, id) = {} THEN {Fails(o.mem)}
  ELSE SetBoth(o.mem, Mark(o.got, id, st)) : o \in GetState(m)}

(* The script changes the first task of that identifier; when it finds     *)
(* none, the fallback is tried, and once more if it fails.                 *)
UpdateTask(m, id, st) ==
  LET known == m.redis # Nothing /\ Places(m.redis, id) # {}
      s == Mark(m.redis, id, st)
      Twice(n) == UNION {IF o.got = Broken THEN LegacyUpdateTask(o.mem, id, st) ELSE {o} :
                           o \in LegacyUpdateTask(n, id, st)} IN
  Audited(
    (IF known THEN {Outcome([m EXCEPT !.redis = s, !.copy = s], s)} ELSE Twice(m))
      \cup (UNION {LegacyUpdateTask(n, id, st) : n \in Down(m)})
      \cup (IF known THEN UNION {LegacyUpdateTask([n EXCEPT !.redis = s], id, st) : n \in Down(m)} ELSE {}))

(* update_state, which leaves the tasks alone or sets them (tasks # None). *)
(* The script makes a record without tasks where it finds none.            *)
UpdateState(m, tasks) ==
  LET base == IF m.redis = Nothing THEN <<>> ELSE m.redis
      s == IF tasks = Nothing THEN base ELSE tasks
      Legacy(n) == UNION {IF o.got = Broken THEN {o}
                          ELSE SetBoth(o.mem, IF tasks = Nothing THEN o.got ELSE tasks) : o \in GetState(n)} IN
  Audited({Outcome([m EXCEPT !.redis = s, !.copy = s], s)}
            \cup UNION {Legacy(n) \cup Legacy([n EXCEPT !.redis = s]) : n \in Down(m)})

(* The script appends the task; when its reply is lost, the fallback       *)
(* appends it once more.                                                   *)
CreateTask(m, task) ==
  LET s == Append(m.redis, task)
      Fallback(n) == UNION {IF o.got = Broken THEN {o} ELSE UpdateState(o.mem, Append(o.got, task)) : o \in GetState(n)} IN
  (IF m.redis = Nothing THEN Fallback(m) ELSE {Outcome([m EXCEPT !.redis = s, !.copy = s], s)})
    \cup (UNION {Fallback(n) : n \in Down(m)})
    \cup (IF m.redis = Nothing THEN {} ELSE UNION {Fallback([n EXCEPT !.redis = s]) : n \in Down(m)})

-----------------------------------------------------------------------------
(* The loop *)
Named(s) == {s[i].what : i \in DOMAIN s}
First(s, st) == LET P == {i \in DOMAIN s : s[i].status = st} IN
  IF P = {} THEN NoTask ELSE s[CHOOSE i \in P : \A j \in P : i <= j]

Remember(m) ==
  /\ memory' = m
  /\ refounded' = (refounded \/ (memory.redis = Nothing /\ m.redis = <<>>))
  /\ doubled' = doubled \cup {t \in Tasks : Cardinality({i \in DOMAIN m.copy : m.copy[i].what = t}) > 1}
Forget == UNCHANGED <<memory, refounded, doubled>>

(* initialize: a failed SET is only logged, a failed log entry is not. *)
WritePlan ==
  LET s == [i \in DOMAIN Plan |-> New(i, Plan[i])]
      k == [memory EXCEPT !.copy = s]
      O == {Outcome([k EXCEPT !.redis = s], s)} \cup UNION {{Outcome(n, s), Outcome([n EXCEPT !.redis = s], s)} : n \in Down(k)} IN
  /\ step = "plan"
  /\ \E o \in Audited(O) : Remember(o.mem) /\ step' = (IF o.got = Broken THEN "raised" ELSE "snapshot")
  /\ made' = Len(Plan)
  /\ UNCHANGED <<view, iteration, current, reflected, wanted, findings, recorded, runsOf>>

(* _publish_tool_registry_snapshot, whose exception is only logged. *)
PublishSnapshot ==
  /\ step = "snapshot" /\ step' = "scan"
  /\ \E o \in UpdateState(memory, Nothing) : Remember(o.mem)
  /\ UNCHANGED <<view, iteration, current, reflected, wanted, findings, recorded, made, runsOf>>

(* _prune_unregistered_tasks: any exception ends it. *)
Scan ==
  /\ step = "scan"
  /\ \E o \in GetState(memory) :
       /\ Remember(o.mem)
       /\ \/ o.got = Broken /\ step' = "head" /\ UNCHANGED view
          \/ o.got # Broken /\ step' = "prune" /\ view' = o.got
  /\ UNCHANGED <<iteration, current, reflected, wanted, findings, recorded, made, runsOf>>

Prunable == {i \in DOMAIN view : view[i].status = "PENDING" /\ view[i].what \in Unregistered}

Prune == \E i \in Prunable :
  /\ step = "prune" /\ \A j \in Prunable : i <= j
  /\ \E o \in UpdateTask(memory, view[i].id, "COMPLETE") :
       Remember(o.mem) /\ step' = (IF o.got = Broken THEN "head" ELSE "prune")
  /\ view' = [view EXCEPT ![i].status = "COMPLETE"]
  /\ UNCHANGED <<iteration, current, reflected, wanted, findings, recorded, made, runsOf>>

Pruned ==
  /\ step = "prune" /\ Prunable = {} /\ step' = "head"
  /\ Forget
  /\ UNCHANGED <<view, iteration, current, reflected, wanted, findings, recorded, made, runsOf>>

(* The next iteration; a memory that cannot be read ends the loop. *)
NextIteration ==
  /\ step = "head" /\ iteration < Ceiling
  /\ iteration' = iteration + 1 /\ reflected' = FALSE
  /\ \E o \in GetState(memory) :
       /\ Remember(o.mem)
       /\ \/ o.got = Broken /\ step' = "returned" /\ UNCHANGED view
          \/ o.got # Broken /\ step' = "orphans" /\ view' = o.got
  /\ UNCHANGED <<current, wanted, findings, recorded, made, runsOf>>

CeilingReached ==
  /\ step = "head" /\ iteration = Ceiling /\ step' = "returned"
  /\ Forget
  /\ UNCHANGED <<view, iteration, current, reflected, wanted, findings, recorded, made, runsOf>>

(* Mutant of CompleteOrphan: the task is taken up again.                   *)
ResumeOrphan ==
  LET t == First(view, "IN_PROGRESS") IN
  /\ step = "orphans" /\ t # NoTask
  /\ \E o \in UpdateTask(memory, t.id, "PENDING") : Remember(o.mem)
  /\ view' = Mark(view, t.id, "PENDING")
  /\ UNCHANGED <<step, iteration, current, reflected, wanted, findings, recorded, made, runsOf>>

(* A task still in progress was run: the mark was lost.                    *)
CompleteOrphan ==
  LET t == First(view, "IN_PROGRESS") IN
  /\ step = "orphans" /\ t # NoTask
  /\ \E o \in UpdateTask(memory, t.id, "COMPLETE") : Remember(o.mem)
  /\ view' = Mark(view, t.id, "COMPLETE")
  /\ UNCHANGED <<step, iteration, current, reflected, wanted, findings, recorded, made, runsOf>>

Reread ==
  /\ step = "orphans" /\ First(view, "IN_PROGRESS") = NoTask /\ step' = "choose"
  /\ \E o \in GetState(memory) :
       /\ Remember(o.mem)
       /\ view' = IF o.got = Broken THEN view ELSE o.got
  /\ UNCHANGED <<iteration, current, reflected, wanted, findings, recorded, made, runsOf>>

(* A task without a tool of its own. *)
PassOver ==
  LET t == First(view, "PENDING") IN
  /\ step = "choose" /\ t # NoTask /\ t.what \in LeftToOthers \cup Toolless
  /\ \E o \in UpdateTask(memory, t.id, "COMPLETE") : Remember(o.mem)
  /\ findings' = findings \cup ({t.what} \cap Toolless)
  /\ step' = "save"
  /\ UNCHANGED <<view, iteration, current, reflected, wanted, recorded, made, runsOf>>

TakeTask ==
  LET t == First(view, "PENDING") IN
  /\ step = "choose" /\ t # NoTask /\ t.what \notin LeftToOthers \cup Toolless
  /\ \E o \in UpdateTask(memory, t.id, "IN_PROGRESS") : Remember(o.mem)
  /\ current' = t /\ step' = "prepare"
  /\ UNCHANGED <<view, iteration, reflected, wanted, findings, recorded, made, runsOf>>

(* Nothing is pending: the self-reflection may report absences no task of  *)
(* the view is about, once an iteration.                                   *)
Reflect == \E A \in SUBSET (Absences \ Named(view)) :
  /\ step = "choose" /\ First(view, "PENDING") = NoTask
  /\ A # {} => ~reflected /\ iteration < Ceiling
  /\ wanted' = SetToSeq(A)
  /\ reflected' = (A # {})
  /\ step' = IF A = {} THEN "returned" ELSE "reflect"
  /\ Forget
  /\ UNCHANGED <<view, iteration, current, findings, recorded, made, runsOf>>

(* The record is read and the whole of it saved again, with what the       *)
(* reasoning around a tool notes in it; an exception is only logged.       *)
SavedAgain(m) == UNION {
  IF o.got = Broken THEN {o.mem} ELSE {p.mem : p \in SetBoth(o.mem, o.got)} : o \in GetState(m)}

(* pre_tool_reasoning: nothing once the agent is primed.                   *)
Prepare ==
  /\ step = "prepare" /\ step' = "run"
  /\ \/ Forget
     \/ \E m \in {o.mem : o \in GetState(memory)} \cup SavedAgain(memory) : Remember(m)
  /\ UNCHANGED <<view, iteration, current, reflected, wanted, findings, recorded, made, runsOf>>

(* The tool returns a result that calls for more, another result, an       *)
(* error, or a result that is taken as an error because its log entry      *)
(* failed.                                                                 *)
RunTool ==
  LET t == current.what IN
  /\ step = "run" /\ step' = "ground"
  /\ \/ wanted' \in {<<>>} \cup (IF t \in DOMAIN Asks THEN {Asks[t]} ELSE {}) /\ recorded' = recorded \cup {t} /\ Forget
     \/ wanted' = <<>> /\ UNCHANGED recorded /\ Forget
     \/ wanted' = <<>> /\ recorded' = recorded \cup {t} /\ \E n \in Unlogged(memory) : Remember(n)
  /\ runsOf' = [runsOf EXCEPT ![t] = @ + 1]
  /\ findings' = findings \cup {t}
  /\ UNCHANGED <<view, iteration, current, reflected, made>>

(* post_tool_reasoning *)
Ground ==
  /\ step = "ground" /\ step' = "react"
  /\ \E m \in SavedAgain(memory) : Remember(m)
  /\ UNCHANGED <<view, iteration, current, reflected, wanted, findings, recorded, made, runsOf>>

(* inject_task: not what is planned already, or has a result. *)
Inject ==
  LET t == Head(wanted) IN
  /\ step \in {"react", "reflect"} /\ wanted # <<>>
  /\ wanted' = Tail(wanted) /\ made' = made + 1
  /\ \E o \in GetState(memory) :
       IF o.got = Broken \/ t \in Named(o.got) \cup recorded THEN Remember(o.mem)
       ELSE \E c \in CreateTask(o.mem, New(made + 1, t)) : Remember(c.mem)
  /\ UNCHANGED <<step, view, iteration, current, reflected, findings, recorded, runsOf>>

(* After the reflection's tasks the plan is read again. *)
ReadAgain ==
  /\ step = "reflect" /\ wanted = <<>>
  /\ \E o \in GetState(memory) :
       /\ Remember(o.mem)
       /\ \/ o.got = Broken /\ step' = "returned" /\ UNCHANGED view
          \/ o.got # Broken /\ step' = "orphans" /\ view' = o.got
  /\ UNCHANGED <<iteration, current, reflected, wanted, findings, recorded, made, runsOf>>

(* _update_task_complete: by identifier; failing that, the first task in   *)
(* progress; failing that, in the copy alone.                              *)
AllDone(s) == [i \in DOMAIN s |-> IF s[i].status = "IN_PROGRESS" THEN [s[i] EXCEPT !.status = "COMPLETE"] ELSE s[i]]

CompleteInCopy(m) == {IF o.got = Broken THEN o.mem ELSE [o.mem EXCEPT !.copy = AllDone(o.got)] : o \in GetState(m)}

CompleteAny(m) == UNION {
  IF o.got = Broken \/ First(o.got, "IN_PROGRESS") = NoTask THEN CompleteInCopy(o.mem)
  ELSE UNION {IF u.got = Broken THEN CompleteInCopy(u.mem) ELSE {u.mem} :
                u \in UpdateTask(o.mem, First(o.got, "IN_PROGRESS").id, "COMPLETE")} : o \in GetState(m)}

Complete ==
  /\ step = "react" /\ wanted = <<>> /\ step' = "save"
  /\ \E o \in UpdateTask(memory, current.id, "COMPLETE") :
       \E m \in (IF o.got = Broken THEN CompleteAny(o.mem) ELSE {o.mem}) : Remember(m)
  /\ current' = NoTask
  /\ UNCHANGED <<view, iteration, reflected, wanted, findings, recorded, made, runsOf>>

(* The iteration is written down, without a handler for its exception. *)
Save ==
  /\ step = "save"
  /\ \E o \in UpdateState(memory, Nothing) :
       Remember(o.mem) /\ step' = (IF o.got = Broken THEN "raised" ELSE "head")
  /\ UNCHANGED <<view, iteration, current, reflected, wanted, findings, recorded, made, runsOf>>

(* The timeout of the agent or of the session, a termination. *)
CutOff ==
  /\ step \notin AgentEnds /\ step' = "cut off"
  /\ Forget
  /\ UNCHANGED <<view, iteration, current, reflected, wanted, findings, recorded, made, runsOf>>

AgentStep ==
  \/ WritePlan \/ PublishSnapshot \/ Scan \/ Prune \/ Pruned \/ NextIteration \/ CeilingReached
  \/ CompleteOrphan \/ Reread \/ PassOver \/ TakeTask \/ Reflect \/ Prepare \/ RunTool \/ Ground
  \/ Inject \/ ReadAgain \/ Complete \/ Save

LoopNext == AgentStep \/ CutOff

LoopSpec == LoopInit /\ [][LoopNext]_loopVars

-----------------------------------------------------------------------------
(* A loop that returns before its ceiling has a finding for everything it  *)
(* planned or added, whatever became of single Redis commands, unless a    *)
(* log entry failed or the plan itself was lost (FallbackKeepsPlan).       *)
PlanCarriedOut ==
  step = "returned" /\ iteration < Ceiling /\ memory.losses = 0 /\ ~refounded =>
    ToSet(Plan) \cup Named(view) \subseteq findings \cup LeftToOthers \cup Unregistered

(* "Leaving it IN_PROGRESS causes this generator to re-run the same tool"  *)
(* (react_loop.py:1767): up to three lost commands or log entries, whoever *)
(* they hit, make no tool run twice, unless the reply to the script of     *)
(* create_task is lost and the task appended a second time.                *)
RepeatsExplained ==
  memory.outages + memory.losses <= 3 => \A t \in Tasks : runsOf[t] > 1 => t \in doubled

(* "Always store in local cache (authoritative fallback)" (working_memory. *)
(* py:393): a plan that Redis did not take is still carried out.           *)
FallbackKeepsPlan == ~refounded
=============================================================================
