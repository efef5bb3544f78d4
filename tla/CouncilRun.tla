----------------------------- MODULE CouncilRun -----------------------------
(***************************************************************************)
(* One investigation from intake to signed report, as the pipeline runs it *)
(* (_run_investigation_core and _run_deliberation in                       *)
(* orchestration/pipeline.py, run_agents_concurrent in                     *)
(* orchestration/pipeline_phases.py): the agents' first pass, the choice   *)
(* of a deep pass, the deep pass, and the arbiter's deliberation over what *)
(* they found.  While the analyst reads, a background task deliberates     *)
(* ahead of time (the pre-warm) and leaves its report with the arbiter.    *)
(*                                                                         *)
(* The agents of a pass run concurrently and share nothing the properties  *)
(* look at, so a pass is one step that picks how each of them ended.       *)
(* HitlGate models the gates themselves; here they just open.              *)
(***************************************************************************)
EXTENDS Naturals, FiniteSets

CONSTANTS
  Agents,        \* agents of the council
  FatalFailures  \* failed agents that abort an investigation: 3 in the code

ASSUME CouncilAssumption == IsFiniteSet(Agents) /\ FatalFailures \in Nat \ {0}

VARIABLES
  stage,         \* where the pipeline is
  ended,         \* how the investigation ended
  phase,         \* the pass that agent_results come from
  first,         \* agent_map: whether each agent ran, and its first findings
  result,        \* agent_results: error, findings and agent_active of each agent
  preWarm,       \* _pre_warm_task
  warmedOn,      \* the phase whose results the pre-warm was given
  cachedInputs,  \* arbiter._pre_warm_agent_results, by phase; 0 is None
  cachedReport,  \* arbiter._pre_warm_report, by the phase it rests on; 0 is None
  llm,           \* config.final_report_llm_enabled
  reportOn,      \* the phase the final report rests on
  asked          \* history: somebody cancelled the investigation

arbiterVars == <<preWarm, warmedOn, cachedInputs, cachedReport>>
agentVars == <<phase, first, result>>
councilVars == <<stage, ended, agentVars, arbiterVars, llm, reportOn, asked>>

Stages ==
  {"intake", "initial", "gate1", "discarding", "deep", "gate2", "counting",
   "deliberating", "finalising", "fallback", "signing", "over"}
Phases == 0 .. 2
Findings == SUBSET {"initial", "deep"}

(* error is None, "" (falsy, yet not None) or a text. *)
Results == [error : {"none", "blank", "text"}, findings : Findings, active : BOOLEAN]
NoResult == [error |-> "none", findings |-> {}, active |-> FALSE]

CouncilTypeOK ==
  /\ stage \in Stages
  /\ ended \in {"no", "reported", "failed", "aborted", "cancelled"}
  /\ (ended = "no") <=> (stage # "over")
  /\ phase \in Phases /\ warmedOn \in Phases
  /\ first \in [Agents -> [ran : BOOLEAN, findings : Findings]]
  /\ result \in [Agents -> Results]
  /\ preWarm \in {"none", "running", "stored", "done"}
  /\ cachedInputs \in Phases /\ cachedReport \in Phases /\ reportOn \in Phases
  /\ llm \in BOOLEAN /\ asked \in BOOLEAN

CouncilInit ==
  /\ stage = "intake" /\ ended = "no" /\ phase = 0
  /\ first = [a \in Agents |-> [ran |-> FALSE, findings |-> {}]]
  /\ result = [a \in Agents |-> NoResult]
  /\ preWarm = "none" /\ warmedOn = 0
  /\ cachedInputs = 0 /\ cachedReport = 0
  /\ llm \in BOOLEAN /\ reportOn = 0 /\ asked = FALSE

Go(from, to) == stage = from /\ stage' = to /\ UNCHANGED ended
End(from, how) == stage = from /\ stage' = "over" /\ ended' = how

-----------------------------------------------------------------------------
(* The agents *)

(* Ingest, visual context, session, and the hash checked again. *)
Ingest ==
  /\ Go("intake", "initial")
  /\ UNCHANGED <<agentVars, arbiterVars, llm, reportOn, asked>>

(* A pre-warm on the results of phase p replaces the task of the last one. *)
StartPreWarm(p) == preWarm' = "running" /\ warmedOn' = p

(* How a first pass ends: "partial" is an error after some findings.  What  *)
(* a timeout gathered counts as a pass, and so does, whatever happened, the *)
(* pass of the video agent over a screenshot routed to it; a crash on the   *)
(* way to the pass counts as an unsupported file.                           *)
FirstWays == {"empty", "found", "error", "partial", "unsupported"}

FirstFindings(w) == IF w \in {"found", "partial"} THEN {"initial"} ELSE {}

FirstResult(w) ==
  [error |-> IF w \in {"error", "partial"} THEN "text" ELSE "none",
   findings |-> FirstFindings(w),
   active |-> w \in {"empty", "found"}]

InitialPass ==
  /\ Go("initial", "gate1")
  /\ \E way \in [Agents -> FirstWays] :
       /\ first' = [a \in Agents |-> [ran |-> way[a] # "unsupported",
                                      findings |-> FirstFindings(way[a])]]
       /\ result' = [a \in Agents |-> FirstResult(way[a])]
  /\ phase' = 1
  /\ StartPreWarm(1)
  /\ UNCHANGED <<cachedInputs, cachedReport, llm, reportOn, asked>>

(* invalidate_pre_warm: the task is cancelled and what it left is dropped. *)
Invalidate ==
  /\ preWarm' = "none"
  /\ cachedInputs' = 0 /\ cachedReport' = 0
  /\ UNCHANGED warmedOn

(* A decision for the deep pass that reaches the pipeline through its      *)
(* event within the API's process invalidates the pre-warm; one that comes *)
(* through Redis, or by message to a worker, does not.                     *)
ChooseDeep ==
  /\ Go("gate1", "discarding")
  /\ Invalidate \/ UNCHANGED arbiterVars
  /\ UNCHANGED <<agentVars, llm, reportOn, asked>>

ChooseBaseline ==
  /\ Go("gate1", "counting")
  /\ UNCHANGED <<agentVars, arbiterVars, llm, reportOn, asked>>

(* A pre-warm still under way is cancelled and awaited.  The await raises  *)
(* CancelledError, which "except Exception" lets through.                  *)
DiscardPreWarm ==
  /\ \/ preWarm \in {"none", "done"} /\ Go("discarding", "deep") /\ UNCHANGED preWarm
     \/ preWarm \in {"running", "stored"} /\ End("discarding", "cancelled") /\ preWarm' = "done"
  /\ UNCHANGED <<agentVars, warmedOn, cachedInputs, cachedReport, llm, reportOn, asked>>

(* How a deep pass ends; "raises" is an error outside its own handler. *)
DeepWays == {"deepened", "nothing new", "times out", "fails", "raises"}

(* What becomes of it when "kept" is what is left of the first findings.   *)
(* The text of a TimeoutError is empty.                                    *)
DeepEnd(a, w, kept) ==
  IF ~first[a].ran THEN NoResult
  ELSE [error |-> CASE w = "times out" -> "blank"
                    [] w \in {"fails", "raises"} -> "text"
                    [] OTHER -> "none",
        findings |-> IF w = "deepened" THEN kept \cup {"deep"} ELSE kept,
        active |-> w # "raises"]

(* Mutant of DeepResult: the handler of a failed pass returns no findings. *)
DeepResultDropping(a, w) ==
  DeepEnd(a, w, IF w \in {"raises", "fails", "times out"} THEN {} ELSE first[a].findings)

DeepResult(a, w) ==
  DeepEnd(a, w, IF w = "raises" THEN {} ELSE first[a].findings)

DeepPass ==
  /\ Go("deep", "gate2")
  /\ \E way \in [Agents -> DeepWays] : result' = [a \in Agents |-> DeepResult(a, way[a])]
  /\ phase' = 2
  /\ StartPreWarm(2)
  /\ UNCHANGED <<first, cachedInputs, cachedReport, llm, reportOn, asked>>

(* At gate 2 the flag deep_analysis still invalidates, within the process. *)
RequestReport ==
  /\ Go("gate2", "counting")
  /\ Invalidate \/ UNCHANGED arbiterVars
  /\ UNCHANGED <<agentVars, llm, reportOn, asked>>

Failed == {a \in Agents : result[a].error = "text" /\ result[a].findings = {}}
Active == {a \in Agents : result[a].active}

CountFailures ==
  /\ IF /\ Cardinality(Failed) >= FatalFailures
        /\ Cardinality(Failed) >= Cardinality(Active) \div 2
     THEN End("counting", "aborted")
     ELSE Go("counting", "deliberating")
  /\ UNCHANGED <<agentVars, arbiterVars, llm, reportOn, asked>>

-----------------------------------------------------------------------------
(* The pre-warm *)

(* deliberate() is done; cards are still being broadcast. *)
PreWarmStores ==
  /\ preWarm = "running" /\ preWarm' = "stored"
  /\ cachedInputs' = warmedOn /\ cachedReport' = warmedOn
  /\ UNCHANGED <<stage, ended, agentVars, warmedOn, llm, reportOn, asked>>

(* Its task is over, by an exception or after its last broadcast. *)
PreWarmEnds ==
  /\ preWarm \in {"running", "stored"} /\ preWarm' = "done"
  /\ UNCHANGED <<stage, ended, agentVars, warmedOn, cachedInputs, cachedReport, llm, reportOn, asked>>

-----------------------------------------------------------------------------
(* The deliberation *)

(* Equal hashes.  The finding made of an error has a random identifier. *)
SameInputs == cachedInputs = phase /\ \A a \in Agents : result[a].error = "none"

(* Mutant of Deliberate: a pre-warm that is over is taken for good. *)
DeliberateTrusting ==
  /\ Go("deliberating", "finalising")
  /\ cachedInputs' = phase
  /\ \/ preWarm \in {"stored", "done"} /\ UNCHANGED <<preWarm, cachedReport>>
     \/ preWarm \in {"none", "running"} /\ preWarm' = "none" /\ cachedReport' = 0
  /\ UNCHANGED <<agentVars, warmedOn, llm, reportOn, asked>>

(* What the pre-warm left is kept only while its task is still at work and *)
(* its inputs are today's.                                                 *)
Deliberate ==
  /\ Go("deliberating", "finalising")
  /\ cachedInputs' = phase
  /\ IF preWarm \in {"running", "stored"} /\ SameInputs
     THEN UNCHANGED <<preWarm, cachedReport>>
     ELSE preWarm' = "none" /\ cachedReport' = 0
  /\ UNCHANGED <<agentVars, warmedOn, llm, reportOn, asked>>

(* finalise_from_cache: a report built without the model serves a call     *)
(* that does not ask for it.                                               *)
Finalise(from, useLLM) ==
  /\ Go(from, "signing")
  /\ IF ~useLLM /\ cachedReport # 0
     THEN reportOn' = cachedReport /\ UNCHANGED cachedReport
     ELSE reportOn' = cachedInputs /\ cachedReport' = IF useLLM THEN 0 ELSE cachedInputs
  /\ UNCHANGED <<agentVars, preWarm, warmedOn, cachedInputs, llm, asked>>

(* Mutant of FinaliseTimesOut: the same is tried again. *)
FinaliseTimesOutAgain ==
  /\ Go("finalising", "deliberating")
  /\ cachedReport' = (IF llm THEN 0 ELSE cachedReport)
  /\ UNCHANGED <<agentVars, preWarm, warmedOn, cachedInputs, llm, reportOn, asked>>

FinaliseTimesOut ==
  /\ Go("finalising", "fallback")
  /\ cachedReport' = (IF llm THEN 0 ELSE cachedReport)
  /\ UNCHANGED <<agentVars, preWarm, warmedOn, cachedInputs, llm, reportOn, asked>>

(* A step that is not best-effort raises: the changed hash, the arbiter,   *)
(* the fallback's own timeout, a state or custody entry not written.       *)
RunFails ==
  /\ \E from \in Stages \ {"discarding", "over"} : End(from, "failed")
  /\ UNCHANGED <<agentVars, arbiterVars, llm, reportOn, asked>>

(* Enrich, sign, cache, announce. *)
Sign ==
  /\ End("signing", "reported")
  /\ UNCHANGED <<agentVars, arbiterVars, llm, reportOn, asked>>

(* Global abort, termination within the process, or the job's own timeout. *)
Cancel ==
  /\ \E from \in Stages \ {"over"} : End(from, "cancelled")
  /\ asked' = TRUE
  /\ UNCHANGED <<agentVars, arbiterVars, llm, reportOn>>

-----------------------------------------------------------------------------
Run ==
  \/ Ingest \/ InitialPass \/ ChooseDeep \/ ChooseBaseline \/ DiscardPreWarm
  \/ DeepPass \/ RequestReport \/ CountFailures \/ Deliberate
  \/ Finalise("finalising", llm) \/ FinaliseTimesOut \/ Finalise("fallback", FALSE)
  \/ RunFails \/ Sign

PreWarm == stage # "over" /\ (PreWarmStores \/ PreWarmEnds)

CouncilNext == Run \/ PreWarm \/ Cancel

CouncilSpec == CouncilInit /\ [][CouncilNext]_councilVars

(* Every await of the run has a timeout. *)
CouncilFairSpec == CouncilSpec /\ WF_councilVars(Run)

-----------------------------------------------------------------------------
(* Properties *)

(* A report rests on the results of the last pass that was run, however    *)
(* far the pre-warm of either phase came, and whether the deep choice went *)
(* through invalidate_pre_warm or not.                                     *)
NothingStaleReported == ended = "reported" => reportOn = phase

(* An investigation is aborted only when so many agents came out of the    *)
(* first pass with nothing, or lost their deep pass outside its handler:   *)
(* deep passes that fail or time out after a good first pass never abort.  *)
AbortIsEarned ==
  ended = "aborted" =>
    Cardinality({a \in Agents : \/ first[a].findings = {}
                                \/ phase = 2 /\ ~result[a].active}) >= FatalFailures

(* Every investigation that reaches its agents ends: with a report, a      *)
(* failure or a cancellation, whatever times out on the way.               *)
RunEnds == stage = "initial" ~> stage = "over"

(* The comment at pipeline_phases.py:1291 says of a deep choice that the   *)
(* pre-warm is cancelled and a fresh one kicked off after the deep pass:   *)
(* the choice itself cancels nothing but the pre-warm.                     *)
DeepChoiceGoesOn == ended = "cancelled" => asked

(* _normalize_agent_results: any error but None replaces the findings. *)
Normalised(a) == IF result[a].error = "none" THEN result[a].findings ELSE {}

(* The comment at pipeline.py:727 says that deep-pass timeouts produce     *)
(* valid initial findings: the arbiter is given what the first pass found  *)
(* although the deep pass timed out.                                       *)
TimeoutKeepsEvidence ==
  \A a \in Agents : result[a].error = "blank" => first[a].findings \subseteq Normalised(a)
=============================================================================
