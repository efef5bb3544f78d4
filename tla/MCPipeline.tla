----------------------------- MODULE MCPipeline -----------------------------
(* One run for what carries an investigation through, four parts without   *)
(* common variables: the queue of the worker, the passes of an             *)
(* investigation, the loop of one agent, and the verdicts on what was      *)
(* found.  The initial state picks the part that moves.  No symmetry: the  *)
(* run checks liveness.                                                    *)
EXTENDS InvestigationQueue, CouncilRun, MCAgentLoop, MCVerdict

VARIABLE part

pipelineVars == <<part, qvars, councilVars, loopVars, verdictVars>>

PipelineInit ==
  /\ part \in {"queue", "council", "agent", "verdict"}
  /\ Init /\ CouncilInit /\ LoopInit /\ VerdictInit
  /\ part # "council" => ~llm
  /\ part # "verdict" => visual.read = "none" /\ ~screenshot

PipelineNext ==
  /\ UNCHANGED part
  /\ \/ part = "queue" /\ Next /\ UNCHANGED <<councilVars, loopVars, verdictVars>>
     \/ part = "council" /\ CouncilNext /\ UNCHANGED <<qvars, loopVars, verdictVars>>
     \/ part = "agent" /\ LoopNext /\ UNCHANGED <<qvars, councilVars, verdictVars>>
     \/ part = "verdict" /\ VerdictNext /\ UNCHANGED <<qvars, councilVars, loopVars>>

(* The fairness of the part that moves.                                    *)
PipelineFairness ==
  /\ WF_qvars(part = "queue" /\ Consume)
  /\ WF_qvars(part = "queue" /\ Work)
  /\ WF_councilVars(part = "council" /\ Run)

PipelineSpec == PipelineInit /\ [][PipelineNext]_pipelineVars /\ PipelineFairness
=============================================================================
