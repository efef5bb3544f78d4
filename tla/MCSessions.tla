----------------------------- MODULE MCSessions -----------------------------
(* One run for what the readers of a session see: its outcome, its live    *)
(* updates and its decision gates, three parts without common variables.   *)
(* The initial state picks the part that moves.  No symmetry: the run      *)
(* checks liveness.                                                        *)
EXTENDS SessionOutcome, LiveUpdates, HitlGate, TLC

CONSTANTS runner, handler
VARIABLE part

MCScript == runner :> <<"paused", "complete">> @@ handler :> <<"terminated">>

(* Of what may take a waiting gate from view, one thing at a time. *)
OneMisfortune ==
  /\ unmarked' => ending' = "no" /\ ~orphan' /\ sessionStatus' # "interrupted"
  /\ ending' # "no" => ~orphan' /\ sessionStatus' # "interrupted"

sessionVars == <<part, vars, liveVars, gateVars>>

SessionInit ==
  /\ part \in {"outcome", "live", "gates"}
  /\ Init /\ LiveInit /\ GateInit
  /\ part # "live" => kind = "sse"
  /\ part # "gates" => mode = "worker"

SessionNext ==
  /\ UNCHANGED part
  /\ \/ part = "outcome" /\ Next /\ UNCHANGED <<liveVars, gateVars>>
     \/ part = "live" /\ LiveNext /\ UNCHANGED <<vars, gateVars>>
     \/ part = "gates" /\ GateNext /\ OneMisfortune /\ UNCHANGED <<vars, liveVars>>

(* The fairness of the part that moves. *)
SessionFairness ==
  /\ WF_vars(part = "outcome" /\ JobStep)
  /\ WF_liveVars(part = "live" /\ Conclude)
  /\ \A s \in Senders : WF_liveVars(part = "live" /\ SenderStep(s))
  /\ WF_liveVars(part = "live" /\ StreamStep)
  /\ WF_gateVars(part = "gates" /\ GateStep)

SessionSpec == SessionInit /\ [][SessionNext]_sessionVars /\ SessionFairness
=============================================================================
