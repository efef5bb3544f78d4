---------------------------- MODULE MCAgentLoop ----------------------------
(* An instance of AgentLoop for TLC: two tools that may ask for others,    *)
(* one of them for one that is asked for twice; a task without a tool, one *)
(* of the pipeline's own, one whose tool is not registered, and one the    *)
(* reflection may find missing.                                            *)
EXTENDS AgentLoop, TLC

CONSTANTS ela, noise, ghost, clone, prnu, summary, odd, hash

MCPlan == <<ela, odd, hash, noise, summary>>
MCAsks == ela :> <<ghost, clone>> @@ noise :> <<ghost>>
============================================================================
