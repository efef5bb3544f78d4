------------------------------ MODULE MCCalls ------------------------------
(* One run for the logs and limits around the calls of agents: the quota  *)
(* guard before each call of a model, the walk of the calls through        *)
(* circuit breakers and shares, and the chain of custody.  They have no    *)
(* common variable; the initial state picks the one that moves.  No        *)
(* symmetry: the run checks liveness.                                      *)
EXTENDS ProviderQuota, ModelCalls, CustodyChain, TLC

CONSTANTS api, worker, w1, w2, w3, a1, large, small, audio, video, e1, e2, e3, e4, r2
VARIABLE part

(* Three calls of the worker and one of the API, of different cost, one of *)
(* them critical.                                                          *)
MCProcesses == {api, worker}
MCCalls == {w1, w2, w3, a1}
MCHome == w1 :> worker @@ w2 :> worker @@ w3 :> worker @@ a1 :> api
MCCost == w1 :> 1 @@ w2 :> 2 @@ w3 :> 0 @@ a1 :> 2
MCCritical == {w2}

MCCandidates == <<large, small>>

(* Three entries of one chain and one of another; one cannot be stored.    *)
MCEntries == {e1, e2, e3, e4}
MCAgentOf == e1 :> audio @@ e2 :> audio @@ e3 :> audio @@ e4 :> video
MCPoison == {e3}

(* Two agents before the same breakers, or one agent and two syntheses:    *)
(* they meet at the semaphore for requests only.                           *)
Idle(p) == IF p = "agents" THEN Writers ELSE {r2}

callVars == <<part, vars, modelVars, custodyVars>>

CallInit ==
  /\ part \in {"quota", "agents", "models", "custody"}
  /\ Init /\ ModelInit /\ CustodyInit

CallNext ==
  /\ UNCHANGED part
  /\ \/ part = "quota" /\ Next /\ UNCHANGED <<modelVars, custodyVars>>
     \/ /\ part \in {"agents", "models"} /\ ModelNext
        /\ \A c \in Idle(part) : stage'[c] = stage[c]
        /\ UNCHANGED <<vars, custodyVars>>
     \/ part = "custody" /\ CustodyNext /\ UNCHANGED <<vars, modelVars>>

CallSpec ==
  /\ CallInit /\ [][CallNext]_callVars
  /\ WF_vars(part = "quota" /\ \E c \in Calls : Advance(c))
  /\ WF_custodyVars(part = "custody" /\ \E c \in Entries : Start(c) \/ AdvanceEntry(c))
============================================================================
