------------------------------ MODULE MCClaims ------------------------------
(* One run for six things that several claim at a time, and that share no  *)
(* state: an uploaded file, the creation of a visual context, the vision   *)
(* models it is read by, a place on the list that a termination prunes,    *)
(* the process of a tool, and the metadata record of a session.  The       *)
(* initial state picks the part that moves.                                *)
EXTENDS UploadDedup, VisualContext, MCGeminiCalls, QueuePruning, ToolWorkers, SessionMetadata

CONSTANTS p1, p2, p3, one, other, c1, c2, c3, ela, noise,
          runner, resumer, hook, stateField, briefField, resumeField
VARIABLE part

MCSessionOf == p1 :> one @@ p2 :> one @@ p3 :> other
MCScriptOf == c1 :> ela @@ c2 :> ela @@ c3 :> noise

MCFieldsOf ==
  runner :> {stateField, briefField} @@ resumer :> {stateField, resumeField} @@ hook :> {stateField, briefField}
MCUpdatesOf == runner :> 1 @@ resumer :> 3 @@ hook :> 1

claimVars == <<part, uploadVars, visualVars, geminiVars, qvars, pvars, toolVars, metaVars>>

ClaimInit ==
  /\ part \in {"upload", "visual", "gemini", "pruning", "tools", "metadata"}
  /\ UploadInit /\ VisualInit /\ GeminiInit /\ PruningInit /\ ToolInit /\ MetaInit

ClaimNext ==
  /\ UNCHANGED part
  /\ \/ part = "upload" /\ UploadNext /\ UNCHANGED <<visualVars, geminiVars, qvars, pvars, toolVars, metaVars>>
     \/ part = "visual" /\ VisualNext /\ UNCHANGED <<uploadVars, geminiVars, qvars, pvars, toolVars, metaVars>>
     \/ part = "gemini" /\ GeminiNext /\ UNCHANGED <<uploadVars, visualVars, qvars, pvars, toolVars, metaVars>>
     \/ part = "pruning" /\ PruningNext /\ UNCHANGED <<uploadVars, visualVars, geminiVars, toolVars, metaVars>>
     \/ part = "tools" /\ ToolNext /\ UNCHANGED <<uploadVars, visualVars, geminiVars, qvars, pvars, metaVars>>
     \/ part = "metadata" /\ MetaNext /\ UNCHANGED <<uploadVars, visualVars, geminiVars, qvars, pvars, toolVars>>

ClaimSpec == ClaimInit /\ [][ClaimNext]_claimVars
=============================================================================
