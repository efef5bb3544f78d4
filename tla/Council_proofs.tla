--------------------------- MODULE Council_proofs ----------------------------
(***************************************************************************)
(* Proofs about one investigation, the processes its tools run in and the  *)
(* verdicts of its report, for any finite council, any tool calls and      *)
(* workers, any findings, and any number of failures.                      *)
(***************************************************************************)
EXTENDS CouncilRun, ToolWorkers, Verdict, FiniteSetTheorems, TLAPS

-----------------------------------------------------------------------------
(* The type invariant *)

LEMMA NoResultType == NoResult \in Results
BY DEF NoResult, Results, Findings

LEMMA FirstType ==
  ASSUME NEW w \in FirstWays
  PROVE  FirstFindings(w) \in Findings /\ FirstResult(w) \in Results
BY DEF FirstWays, FirstFindings, FirstResult, Results, Findings

LEMMA DeepType ==
  ASSUME CouncilTypeOK, NEW a \in Agents, NEW w \in DeepWays
  PROVE  DeepResult(a, w) \in Results
<1>1. first[a].findings \in Findings
  BY DEF CouncilTypeOK
<1>2. ASSUME NEW kept \in Findings PROVE DeepEnd(a, w, kept) \in Results
  <2>1. (IF w = "deepened" THEN kept \cup {"deep"} ELSE kept) \in Findings
    BY <1>2 DEF Findings
  <2>2. (CASE w = "times out" -> "blank" [] w \in {"fails", "raises"} -> "text" [] OTHER -> "none")
        \in {"none", "blank", "text"}
    BY DEF DeepWays
  <2>3. QED
    BY <2>1, <2>2, NoResultType DEF DeepEnd, Results
<1>3. {} \in Findings
  BY DEF Findings
<1>4. QED
  BY <1>1, <1>2, <1>3 DEF DeepResult

LEMMA TypeInit == CouncilInit => CouncilTypeOK
<1> SUFFICES ASSUME CouncilInit PROVE CouncilTypeOK
  OBVIOUS
<1>1. first \in [Agents -> [ran : BOOLEAN, findings : Findings]]
  BY DEF CouncilInit, Findings
<1>2. llm \in BOOLEAN /\ asked \in BOOLEAN
  BY DEF CouncilInit
<1>3. stage = "intake" /\ stage \in Stages /\ ended = "no"
  BY DEF CouncilInit, Stages
<1>4. QED
  BY <1>1, <1>2, <1>3, NoResultType DEF CouncilInit, CouncilTypeOK, Phases

(* The agents' part of the state, and the pipeline's. *)
AgentsOK ==
  /\ phase \in Phases
  /\ first \in [Agents -> [ran : BOOLEAN, findings : Findings]]
  /\ result \in [Agents -> Results]
ArbiterOK ==
  /\ warmedOn \in Phases
  /\ preWarm \in {"none", "running", "stored", "done"}
  /\ cachedInputs \in Phases /\ cachedReport \in Phases
StageOK ==
  /\ stage \in Stages
  /\ ended \in {"no", "reported", "failed", "aborted", "cancelled"}
  /\ (ended = "no") <=> (stage # "over")

LEMMA TypeParts ==
  CouncilTypeOK <=> /\ AgentsOK /\ ArbiterOK /\ StageOK
                    /\ reportOn \in Phases /\ llm \in BOOLEAN /\ asked \in BOOLEAN
BY DEF CouncilTypeOK, AgentsOK, ArbiterOK, StageOK

LEMMA GoType ==
  ASSUME StageOK, NEW from, NEW to \in Stages \ {"over"}, from # "over", Go(from, to)
  PROVE  StageOK'
BY DEF StageOK, Go

LEMMA EndType ==
  ASSUME StageOK, NEW from, NEW how \in {"reported", "failed", "aborted", "cancelled"}, End(from, how)
  PROVE  StageOK'
BY DEF StageOK, End, Stages

LEMMA AgentsStep == CouncilTypeOK /\ [CouncilNext]_councilVars => AgentsOK'
<1> SUFFICES ASSUME CouncilTypeOK, [CouncilNext]_councilVars PROVE AgentsOK'
  OBVIOUS
<1>0. AgentsOK
  BY TypeParts
<1>1. CASE InitialPass
  BY <1>0, <1>1, FirstType DEF InitialPass, AgentsOK, Phases
<1>2. CASE DeepPass
  BY <1>0, <1>2, DeepType DEF DeepPass, AgentsOK, Phases
<1>3. CASE UNCHANGED agentVars
  BY <1>0, <1>3 DEF agentVars, AgentsOK
<1>4. QED
  BY <1>1, <1>2, <1>3
     DEF CouncilNext, Run, PreWarm, councilVars, Ingest, ChooseDeep, ChooseBaseline, DiscardPreWarm,
         RequestReport, CountFailures, PreWarmStores, PreWarmEnds, Deliberate, Finalise,
         FinaliseTimesOut, RunFails, Sign, Cancel

LEMMA ArbiterStep == CouncilTypeOK /\ [CouncilNext]_councilVars => ArbiterOK' /\ reportOn' \in Phases
<1> SUFFICES ASSUME CouncilTypeOK, [CouncilNext]_councilVars PROVE ArbiterOK' /\ reportOn' \in Phases
  OBVIOUS
<1> USE DEF ArbiterOK, Phases
<1>0. ArbiterOK /\ AgentsOK /\ reportOn \in Phases
  BY TypeParts
<1>1. CASE InitialPass \/ DeepPass
  BY <1>0, <1>1 DEF InitialPass, DeepPass, StartPreWarm
<1>2. CASE ChooseDeep \/ RequestReport
  BY <1>0, <1>2 DEF ChooseDeep, RequestReport, Invalidate, arbiterVars
<1>3. CASE DiscardPreWarm
  BY <1>0, <1>3 DEF DiscardPreWarm
<1>4. CASE PreWarmStores \/ PreWarmEnds
  BY <1>0, <1>4 DEF PreWarmStores, PreWarmEnds
<1>5. CASE Deliberate
  BY <1>0, <1>5 DEF Deliberate, AgentsOK
<1>6. CASE Finalise("finalising", llm) \/ Finalise("fallback", FALSE)
  BY <1>0, <1>6 DEF Finalise
<1>7. CASE FinaliseTimesOut
  BY <1>0, <1>7 DEF FinaliseTimesOut
<1>8. CASE UNCHANGED <<arbiterVars, reportOn>>
  BY <1>0, <1>8 DEF arbiterVars
<1>9. QED
  BY <1>1, <1>2, <1>3, <1>4, <1>5, <1>6, <1>7, <1>8
     DEF CouncilNext, Run, PreWarm, councilVars, Ingest, ChooseBaseline, CountFailures, RunFails,
         Sign, Cancel

LEMMA StageStep == CouncilTypeOK /\ [CouncilNext]_councilVars => StageOK'
<1> SUFFICES ASSUME CouncilTypeOK, [CouncilNext]_councilVars PROVE StageOK'
  OBVIOUS
<1>0. StageOK
  BY TypeParts
<1>1. /\ {"intake", "initial", "gate1", "discarding", "deep", "gate2", "counting", "deliberating",
          "finalising", "fallback", "signing"} = Stages \ {"over"}
      /\ {"reported", "failed", "aborted", "cancelled"} \subseteq
         {"reported", "failed", "aborted", "cancelled"}
  BY DEF Stages
<1>2. CASE Ingest \/ InitialPass \/ ChooseDeep \/ ChooseBaseline
  BY <1>0, <1>1, <1>2, GoType DEF Ingest, InitialPass, ChooseDeep, ChooseBaseline
<1>3. CASE DeepPass \/ RequestReport \/ Deliberate \/ FinaliseTimesOut
  BY <1>0, <1>1, <1>3, GoType DEF DeepPass, RequestReport, Deliberate, FinaliseTimesOut
<1>4. CASE Finalise("finalising", llm) \/ Finalise("fallback", FALSE)
  BY <1>0, <1>1, <1>4, GoType DEF Finalise
<1>5. CASE DiscardPreWarm \/ CountFailures
  BY <1>0, <1>1, <1>5, GoType, EndType DEF DiscardPreWarm, CountFailures
<1>6. CASE RunFails \/ Sign \/ Cancel
  BY <1>0, <1>6, EndType DEF RunFails, Sign, Cancel
<1>7. CASE UNCHANGED <<stage, ended>>
  BY <1>0, <1>7 DEF StageOK
<1>8. QED
  BY <1>2, <1>3, <1>4, <1>5, <1>6, <1>7
     DEF CouncilNext, Run, PreWarm, PreWarmStores, PreWarmEnds, councilVars

LEMMA TypeStep == CouncilTypeOK /\ [CouncilNext]_councilVars => CouncilTypeOK'
<1> SUFFICES ASSUME CouncilTypeOK, [CouncilNext]_councilVars PROVE CouncilTypeOK'
  OBVIOUS
<1>1. AgentsOK' /\ ArbiterOK' /\ StageOK' /\ reportOn' \in Phases
  BY AgentsStep, ArbiterStep, StageStep
<1>2. llm' = llm /\ (asked' = asked \/ asked' = TRUE)
  BY DEF CouncilNext, Run, PreWarm, councilVars, Ingest, InitialPass, ChooseDeep, ChooseBaseline,
         DiscardPreWarm, DeepPass, RequestReport, CountFailures, PreWarmStores, PreWarmEnds,
         Deliberate, Finalise, FinaliseTimesOut, RunFails, Sign, Cancel
<1>3. llm' \in BOOLEAN /\ asked' \in BOOLEAN
  BY <1>2 DEF CouncilTypeOK
<1>4. QED
  BY <1>1, <1>3 DEF CouncilTypeOK, AgentsOK, ArbiterOK, StageOK

(* Every reachable state of an investigation is well typed, and it has an  *)
(* end exactly when its stage is over.                                     *)
THEOREM CouncilTypeCorrect == CouncilSpec => []CouncilTypeOK
<1>1. QED
  BY TypeInit, TypeStep, PTL DEF CouncilSpec
-----------------------------------------------------------------------------
(* The pre-warm and the report *)

(* What the arbiter keeps of a pre-warm rests on the inputs it keeps, and  *)
(* from the deliberation on those are of the last pass, and so is whatever *)
(* a pre-warm that was let go on may still store.                          *)
Rests ==
  /\ warmedOn = phase
  /\ cachedReport \in {0, cachedInputs}
  /\ stage \in {"finalising", "fallback"} => cachedInputs = phase
  /\ stage = "signing" \/ ended = "reported" => reportOn = phase

LEMMA RestsInit == CouncilInit => Rests
BY DEF CouncilInit, Rests

LEMMA RestsStep == CouncilTypeOK /\ Rests /\ [CouncilNext]_councilVars => Rests'
<1> SUFFICES ASSUME CouncilTypeOK, Rests, [CouncilNext]_councilVars PROVE Rests'
  OBVIOUS
<1> USE DEF Rests, Go, End
<1>0. ended = "reported" => stage = "over"
  BY DEF CouncilTypeOK
<1>1. CASE Ingest \/ ChooseBaseline \/ CountFailures
  BY <1>0, <1>1 DEF Ingest, ChooseBaseline, CountFailures, agentVars, arbiterVars
<1>2. CASE InitialPass \/ DeepPass
  BY <1>0, <1>2 DEF InitialPass, DeepPass, StartPreWarm
<1>3. CASE ChooseDeep \/ RequestReport
  BY <1>0, <1>3 DEF ChooseDeep, RequestReport, Invalidate, agentVars, arbiterVars
<1>4. CASE DiscardPreWarm
  BY <1>0, <1>4 DEF DiscardPreWarm, agentVars
<1>5. CASE Deliberate
  BY <1>0, <1>5 DEF Deliberate, SameInputs, agentVars
<1>6. CASE Finalise("finalising", llm) \/ Finalise("fallback", FALSE)
  BY <1>0, <1>6 DEF Finalise, agentVars
<1>7. CASE FinaliseTimesOut
  BY <1>0, <1>7 DEF FinaliseTimesOut, agentVars
<1>8. CASE PreWarm
  BY <1>0, <1>8 DEF PreWarm, PreWarmStores, PreWarmEnds, agentVars
<1>9. CASE RunFails \/ Sign \/ Cancel
  BY <1>0, <1>9 DEF RunFails, Sign, Cancel, agentVars, arbiterVars
<1>10. CASE UNCHANGED councilVars
  BY <1>10 DEF councilVars, agentVars, arbiterVars
<1>11. QED
  BY <1>1, <1>2, <1>3, <1>4, <1>5, <1>6, <1>7, <1>8, <1>9, <1>10 DEF CouncilNext, Run

(* Whether the pre-warm was cancelled, replaced, used or overtaken by the  *)
(* final deliberation, a signed report rests on the results of the last    *)
(* pass that was run.                                                      *)
THEOREM ReportIsCurrent == CouncilSpec => []NothingStaleReported
<1>1. CouncilInit => CouncilTypeOK /\ Rests
  BY TypeInit, RestsInit
<1>2. CouncilTypeOK /\ Rests /\ [CouncilNext]_councilVars => (CouncilTypeOK /\ Rests)'
  BY TypeStep, RestsStep
<1>3. Rests => NothingStaleReported
  BY DEF Rests, NothingStaleReported
<1>4. QED
  BY <1>1, <1>2, <1>3, PTL DEF CouncilSpec

-----------------------------------------------------------------------------
(* The abort *)

(* The agents that came to nothing, as AbortIsEarned counts them. *)
Lost == {a \in Agents : first[a].findings = {} \/ (phase = 2 /\ ~result[a].active)}

(* An agent counted as failed lost its first pass, or raised in the second. *)
FailedAreLost == Failed \subseteq Lost

AbortInv == FailedAreLost /\ (ended = "aborted" => Cardinality(Lost) >= FatalFailures)

LEMMA AbortInit == CouncilInit => AbortInv
BY DEF CouncilInit, AbortInv, FailedAreLost, Failed, Lost, NoResult

(* A step that leaves the agents alone. *)
LEMMA LostSame ==
  ASSUME UNCHANGED agentVars
  PROVE  Lost' = Lost /\ Failed' = Failed
BY DEF agentVars, Lost, Failed

LEMMA CountsEnough ==
  ASSUME FailedAreLost, Cardinality(Failed) >= FatalFailures
  PROVE  Cardinality(Lost) >= FatalFailures
<1>1. IsFiniteSet(Lost) /\ IsFiniteSet(Failed)
  BY FS_Subset, CouncilAssumption DEF CouncilAssumption, Lost, Failed
<1>2. Cardinality(Failed) <= Cardinality(Lost)
  BY <1>1, FS_Subset DEF FailedAreLost
<1>3. Cardinality(Failed) \in Nat /\ Cardinality(Lost) \in Nat /\ FatalFailures \in Nat
  BY <1>1, FS_CardinalityType, CouncilAssumption DEF CouncilAssumption
<1>4. QED
  BY <1>2, <1>3

LEMMA DeepFailedAreLost ==
  ASSUME CouncilTypeOK, NEW a \in Agents, NEW w \in DeepWays,
         DeepResult(a, w).error = "text", DeepResult(a, w).findings = {}
  PROVE  first[a].findings = {} \/ ~DeepResult(a, w).active
BY DEF DeepResult, DeepEnd, NoResult, DeepWays

LEMMA AbortStep == CouncilTypeOK /\ AbortInv /\ [CouncilNext]_councilVars => AbortInv'
<1> SUFFICES ASSUME CouncilTypeOK, AbortInv, [CouncilNext]_councilVars PROVE AbortInv'
  OBVIOUS
<1>0. FailedAreLost
  BY DEF AbortInv
<1>1. CASE InitialPass
  <2>1. FailedAreLost'
    BY <1>1 DEF InitialPass, FailedAreLost, Failed, Lost, FirstResult, FirstFindings, FirstWays
  <2>2. ended' # "aborted"
    BY <1>1 DEF InitialPass, Go, CouncilTypeOK
  <2>3. QED
    BY <2>1, <2>2 DEF AbortInv
<1>2. CASE DeepPass
  <2>1. PICK way \in [Agents -> DeepWays] : result' = [a \in Agents |-> DeepResult(a, way[a])]
    BY <1>2 DEF DeepPass
  <2>2. phase' = 2 /\ first' = first
    BY <1>2 DEF DeepPass
  <2>3. ASSUME NEW a \in Failed' PROVE a \in Lost'
    <3>1. a \in Agents /\ result'[a] = DeepResult(a, way[a]) /\ way[a] \in DeepWays
      BY <2>1, <2>3 DEF Failed
    <3>2. first[a].findings = {} \/ ~result'[a].active
      BY <2>3, <3>1, DeepFailedAreLost DEF Failed
    <3>3. QED
      BY <2>2, <3>1, <3>2 DEF Lost
  <2>4. ended' # "aborted"
    BY <1>2 DEF DeepPass, Go, CouncilTypeOK
  <2>5. QED
    BY <2>3, <2>4 DEF AbortInv, FailedAreLost
<1>3. CASE CountFailures
  <2>1. Lost' = Lost /\ Failed' = Failed
    BY <1>3, LostSame DEF CountFailures
  <2>2. ended' = "aborted" => Cardinality(Lost) >= FatalFailures
    BY <1>0, <1>3, CountsEnough DEF CountFailures, Go, End, AbortInv
  <2>3. QED
    BY <1>0, <2>1, <2>2 DEF AbortInv, FailedAreLost
<1>4. CASE UNCHANGED agentVars /\ (ended' = "aborted" => ended = "aborted")
  BY <1>4, LostSame DEF AbortInv, FailedAreLost
<1>5. QED
  BY <1>1, <1>2, <1>3, <1>4
     DEF CouncilNext, Run, PreWarm, councilVars, Ingest, ChooseDeep, ChooseBaseline, DiscardPreWarm,
         RequestReport, PreWarmStores, PreWarmEnds, Deliberate, Finalise, FinaliseTimesOut, RunFails,
         Sign, Cancel, Go, End

(* An investigation is aborted only when FatalFailures agents came out of  *)
(* the first pass with nothing or lost their deep pass outside its own     *)
(* handler, for any council.                                               *)
THEOREM AbortTakesFailures == CouncilSpec => []AbortIsEarned
<1>1. CouncilInit => CouncilTypeOK /\ AbortInv
  BY TypeInit, AbortInit
<1>2. CouncilTypeOK /\ AbortInv /\ [CouncilNext]_councilVars => (CouncilTypeOK /\ AbortInv)'
  BY TypeStep, AbortStep
<1>3. AbortInv => AbortIsEarned
  BY DEF AbortInv, Lost, AbortIsEarned
<1>4. QED
  BY <1>1, <1>2, <1>3, PTL DEF CouncilSpec

-----------------------------------------------------------------------------
(* Tool workers *)

(* The call that uses a process has its worker's lock, so it is alone.     *)
Locked ==
  \A c \in ToolCalls :
    /\ whereabouts[c] \in {"lock", "start", "write", "read"} => uses[c] \in Workers
    /\ whereabouts[c] \in {"start", "write", "read"} => holder[uses[c]] = c

AllNoise(lines) == \A i \in 1 .. Len(lines) : lines[i] = Noise
OneAnswer(lines, c) ==
  \E i \in 1 .. Len(lines) :
    /\ lines[i] \in {c, ToolFailure}
    /\ \A j \in 1 .. Len(lines) : j # i => lines[j] = Noise

Reading(c, w) == whereabouts[c] = "read" /\ uses[c] = w
Quiet(w) == requests[w] = <<>> /\ AllNoise(answers[w])
Serving(w, c) ==
  \/ requests[w] = <<c>> /\ AllNoise(answers[w])
  \/ requests[w] = <<>> /\ OneAnswer(answers[w], c)

(* The pipes of a process hold nothing, or what belongs to the one call    *)
(* that reads from it.                                                     *)
PipesOf(w) == Quiet(w) \/ \E c \in ToolCalls : Reading(c, w) /\ Serving(w, c)
Pipes == \A w \in Workers : w \notin tainted => PipesOf(w)

Unanswered == \A c \in ToolCalls : whereabouts[c] # "done" => outcome[c] = "none"

LockInv == ToolTypeOK /\ Locked
ToolInv == LockInv /\ Pipes /\ Unanswered /\ AnswerIsOwn

-----------------------------------------------------------------------------
(* The lines of a pipe *)

Lines == Seq(ToolCalls \cup {Noise, ToolFailure})

LEMMA MoreNoise ==
  ASSUME NEW s \in Lines, AllNoise(s) PROVE AllNoise(Append(s, Noise))
BY DEF AllNoise, Lines

LEMMA AnswerAfterNoise ==
  ASSUME NEW s \in Lines, NEW c \in ToolCalls, NEW a \in {c, ToolFailure}, AllNoise(s)
  PROVE  OneAnswer(Append(s, a), c)
<1>1. Len(Append(s, a)) = Len(s) + 1 /\ Len(s) \in Nat
  BY DEF Lines
<1>2. Append(s, a)[Len(s) + 1] = a /\ \A j \in 1 .. Len(s) : Append(s, a)[j] = s[j]
  BY DEF Lines
<1>3. QED
  BY <1>1, <1>2 DEF AllNoise, OneAnswer

LEMMA NoiseAfterAnswer ==
  ASSUME NEW s \in Lines, NEW c \in ToolCalls, OneAnswer(s, c)
  PROVE  OneAnswer(Append(s, Noise), c)
<1>1. Len(Append(s, Noise)) = Len(s) + 1 /\ Len(s) \in Nat
  BY DEF Lines
<1>2. Append(s, Noise)[Len(s) + 1] = Noise /\ \A j \in 1 .. Len(s) : Append(s, Noise)[j] = s[j]
  BY DEF Lines
<1>3. QED
  BY <1>1, <1>2 DEF OneAnswer

LEMMA FirstIsAnswer ==
  ASSUME NEW s \in Lines, NEW c \in ToolCalls, OneAnswer(s, c), s # <<>>, Head(s) # Noise
  PROVE  Head(s) \in {c, ToolFailure} /\ AllNoise(Tail(s))
<1>1. Len(s) \in Nat \ {0} /\ Head(s) = s[1]
  BY DEF Lines
<1>2. PICK i \in 1 .. Len(s) : /\ s[i] \in {c, ToolFailure}
                               /\ \A j \in 1 .. Len(s) : j # i => s[j] = Noise
  BY DEF OneAnswer
<1>3. i = 1
  BY <1>1, <1>2
<1>4. Len(Tail(s)) = Len(s) - 1 /\ \A j \in 1 .. Len(s) - 1 : Tail(s)[j] = s[j + 1]
  BY <1>1 DEF Lines
<1>5. QED
  BY <1>1, <1>2, <1>3, <1>4 DEF AllNoise

LEMMA NoiseComesFirst ==
  ASSUME NEW s \in Lines, AllNoise(s), s # <<>> PROVE Head(s) = Noise
<1>1. Len(s) \in Nat \ {0} /\ Head(s) = s[1]
  BY DEF Lines
<1>2. QED
  BY <1>1 DEF AllNoise

-----------------------------------------------------------------------------
(* Types and locks *)

LEMMA ToolInit_LockInv == ToolInit => LockInv
<1> SUFFICES ASSUME ToolInit PROVE LockInv
  OBVIOUS
<1>1. 0 \in 0 .. MaxWorkers /\ 0 \in 0 .. MaxCancels /\ 0 \in 0 .. MaxBreaks
  BY ToolAssumption DEF ToolAssumption
<1>2. ToolTypeOK
  BY <1>1 DEF ToolInit, ToolTypeOK
<1>3. Locked
  BY DEF ToolInit, Locked
<1>4. QED
  BY <1>2, <1>3 DEF LockInv

LEMMA CallKeepsLocks ==
  ASSUME LockInv, NEW c \in ToolCalls,
         Arrive(c) \/ ToolStep(c) \/ StartFails(c) \/ CancelTool(c)
  PROVE  LockInv'
<1> USE DEF LockInv, ToolTypeOK, Locked, GoTo, Return, Unlock, Workers, Inside
<1>0. MaxWorkers \in Nat /\ MaxCancels \in Nat /\ MaxBreaks \in Nat /\ NoToolCall \notin ToolCalls
      /\ ScriptOf \in [ToolCalls -> Scripts]
  BY ToolAssumption DEF ToolAssumption
<1>1. CASE Arrive(c)
  BY <1>1 DEF Arrive
<1>2. CASE TakeSlot(c)
  BY <1>2 DEF TakeSlot
<1>3. CASE FindWorker(c)
  <2>1. CASE pool[ScriptOf[c]] # 0 /\ proc[pool[ScriptOf[c]]] # "none"
    <3>1. pool[ScriptOf[c]] \in Workers
      BY <1>0, <2>1
    <3>2. uses' = [uses EXCEPT ![c] = pool[ScriptOf[c]]] /\ UNCHANGED <<pool, made>>
      BY <1>3, <2>1 DEF FindWorker
    <3>3. QED
      BY <1>3, <3>1, <3>2 DEF FindWorker
  <2>2. CASE ~(pool[ScriptOf[c]] # 0 /\ proc[pool[ScriptOf[c]]] # "none")
    <3>1. made < MaxWorkers /\ made' = made + 1 /\ uses' = [uses EXCEPT ![c] = made']
          /\ pool' = [pool EXCEPT ![ScriptOf[c]] = made']
      BY <1>3, <2>2 DEF FindWorker
    <3>2. made' \in 1 .. MaxWorkers
      BY <1>0, <3>1
    <3>3. uses' \in [ToolCalls -> 0 .. MaxWorkers] /\ pool' \in [Scripts -> 0 .. MaxWorkers]
      BY <1>0, <3>1, <3>2
    <3>4. uses'[c] \in Workers /\ \A d \in ToolCalls \ {c} : uses'[d] = uses[d]
      BY <3>1, <3>2
    <3>5. QED
      BY <1>3, <3>2, <3>3, <3>4 DEF FindWorker
  <2>3. QED
    BY <2>1, <2>2
<1>4. CASE LockWorker(c)
  BY <1>0, <1>4 DEF LockWorker
<1>5. CASE StartProcess(c)
  BY <1>5 DEF StartProcess, Process
<1>6. CASE StartFails(c)
  <2>1. breaks' \in 0 .. MaxBreaks
    BY <1>0, <1>6 DEF StartFails, Break
  <2>2. QED
    BY <1>0, <1>6, <2>1 DEF StartFails
<1>7. CASE Write(c)
  BY <1>7 DEF Write
<1>8. CASE Read(c)
  <2> DEFINE w == uses[c]
  <2>1. w \in Workers /\ answers[w] \in Seq(ToolCalls \cup {Noise, ToolFailure}) /\ answers[w] # <<>>
    BY <1>8 DEF Read
  <2>2. Head(answers[w]) \in ToolCalls \cup {Noise, ToolFailure}
        /\ Tail(answers[w]) \in Seq(ToolCalls \cup {Noise, ToolFailure})
    BY <2>1
  <2>3. answers' \in [Workers -> Seq(ToolCalls \cup {Noise, ToolFailure})]
    BY <1>8, <2>1, <2>2 DEF Read
  <2>4. outcome' \in [ToolCalls -> ToolCalls \cup {"none", "error", "timeout", "cancelled"}]
    BY <1>8, <2>2 DEF Read
  <2>5. whereabouts' \in [ToolCalls -> Inside \cup {"idle", "gate", "done"}]
        /\ whereabouts'[c] \in {"fallback", "done"}
        /\ \A d \in ToolCalls : d # c => whereabouts'[d] = whereabouts[d]
    BY <1>8 DEF Read
  <2>6. holder' = [holder EXCEPT ![w] = NoToolCall]
    BY <1>8 DEF Read
  <2>7. ToolTypeOK'
    BY <1>8, <2>3, <2>4, <2>5, <2>6 DEF Read
  <2>8. Locked'
    BY <1>0, <1>8, <2>5, <2>6 DEF Read
  <2>9. QED
    BY <2>7, <2>8
<1>9. CASE ReadFails(c)
  BY <1>9 DEF ReadFails, Kill, Process
<1>10. CASE TimeOut(c)
  BY <1>10 DEF TimeOut, Kill, Process
<1>11. CASE RunAfresh(c)
  BY <1>11 DEF RunAfresh
<1>12. CASE CancelTool(c)
  <2>1. cancels' \in 0 .. MaxCancels /\ tainted' \subseteq Workers
    <3>1. cancels' \in 0 .. MaxCancels
      BY <1>0, <1>12 DEF CancelTool
    <3>2. tainted' = tainted \/ (whereabouts[c] = "read" /\ tainted' = tainted \cup {uses[c]})
      BY <1>12 DEF CancelTool
    <3>3. QED
      BY <3>1, <3>2
  <2>2. whereabouts' = [whereabouts EXCEPT ![c] = "done"]
        /\ outcome' = [outcome EXCEPT ![c] = "cancelled"]
        /\ holder' = [v \in Workers |-> IF holder[v] = c THEN NoToolCall ELSE holder[v]]
    BY <1>12 DEF CancelTool
  <2>3. ToolTypeOK'
    BY <1>12, <2>1, <2>2 DEF CancelTool
  <2>4. Locked'
    BY <1>12, <2>2 DEF CancelTool
  <2>5. QED
    BY <2>3, <2>4
<1>13. QED
  BY <1>1, <1>2, <1>3, <1>4, <1>5, <1>6, <1>7, <1>8, <1>9, <1>10, <1>11, <1>12 DEF ToolStep

LEMMA ProcessKeepsLocks ==
  ASSUME LockInv, NEW w \in Workers, Infer(w) \/ Misbehave(w)
  PROVE  LockInv'
<1> USE DEF LockInv, ToolTypeOK, Locked
<1>1. CASE Infer(w)
  <2> DEFINE Line == ToolCalls \cup {Noise, ToolFailure}
  <2>1. PICK a \in {Head(requests[w]), ToolFailure} :
          answers' = [answers EXCEPT ![w] = Append(@, a)]
    BY <1>1 DEF Infer
  <2>2. requests[w] \in Seq(ToolCalls) /\ requests[w] # <<>>
    BY <1>1 DEF Infer
  <2>3. Head(requests[w]) \in ToolCalls /\ Tail(requests[w]) \in Seq(ToolCalls)
    BY <2>2
  <2>4. Append(answers[w], a) \in Seq(Line)
    BY <2>1, <2>3
  <2>5. QED
    BY <1>1, <2>1, <2>3, <2>4 DEF Infer
<1>2. CASE Misbehave(w)
  <2>1. breaks' \in 0 .. MaxBreaks
    BY <1>2, ToolAssumption DEF ToolAssumption, Misbehave, Break
  <2>2. QED
    <3>1. Append(answers[w], Noise) \in Seq(ToolCalls \cup {Noise, ToolFailure})
      OBVIOUS
    <3>2. answers' \in [Workers -> Seq(ToolCalls \cup {Noise, ToolFailure})]
      BY <1>2, <3>1 DEF Misbehave
    <3>3. <<>> \in Seq(ToolCalls)
      OBVIOUS
    <3>4. requests' \in [Workers -> Seq(ToolCalls)]
          /\ proc' \in [Workers -> {"none", "up", "hung", "exited"}]
      BY <1>2, <3>3 DEF Misbehave
    <3>5. QED
      BY <1>2, <2>1, <3>2, <3>4 DEF Misbehave
<1>3. QED
  BY <1>1, <1>2

LEMMA LockStep == LockInv /\ [ToolNext]_toolVars => LockInv'
<1>1. LockInv /\ UNCHANGED toolVars => LockInv'
  BY DEF LockInv, ToolTypeOK, Locked, toolVars
<1>2. QED
  BY <1>1, CallKeepsLocks, ProcessKeepsLocks DEF ToolNext

-----------------------------------------------------------------------------
(* The pipes *)

(* Nothing happens to the pipes of w, and who read from it still does,     *)
(* or has left it to itself.                                               *)
LEMMA PipesUntouched ==
  ASSUME NEW w \in Workers, PipesOf(w), requests'[w] = requests[w], answers'[w] = answers[w],
         \A c \in ToolCalls : Reading(c, w) => Reading(c, w)'
  PROVE  PipesOf(w)'
BY DEF PipesOf, Quiet, Serving

LEMMA AloneAtWorker ==
  ASSUME LockInv, NEW c \in ToolCalls, NEW d \in ToolCalls, uses[c] = uses[d],
         whereabouts[c] \in {"start", "write", "read"}, whereabouts[d] \in {"start", "write", "read"}
  PROVE  c = d
BY DEF LockInv, Locked

(* A step of a call that touches no pipe, and does not end its reading.    *)
LEMMA CallElsewhere ==
  ASSUME LockInv, NEW c \in ToolCalls, NEW w \in Workers, w \notin tainted', PipesOf(w),
         Arrive(c) \/ TakeSlot(c) \/ FindWorker(c) \/ LockWorker(c) \/ StartFails(c)
           \/ RunAfresh(c) \/ CancelTool(c)
  PROVE  PipesOf(w)'
<1> USE DEF LockInv, ToolTypeOK, GoTo, Return, Reading
<1>1. requests' = requests /\ answers' = answers
  BY DEF Arrive, TakeSlot, FindWorker, LockWorker, StartFails, RunAfresh, CancelTool
<1>2. \A d \in ToolCalls : d # c => whereabouts'[d] = whereabouts[d] /\ uses'[d] = uses[d]
  BY DEF Arrive, TakeSlot, FindWorker, LockWorker, StartFails, RunAfresh, CancelTool
<1>3. ~Reading(c, w)
  <2>1. CASE CancelTool(c)
    BY <2>1 DEF CancelTool
  <2>2. CASE ~CancelTool(c)
    BY <2>2 DEF Arrive, TakeSlot, FindWorker, LockWorker, StartFails, RunAfresh
  <2>3. QED
    BY <2>1, <2>2
<1>4. QED
  BY <1>1, <1>2, <1>3, PipesUntouched

(* The call that uses the process of w starts, writes or reads.            *)
LEMMA CallAtWorker ==
  ASSUME LockInv, NEW c \in ToolCalls, NEW w \in Workers, w = uses[c], PipesOf(w),
         StartProcess(c) \/ Write(c) \/ Read(c) \/ ReadFails(c) \/ TimeOut(c)
  PROVE  PipesOf(w)'
<1> USE DEF LockInv, ToolTypeOK, GoTo, Return
<1>1. AllNoise(<<>>)
  BY DEF AllNoise
<1>2. CASE StartProcess(c) \/ ReadFails(c) \/ TimeOut(c)
  <2>1. requests'[w] = <<>> /\ answers'[w] = <<>>
    BY <1>2 DEF StartProcess, ReadFails, TimeOut, Kill, Process
  <2>2. QED
    BY <1>1, <2>1 DEF PipesOf, Quiet
<1>3. CASE Write(c)
  <2>1. whereabouts[c] = "write" /\ whereabouts'[c] = "read" /\ uses'[c] = w /\ answers' = answers
    BY <1>3 DEF Write
  <2>2. Quiet(w)
    BY <2>1, AloneAtWorker DEF PipesOf, Reading
  <2>3. CASE proc[w] = "exited"
    BY <1>3, <2>1, <2>2, <2>3 DEF Write, PipesOf, Quiet
  <2>4. CASE proc[w] # "exited"
    <3>1. requests'[w] = Append(requests[w], c)
      BY <1>3, <2>4 DEF Write
    <3>2. requests'[w] = <<c>>
      BY <2>2, <3>1 DEF Quiet
    <3>3. AllNoise(answers'[w])
      BY <2>1, <2>2 DEF Quiet
    <3>4. QED
      BY <2>1, <3>2, <3>3 DEF PipesOf, Reading, Serving
  <2>5. QED
    BY <2>3, <2>4
<1>4. CASE Read(c)
  <2>1. whereabouts[c] = "read" /\ answers[w] # <<>> /\ Head(answers[w]) # Noise
        /\ requests' = requests /\ answers'[w] = Tail(answers[w]) /\ answers[w] \in Lines
    BY <1>4 DEF Read, Lines
  <2>2. ~AllNoise(answers[w])
    BY <2>1, NoiseComesFirst
  <2>3. requests[w] = <<>> /\ OneAnswer(answers[w], c)
    BY <2>1, <2>2, AloneAtWorker DEF PipesOf, Quiet, Serving, Reading
  <2>4. AllNoise(Tail(answers[w]))
    BY <2>1, <2>3, FirstIsAnswer
  <2>5. QED
    BY <2>1, <2>3, <2>4 DEF PipesOf, Quiet
<1>5. QED
  BY <1>2, <1>3, <1>4

(* The call that uses the process of another worker.                       *)
LEMMA CallAtOther ==
  ASSUME LockInv, NEW c \in ToolCalls, NEW w \in Workers, w # uses[c], PipesOf(w),
         StartProcess(c) \/ Write(c) \/ Read(c) \/ ReadFails(c) \/ TimeOut(c)
  PROVE  PipesOf(w)'
<1> USE DEF LockInv, ToolTypeOK, GoTo, Return, Reading
<1>1. requests'[w] = requests[w] /\ answers'[w] = answers[w]
  BY DEF StartProcess, Write, Read, ReadFails, TimeOut, Kill, Process
<1>2. uses' = uses /\ \A d \in ToolCalls : d # c => whereabouts'[d] = whereabouts[d]
  BY DEF StartProcess, Write, Read, ReadFails, TimeOut
<1>3. QED
  BY <1>1, <1>2, PipesUntouched

LEMMA ProcessAtWorker ==
  ASSUME LockInv, NEW w \in Workers, PipesOf(w), Infer(w) \/ Misbehave(w)
  PROVE  PipesOf(w)'
<1> USE DEF LockInv, ToolTypeOK
<1>1. whereabouts' = whereabouts /\ uses' = uses /\ answers[w] \in Lines
  BY DEF Infer, Misbehave, Lines
<1>2. CASE Infer(w)
  <2>1. requests[w] # <<>>
    BY <1>2 DEF Infer
  <2>2. PICK c \in ToolCalls : Reading(c, w) /\ requests[w] = <<c>> /\ AllNoise(answers[w])
    BY <2>1 DEF PipesOf, Quiet, Serving
  <2>3. PICK a \in {c, ToolFailure} : answers'[w] = Append(answers[w], a)
    <3>1. Head(requests[w]) = c
      BY <2>2
    <3>2. QED
      BY <1>2, <3>1 DEF Infer
  <2>4. requests'[w] = <<>>
    <3>1. requests'[w] = Tail(requests[w])
      BY <1>2 DEF Infer
    <3>2. QED
      BY <2>2, <3>1
  <2>5. OneAnswer(answers'[w], c)
    BY <1>1, <2>2, <2>3, AnswerAfterNoise
  <2>6. QED
    BY <1>1, <2>2, <2>4, <2>5 DEF PipesOf, Serving, Reading
<1>3. CASE Misbehave(w)
  <2>1. \/ requests'[w] = <<>> /\ answers'[w] = answers[w]
        \/ requests'[w] = requests[w] /\ answers'[w] = answers[w]
        \/ requests'[w] = requests[w] /\ answers'[w] = Append(answers[w], Noise)
    BY <1>3 DEF Misbehave
  <2>2. CASE Quiet(w)
    BY <1>1, <2>1, <2>2, MoreNoise DEF Quiet, PipesOf
  <2>3. ASSUME NEW c \in ToolCalls, Reading(c, w), Serving(w, c) PROVE PipesOf(w)'
    <3>1. Reading(c, w)'
      BY <1>1, <2>3 DEF Reading
    <3>2. CASE requests[w] = <<c>> /\ AllNoise(answers[w])
      BY <1>1, <2>1, <3>1, <3>2, MoreNoise DEF PipesOf, Quiet, Serving
    <3>3. CASE requests[w] = <<>> /\ OneAnswer(answers[w], c)
      BY <1>1, <2>1, <3>1, <3>3, NoiseAfterAnswer DEF PipesOf, Serving
    <3>4. QED
      BY <2>3, <3>2, <3>3 DEF Serving
  <2>4. QED
    BY <2>2, <2>3 DEF PipesOf
<1>4. QED
  BY <1>2, <1>3

LEMMA ProcessAtOther ==
  ASSUME LockInv, NEW w \in Workers, NEW v \in Workers, v # w, PipesOf(w), Infer(v) \/ Misbehave(v)
  PROVE  PipesOf(w)'
<1>1. requests'[w] = requests[w] /\ answers'[w] = answers[w] /\ whereabouts' = whereabouts
      /\ uses' = uses
  BY DEF Infer, Misbehave, LockInv, ToolTypeOK
<1>2. QED
  BY <1>1, PipesUntouched DEF Reading

LEMMA PipesStep == LockInv /\ Pipes /\ [ToolNext]_toolVars => Pipes'
<1> SUFFICES ASSUME LockInv, Pipes, [ToolNext]_toolVars, NEW w \in Workers, w \notin tainted'
             PROVE  PipesOf(w)'
  BY DEF Pipes
<1>1. tainted \subseteq tainted'
  <2>1. ASSUME NEW c \in ToolCalls, Arrive(c) \/ ToolStep(c) \/ StartFails(c) \/ CancelTool(c)
        PROVE  tainted \subseteq tainted'
    BY <2>1 DEF Arrive, ToolStep, TakeSlot, FindWorker, LockWorker, StartProcess, Write, Read, ReadFails,
                TimeOut, RunAfresh, StartFails, CancelTool
  <2>2. ASSUME NEW v \in Workers, Infer(v) \/ Misbehave(v) PROVE tainted \subseteq tainted'
    BY <2>2 DEF Infer, Misbehave
  <2>3. QED
    BY <2>1, <2>2 DEF ToolNext, toolVars
<1>2. PipesOf(w)
  BY <1>1 DEF Pipes
<1>3. ASSUME NEW c \in ToolCalls, Arrive(c) \/ ToolStep(c) \/ StartFails(c) \/ CancelTool(c)
      PROVE  PipesOf(w)'
  BY <1>2, <1>3, CallElsewhere, CallAtWorker, CallAtOther DEF ToolStep
<1>4. ASSUME NEW v \in Workers, Infer(v) \/ Misbehave(v) PROVE PipesOf(w)'
  BY <1>2, <1>4, ProcessAtWorker, ProcessAtOther
<1>5. CASE UNCHANGED toolVars
  BY <1>2, <1>5 DEF toolVars, PipesOf, Quiet, Serving, Reading
<1>6. QED
  BY <1>3, <1>4, <1>5 DEF ToolNext

-----------------------------------------------------------------------------
(* The answers *)

(* A call that returns a result was the one to read it. *)
LEMMA ResultIsOwn ==
  ASSUME LockInv, Pipes, Unanswered, NEW c \in ToolCalls, Read(c), outcome'[c] \in ToolCalls, uses[c] \notin tainted
  PROVE  outcome'[c] = c
<1> USE DEF LockInv, ToolTypeOK
<1> DEFINE w == uses[c]
<1>1. whereabouts[c] = "read" /\ answers[w] # <<>> /\ Head(answers[w]) # Noise
  BY DEF Read
<1>2. w \in Workers
  BY <1>1 DEF Locked
<1>3. answers[w] \in Lines
  BY <1>2 DEF Lines
<1>4. OneAnswer(answers[w], c)
  BY <1>1, <1>2, <1>3, NoiseComesFirst, AloneAtWorker DEF Pipes, PipesOf, Quiet, Serving, Reading
<1>5. Head(answers[w]) \in {c, ToolFailure}
  BY <1>1, <1>3, <1>4, FirstIsAnswer
<1>6. outcome[c] \notin ToolCalls
  BY <1>1, ToolAssumption DEF Unanswered, ToolAssumption
<1>7. QED
  BY <1>1, <1>5, <1>6 DEF Read, Return, GoTo

LEMMA OwnStep == ToolInv /\ [ToolNext]_toolVars => Unanswered' /\ AnswerIsOwn'
<1> SUFFICES ASSUME ToolInv, [ToolNext]_toolVars PROVE Unanswered' /\ AnswerIsOwn'
  OBVIOUS
<1> USE DEF ToolInv, Unanswered, AnswerIsOwn
<1>0. "none" \notin ToolCalls /\ "error" \notin ToolCalls /\ "timeout" \notin ToolCalls
      /\ "cancelled" \notin ToolCalls
  BY ToolAssumption DEF ToolAssumption
<1>1. ASSUME NEW c \in ToolCalls, Arrive(c) \/ ToolStep(c) \/ StartFails(c) \/ CancelTool(c)
      PROVE  Unanswered' /\ AnswerIsOwn'
  <2> USE DEF LockInv, ToolTypeOK, GoTo, Return
  <2>1. CASE Arrive(c) \/ TakeSlot(c) \/ FindWorker(c) \/ LockWorker(c) \/ StartProcess(c) \/ Write(c)
    <3>1. outcome' = outcome /\ tainted' = tainted
          /\ whereabouts[c] # "done" /\ whereabouts'[c] # "done"
          /\ \A d \in ToolCalls : d # c => whereabouts'[d] = whereabouts[d] /\ uses'[d] = uses[d]
      BY <2>1 DEF Arrive, TakeSlot, FindWorker, LockWorker, StartProcess, Write
    <3>2. QED
      BY <1>0, <3>1
  <2>2. CASE StartFails(c) \/ ReadFails(c)
    BY <1>0, <2>2 DEF StartFails, ReadFails
  <2>3. CASE TimeOut(c)
    BY <1>0, <2>3 DEF TimeOut
  <2>4. CASE RunAfresh(c)
    BY <1>0, <2>4 DEF RunAfresh
  <2>5. CASE CancelTool(c)
    <3>1. outcome' = [outcome EXCEPT ![c] = "cancelled"] /\ uses' = uses /\ tainted \subseteq tainted'
          /\ whereabouts' = [whereabouts EXCEPT ![c] = "done"]
      BY <2>5 DEF CancelTool
    <3>2. QED
      BY <1>0, <3>1
  <2>6. CASE Read(c)
    <3>1. uses' = uses /\ tainted' = tainted
          /\ \A d \in ToolCalls : d # c => whereabouts'[d] = whereabouts[d] /\ outcome'[d] = outcome[d]
      BY <2>6 DEF Read
    <3>2. AnswerIsOwn'
      BY <2>6, <3>1, ResultIsOwn
    <3>3. whereabouts'[c] # "done" => outcome'[c] = outcome[c] /\ whereabouts[c] # "done"
      BY <2>6 DEF Read
    <3>4. QED
      BY <3>1, <3>2, <3>3
  <2>7. QED
    BY <1>1, <2>1, <2>2, <2>3, <2>4, <2>5, <2>6 DEF ToolStep
<1>2. ASSUME NEW w \in Workers, Infer(w) \/ Misbehave(w) PROVE Unanswered' /\ AnswerIsOwn'
  BY <1>2 DEF Infer, Misbehave
<1>3. CASE UNCHANGED toolVars
  BY <1>3 DEF toolVars
<1>4. QED
  BY <1>1, <1>2, <1>3 DEF ToolNext

LEMMA ToolInvInit == ToolInit => ToolInv
<1> SUFFICES ASSUME ToolInit PROVE ToolInv
  OBVIOUS
<1>1. Pipes
  BY DEF ToolInit, Pipes, PipesOf, Quiet, AllNoise
<1>2. "none" \notin ToolCalls
  BY ToolAssumption DEF ToolAssumption
<1>3. Unanswered /\ AnswerIsOwn
  BY <1>2 DEF ToolInit, Unanswered, AnswerIsOwn
<1>4. QED
  BY <1>1, <1>3, ToolInit_LockInv DEF ToolInv

LEMMA ToolInvStep == ToolInv /\ [ToolNext]_toolVars => ToolInv'
BY LockStep, PipesStep, OwnStep DEF ToolInv

(* Every reachable state of the tool workers is well typed.                *)
THEOREM ToolTypeCorrect == ToolSpec => []ToolTypeOK
<1>1. LockInv => ToolTypeOK
  BY DEF LockInv
<1>2. QED
  BY <1>1, ToolInit_LockInv, LockStep, PTL DEF ToolSpec

(* For any number of calls, scripts, workers, crashes, stray lines and     *)
(* time-outs, a call is never answered with the result of another, unless  *)
(* a call was cancelled while it read from that worker.                    *)
THEOREM AnswersAreOwn == ToolSpec => []AnswerIsOwn
<1>1. ToolInv => AnswerIsOwn
  BY DEF ToolInv
<1>2. QED
  BY <1>1, ToolInvInit, ToolInvStep, PTL DEF ToolSpec

-----------------------------------------------------------------------------
(* Verdicts *)

LEMMA FoundIsFinite ==
  ASSUME VerdictTypeOK, NEW S \in SUBSET DOMAIN found
  PROVE  IsFiniteSet(S) /\ Cardinality(S) \in Nat
<1>1. IsFiniteSet(S)
  BY FS_Subset, VerdictConstants DEF VerdictTypeOK, VerdictConstants
<1>2. QED
  BY <1>1, FS_CardinalityType

(* A bigger set of findings does not count less. *)
LEMMA CountsGrow ==
  ASSUME VerdictTypeOK, NEW T \in SUBSET DOMAIN found, NEW S \in SUBSET T
  PROVE  /\ Cardinality(S) <= Cardinality(T)
         /\ Cardinality(S) \in Nat /\ Cardinality(T) \in Nat
BY FoundIsFinite, FS_Subset

LEMMA ResultTypes ==
  ASSUME VerdictTypeOK, NEW t \in DOMAIN found
  PROVE  t \in Tools /\ found[t] \in ToolResults
BY VerdictConstants DEF VerdictConstants, VerdictTypeOK

(* What grounding does to a finding. *)
LEMMA GroundedFinding ==
  ASSUME VerdictTypeOK, NEW t \in DOMAIN found
  PROVE  /\ t \notin Cleared => Grounded[t] = found[t]
         /\ t \in Cleared => Grounded[t].verdict = "INCONCLUSIVE"
<1>1. found[t] \in ToolResults
  BY ResultTypes
<1>2. CASE t \in Cleared
  <2>1. Grounded[t] = [found[t] EXCEPT !.verdict = "INCONCLUSIVE", !.low = TRUE]
    BY <1>2 DEF Grounded
  <2>2. QED
    BY <1>1, <1>2, <2>1 DEF ToolResults
<1>3. CASE t \notin Cleared
  BY <1>3 DEF Grounded
<1>4. QED
  BY <1>2, <1>3

LEMMA GroundedPositives ==
  ASSUME VerdictTypeOK
  PROVE  Positive(Grounded) = Positive(found) \ Cleared /\ DOMAIN Grounded = DOMAIN found
<1>1. DOMAIN Grounded = DOMAIN found
  BY DEF Grounded
<1>2. ASSUME NEW t \in DOMAIN found
      PROVE  t \in Positive(Grounded) <=> t \in Positive(found) \ Cleared
  BY <1>1, <1>2, GroundedFinding DEF Positive
<1>3. QED
  BY <1>1, <1>2 DEF Positive

(* The positives that drive the verdict, told of the results as they came. *)
LEMMA DrivingPositives ==
  ASSUME VerdictTypeOK
  PROVE  Driving = {t \in Positive(found) \ Cleared :
                      /\ found[t].defensible /\ ~found[t].low
                      /\ ~(screenshot /\ t \in ScreenProne)}
<1>1. Positive(Grounded) = Positive(found) \ Cleared /\ Positive(found) \subseteq DOMAIN found
  BY GroundedPositives DEF Positive
<1>2. \A t \in Positive(Grounded) : Grounded[t] = found[t]
  BY <1>1, GroundedFinding
<1>3. QED
  BY <1>1, <1>2 DEF Driving

LEMMA IntegrityFound ==
  ASSUME VerdictTypeOK
  PROVE  Strong \subseteq Integrity /\ Integrity \subseteq Driving /\ Driving \subseteq DOMAIN found
BY DrivingPositives DEF Strong, Integrity, Positive

-----------------------------------------------------------------------------
(* Two strong positives *)

LEMMA StrongPairStands == VerdictTypeOK => TwoStrongStand
<1> SUFFICES ASSUME VerdictTypeOK, Cardinality(StrongPair) >= 2
             PROVE  FinalVerdict \in {"LIKELY_MANIPULATED", "AI_GENERATED",
                                      "INCONCLUSIVE_LIMITED_COVERAGE"}
  BY DEF TwoStrongStand
<1>1. StrongPair \subseteq Corroborators /\ Corroborators \subseteq Positive(found)
      /\ Positive(found) \subseteq DOMAIN found
  BY DEF StrongPair, Corroborators, Suspects, Positive
<1>2. Cardinality(Corroborators) >= 2 /\ Cardinality(Corroborators) \in Nat
  BY <1>1, CountsGrow
<1>3. Cleared = {}
  BY <1>2 DEF Cleared
<1>4. StrongPair \subseteq Strong
  BY <1>1, <1>3, DrivingPositives DEF StrongPair, Corroborators, Strong, Integrity
<1>5. Cardinality(Strong) >= 2 /\ Cardinality(Strong) \in Nat
  BY <1>4, IntegrityFound, CountsGrow
<1>6. Cardinality(Integrity) >= 2 /\ Cardinality(Integrity) \in Nat
  BY <1>5, IntegrityFound, CountsGrow
<1>7. ~Uncorroborated
  BY <1>5 DEF Uncorroborated
<1>8. Rule \in {"LIKELY_MANIPULATED", "AI_GENERATED"}
  BY <1>6 DEF Rule, Asserted
<1>9. QED
  BY <1>7, <1>8 DEF FinalVerdict

-----------------------------------------------------------------------------
(* The clean report *)

(* Nothing speaks against the evidence: no positive drives the verdict, no *)
(* hash differs, and the visual model asserts nothing.                     *)
NothingAgainst == ~VisualIssue /\ ~HashMismatch /\ Driving = {}

CleanHasNothing == Label = "AUTHENTIC" => NothingAgainst
NothingIsNotBad == NothingAgainst => Label \in {"AUTHENTIC", "INCONCLUSIVE"}

LEMMA NoSignals ==
  ASSUME VerdictTypeOK
  PROVE  /\ Cardinality(Integrity) \in Nat
         /\ Cardinality(Integrity) = 0 <=> Integrity = {}
BY IntegrityFound, FoundIsFinite, FS_EmptySet

LEMMA CleanRule == VerdictTypeOK => (Rule = "NO_REPORTABLE_MANIPULATION_DETECTED" <=> NothingAgainst)
<1> SUFFICES ASSUME VerdictTypeOK
             PROVE  Rule = "NO_REPORTABLE_MANIPULATION_DETECTED" <=> NothingAgainst
  OBVIOUS
<1>1. Cardinality(Integrity) \in Nat /\ (Cardinality(Integrity) = 0 <=> Integrity = {})
  BY NoSignals
<1>2. Asserted # "NO_REPORTABLE_MANIPULATION_DETECTED" /\ Suspected # "NO_REPORTABLE_MANIPULATION_DETECTED"
  BY DEF Asserted, Suspected
<1>3. OnOneSignal # "NO_REPORTABLE_MANIPULATION_DETECTED"
      /\ OnVisualAlone # "NO_REPORTABLE_MANIPULATION_DETECTED"
  BY <1>2 DEF OnOneSignal, OnVisualAlone
<1>4. CASE Rule = "NO_REPORTABLE_MANIPULATION_DETECTED"
  <2>1. ~HashMismatch /\ ~(Cardinality(Integrity) >= 2) /\ Cardinality(Integrity) # 1 /\ ~VisualIssue
        /\ Driving \cap Provenance = {} /\ Driving \cap ContentRisk = {}
    BY <1>2, <1>3, <1>4 DEF Rule
  <2>2. Integrity = {}
    BY <1>1, <2>1
  <2>3. QED
    BY <1>4, <2>1, <2>2 DEF Integrity, NothingAgainst
<1>5. CASE NothingAgainst
  <2>1. Cardinality(Integrity) = 0
    BY <1>1, <1>5 DEF NothingAgainst, Integrity
  <2>2. QED
    BY <1>5, <2>1 DEF Rule, NothingAgainst
<1>6. QED
  BY <1>4, <1>5

LEMMA CleanLabel == VerdictTypeOK => CleanHasNothing /\ NothingIsNotBad
<1> SUFFICES ASSUME VerdictTypeOK PROVE CleanHasNothing /\ NothingIsNotBad
  OBVIOUS
<1>1. Label = "AUTHENTIC" => FinalVerdict = "NO_REPORTABLE_MANIPULATION_DETECTED"
  BY DEF Label
<1>2. FinalVerdict = "NO_REPORTABLE_MANIPULATION_DETECTED" => Rule = "NO_REPORTABLE_MANIPULATION_DETECTED"
  BY DEF FinalVerdict
<1>3. Rule = "NO_REPORTABLE_MANIPULATION_DETECTED" =>
        FinalVerdict \in {"NO_REPORTABLE_MANIPULATION_DETECTED", "INCONCLUSIVE_LIMITED_COVERAGE"}
  BY DEF FinalVerdict, Uncorroborated
<1>4. FinalVerdict \in {"NO_REPORTABLE_MANIPULATION_DETECTED", "INCONCLUSIVE_LIMITED_COVERAGE"} =>
        Label \in {"AUTHENTIC", "INCONCLUSIVE"}
  BY DEF Label
<1>5. QED
  BY <1>1, <1>2, <1>3, <1>4, CleanRule DEF CleanHasNothing, NothingIsNotBad

LEMMA CleanExplained == VerdictTypeOK => CleanIsExplained
<1> SUFFICES ASSUME VerdictTypeOK, NothingAgainst, NEW t \in Positive(found)
             PROVE  \/ ~found[t].defensible /\ t \notin HashTools
                    \/ found[t].low /\ t \notin HashTools
                    \/ screenshot /\ t \in ScreenProne
                    \/ /\ visual.source = "remote" /\ visual.read = "clean"
                       /\ t \notin NonIntegrity
                       /\ ~(t \in Splicers /\ found[t].conf >= 50)
                       /\ Cardinality(Corroborators) < 2
  BY CleanLabel DEF CleanIsExplained, CleanHasNothing, NothingAgainst
<1>1. CASE t \in Cleared
  <2>1. visual.source = "remote" /\ ~Flagged /\ Cardinality(Corroborators) < 2 /\ ~Authoritative
        /\ t \in Suspects
    BY <1>1 DEF Cleared
  <2>2. visual.read = "clean"
    BY <2>1, VerdictConstants DEF VerdictConstants, VerdictTypeOK, Visuals, Flagged
  <2>3. t \notin NonIntegrity /\ t \notin HashTools
    BY <2>1, VerdictConstants DEF VerdictConstants, Suspects
  <2>4. ~found[t].defensible \/ ~(t \in Splicers /\ found[t].conf >= 50)
    BY <2>1 DEF Authoritative
  <2>5. QED
    BY <2>1, <2>2, <2>3, <2>4
<1>2. CASE t \notin Cleared
  <2>1. t \in Positive(Grounded)
    BY <1>2, GroundedPositives
  <2>2. t \notin HashTools
    BY <2>1 DEF NothingAgainst, HashMismatch
  <2>3. ~found[t].defensible \/ found[t].low \/ (screenshot /\ t \in ScreenProne)
    BY <1>2, DrivingPositives DEF NothingAgainst
  <2>4. QED
    BY <2>2, <2>3
<1>3. QED
  BY <1>1, <1>2

-----------------------------------------------------------------------------
(* One more result *)

LEMMA VerdictTypeInit == VerdictInit => VerdictTypeOK
BY DEF VerdictInit, VerdictTypeOK

LEMMA ReportAdds ==
  ASSUME VerdictTypeOK, NEW t \in Tools, Report(t)
  PROVE  /\ t \notin DOMAIN found /\ DOMAIN found' = DOMAIN found \cup {t}
         /\ \A u \in DOMAIN found : found'[u] = found[u]
         /\ found'[t] \in Possible[t]
         /\ visual' = visual /\ screenshot' = screenshot
<1>1. PICK r \in Possible[t] : found' = [u \in DOMAIN found \cup {t} |-> IF u = t THEN r ELSE found[u]]
  BY DEF Report
<1>2. QED
  BY <1>1 DEF Report

LEMMA VerdictTypeStep == VerdictTypeOK /\ [VerdictNext]_verdictVars => VerdictTypeOK'
<1> SUFFICES ASSUME VerdictTypeOK, [VerdictNext]_verdictVars PROVE VerdictTypeOK'
  OBVIOUS
<1>1. ASSUME NEW t \in Tools, Report(t) PROVE VerdictTypeOK'
  BY <1>1, ReportAdds DEF VerdictTypeOK
<1>2. CASE UNCHANGED verdictVars
  BY <1>2 DEF verdictVars, VerdictTypeOK
<1>3. QED
  BY <1>1, <1>2 DEF VerdictNext

(* Facts of a state that the next state has as well. *)
DrivingFacts ==
  /\ Driving = {t \in Positive(found) \ Cleared :
                  /\ found[t].defensible /\ ~found[t].low
                  /\ ~(screenshot /\ t \in ScreenProne)}
  /\ HashMismatch <=> Positive(found) \cap HashTools # {}
VerdictFacts ==
  /\ VerdictTypeOK /\ DrivingFacts /\ CleanHasNothing /\ NothingIsNotBad
  /\ NothingAgainst => Rule = "NO_REPORTABLE_MANIPULATION_DETECTED"

LEMMA FactsHold == VerdictTypeOK => VerdictFacts
<1> SUFFICES ASSUME VerdictTypeOK PROVE VerdictFacts
  OBVIOUS
<1>1. Cleared \cap HashTools = {}
  BY VerdictConstants DEF VerdictConstants, Cleared, Suspects
<1>2. HashMismatch <=> Positive(found) \cap HashTools # {}
  BY <1>1, GroundedPositives DEF HashMismatch
<1>3. QED
  BY <1>2, DrivingPositives, CleanLabel, CleanRule DEF VerdictFacts, DrivingFacts

LEMMA ToolCounts ==
  ASSUME NEW T \in SUBSET Tools, NEW S \in SUBSET T
  PROVE  /\ Cardinality(S) <= Cardinality(T)
         /\ Cardinality(S) \in Nat /\ Cardinality(T) \in Nat
<1>1. IsFiniteSet(T) /\ IsFiniteSet(S)
  BY FS_Subset, VerdictConstants DEF VerdictConstants
<1>2. QED
  BY <1>1, FS_Subset, FS_CardinalityType

(* The verdict is clean only when nothing is against the evidence and the  *)
(* coverage is there.                                                      *)
CleanMeansCovered == Label = "AUTHENTIC" <=> NothingAgainst /\ ~LimitedCoverage

LEMMA CleanIsCovered == VerdictTypeOK => CleanMeansCovered
<1> SUFFICES ASSUME VerdictTypeOK PROVE CleanMeansCovered
  OBVIOUS
<1>1. Label = "AUTHENTIC" <=> FinalVerdict = "NO_REPORTABLE_MANIPULATION_DETECTED"
  BY DEF Label
<1>2. FinalVerdict = "NO_REPORTABLE_MANIPULATION_DETECTED"
        <=> Rule = "NO_REPORTABLE_MANIPULATION_DETECTED" /\ ~LimitedCoverage
  BY DEF FinalVerdict, Uncorroborated
<1>3. QED
  BY <1>1, <1>2, CleanRule DEF CleanMeansCovered

(* A tool that failed is no positive: it changes nothing but the coverage, *)
(* and that only for the worse.                                            *)
LEMMA FailureOnlyUncovers ==
  ASSUME VerdictFacts, VerdictFacts', CleanMeansCovered, CleanMeansCovered',
         NEW t \in Tools, Report(t), found'[t].verdict = "ERROR", Label' = "AUTHENTIC"
  PROVE  Label = "AUTHENTIC"
<1>1. /\ t \notin DOMAIN found /\ DOMAIN found' = DOMAIN found \cup {t}
      /\ \A u \in DOMAIN found : found'[u] = found[u]
      /\ visual' = visual /\ screenshot' = screenshot
  BY ReportAdds DEF VerdictFacts
<1>2. Positive(found)' = Positive(found) /\ Positive(found) \subseteq DOMAIN found
  BY <1>1 DEF Positive
<1>3. Suspects' = Suspects /\ Suspects \subseteq DOMAIN found
  BY <1>2 DEF Suspects
<1>4. Corroborators' = Corroborators /\ (Authoritative' <=> Authoritative) /\ (Flagged' <=> Flagged)
  BY <1>1, <1>3 DEF Corroborators, Authoritative, Flagged
<1>5. Cleared' = Cleared
  BY <1>1, <1>3, <1>4 DEF Cleared
<1>6. NothingAgainst' /\ ~LimitedCoverage'
  BY DEF CleanMeansCovered
<1>7. NothingAgainst
  <2>1. Driving' = Driving
    BY <1>1, <1>2, <1>5 DEF VerdictFacts, DrivingFacts
  <2>2. HashMismatch' <=> HashMismatch
    BY <1>2 DEF VerdictFacts, DrivingFacts
  <2>3. VisualIssue' <=> VisualIssue
    BY <1>1 DEF VisualIssue
  <2>4. QED
    BY <1>6, <2>1, <2>2, <2>3 DEF NothingAgainst
<1>8. FailedTools \subseteq FailedTools' /\ CompletedTools' = CompletedTools
  BY <1>1 DEF FailedTools, CompletedTools
<1>9. Strong = {} /\ Strong' = {}
  BY <1>6, <1>7 DEF NothingAgainst, Strong, Integrity
<1>10. FailedTools' \subseteq Tools
  BY DEF FailedTools, VerdictFacts, VerdictTypeOK
<1>11. ~LimitedCoverage
  <2>1. Cardinality(ImportantTools \cap FailedTools) <= Cardinality(ImportantTools \cap FailedTools')
        /\ Cardinality(ImportantTools \cap FailedTools) \in Nat
        /\ Cardinality(ImportantTools \cap FailedTools') \in Nat
    BY <1>8, <1>10, ToolCounts
  <2>2. Cardinality(CriticalTools \cap FailedTools) <= Cardinality(CriticalTools \cap FailedTools')
        /\ Cardinality(CriticalTools \cap FailedTools) \in Nat
        /\ Cardinality(CriticalTools \cap FailedTools') \in Nat
    BY <1>8, <1>10, ToolCounts
  <2>3. (Covers(40)' <=> Covers(40)) /\ (Covers(80)' <=> Covers(80))
    BY <1>8 DEF Covers
  <2>4. ~HashMismatch'
    BY <1>6 DEF NothingAgainst
  <2>5. /\ ~(Cardinality(ImportantTools \cap FailedTools') >= 2) /\ Covers(40)'
        /\ ~(Cardinality(CriticalTools \cap FailedTools') >= 2)
        /\ CriticalTools \cap FailedTools' = {} \/ Covers(80)'
    BY <1>6, <1>9, <2>4 DEF LimitedCoverage
  <2>6. CriticalTools \cap FailedTools = {} \/ Covers(80)
    BY <1>8, <2>3, <2>5
  <2>7. QED
    BY <2>1, <2>2, <2>3, <2>5, <2>6 DEF LimitedCoverage
<1>12. QED
  BY <1>7, <1>11 DEF CleanMeansCovered

(* What one more positive leaves driving, it finds driving. *)
LEMMA PositiveOnlyAdds ==
  ASSUME VerdictFacts, VerdictFacts', NEW t \in Tools, Report(t), found'[t].verdict = "POSITIVE",
         NothingAgainst'
  PROVE  NothingAgainst
<1>1. /\ t \notin DOMAIN found /\ DOMAIN found' = DOMAIN found \cup {t}
      /\ \A u \in DOMAIN found : found'[u] = found[u]
      /\ visual' = visual /\ screenshot' = screenshot
  BY ReportAdds DEF VerdictFacts
<1>2. Positive(found) \subseteq Positive(found)' /\ Positive(found) \subseteq DOMAIN found
      /\ Positive(found)' \subseteq Tools
  BY <1>1 DEF Positive, VerdictFacts, VerdictTypeOK
<1>3. Suspects \subseteq Suspects' /\ Suspects \subseteq DOMAIN found /\ Suspects' \subseteq Tools
  BY <1>2 DEF Suspects
<1>4. ~VisualIssue /\ ~HashMismatch
  <2>1. ~VisualIssue
    BY <1>1 DEF VisualIssue, NothingAgainst
  <2>2. Positive(found)' \cap HashTools = {}
    BY DEF NothingAgainst, VerdictFacts, DrivingFacts
  <2>3. QED
    BY <1>2, <2>1, <2>2 DEF VerdictFacts, DrivingFacts
<1>5. ASSUME NEW u \in Driving PROVE FALSE
  <2>1. u \in Positive(found) /\ u \notin Cleared /\ found[u].defensible /\ ~found[u].low
        /\ ~(screenshot /\ u \in ScreenProne)
    BY <1>5 DEF VerdictFacts, DrivingFacts
  <2>2. u \in Cleared'
    BY <1>1, <1>2, <2>1 DEF NothingAgainst, VerdictFacts, DrivingFacts
  <2>3. /\ visual.source = "remote" /\ ~Flagged /\ Cardinality(Corroborators') < 2 /\ ~Authoritative'
        /\ u \notin NonIntegrity
    BY <1>1, <2>2 DEF Cleared, Flagged, Suspects
  <2>4. Corroborators \subseteq Corroborators' /\ Corroborators' \subseteq Tools
    BY <1>1, <1>3 DEF Corroborators
  <2>5. Cardinality(Corroborators) < 2
    BY <2>3, <2>4, ToolCounts
  <2>6. ~Authoritative
    BY <1>1, <1>3, <2>3 DEF Authoritative
  <2>7. u \in Suspects
    BY <2>1, <2>3 DEF Suspects
  <2>8. QED
    BY <2>1, <2>3, <2>5, <2>6, <2>7 DEF Cleared
<1>6. QED
  BY <1>4, <1>5 DEF NothingAgainst

LEMMA BadNewsStep ==
  VerdictFacts /\ VerdictFacts' /\ CleanMeansCovered /\ CleanMeansCovered' /\ [VerdictNext]_verdictVars =>
    [\A t \in DOMAIN found' \ DOMAIN found :
       /\ found'[t].verdict = "ERROR" => (Label' = "AUTHENTIC" => Label = "AUTHENTIC")
       /\ found'[t].verdict = "POSITIVE" =>
            (Label' = "AUTHENTIC" => Label \notin {"SUSPICIOUS", "MANIPULATED", "AI_GENERATED"})
    ]_verdictVars
<1> SUFFICES ASSUME VerdictFacts, VerdictFacts', CleanMeansCovered, CleanMeansCovered', VerdictNext,
                    NEW t \in DOMAIN found' \ DOMAIN found, Label' = "AUTHENTIC"
             PROVE  /\ found'[t].verdict = "ERROR" => Label = "AUTHENTIC"
                    /\ found'[t].verdict = "POSITIVE" =>
                         Label \notin {"SUSPICIOUS", "MANIPULATED", "AI_GENERATED"}
  OBVIOUS
<1>1. t \in Tools /\ Report(t)
  <2>1. PICK u \in Tools : Report(u)
    BY DEF VerdictNext
  <2>2. t = u
    BY <2>1, ReportAdds DEF VerdictFacts
  <2>3. QED
    BY <2>1, <2>2
<1>2. NothingAgainst'
  BY DEF VerdictFacts, CleanHasNothing
<1>3. found'[t].verdict = "ERROR" => Label = "AUTHENTIC"
  BY <1>1, FailureOnlyUncovers
<1>4. ASSUME found'[t].verdict = "POSITIVE" PROVE Label \in {"AUTHENTIC", "INCONCLUSIVE"}
  BY <1>1, <1>2, <1>4, PositiveOnlyAdds DEF VerdictFacts, NothingIsNotBad
<1>5. QED
  BY <1>3, <1>4

(* Every reachable state of the verdicts is well typed.                    *)
THEOREM VerdictTypeCorrect == VerdictSpec => []VerdictTypeOK
BY VerdictTypeInit, VerdictTypeStep, PTL DEF VerdictSpec

(* For any set of tools, whatever their roles, bars and possible results:  *)
(* two strong defensible positives are taken back neither by a clean read  *)
(* nor by the corroboration gate.                                          *)
THEOREM TwoStrongAlwaysStand == VerdictSpec => []TwoStrongStand
BY VerdictTypeCorrect, StrongPairStands, PTL

(* For any set of tools: a report that says "authentic" has a reason for   *)
(* each positive among its findings.                                       *)
THEOREM CleanReportsAreExplained == VerdictSpec => []CleanIsExplained
BY VerdictTypeCorrect, CleanExplained, PTL

(* For any set of tools and any order of their results: neither a failure  *)
(* nor a further positive turns a report authentic.                        *)
THEOREM BadNewsClearsNothing == VerdictSpec => BadNewsNeverClears
BY VerdictTypeInit, VerdictTypeStep, FactsHold, CleanIsCovered, BadNewsStep, PTL
   DEF VerdictSpec, BadNewsNeverClears
=============================================================================
