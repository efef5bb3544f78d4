------------------------------- MODULE Verdict -------------------------------
(* How the results of the forensic tools and the read of the visual model  *)
(* become verdicts: the one of the signed report (Label), the one signed   *)
(* for each agent (Signed), and the one that was shown on the live card of *)
(* the agent before (Card).                                                *)
(*                                                                         *)
(* The state is what an investigation has found.  Results arrive tool by   *)
(* tool, in any order, and each set of results is one the arbiter may get: *)
(* tools are gated off, or fail.  The verdicts are functions of it; the    *)
(* score of confidence beside them is left out.  A tool stands for one     *)
(* finding.                                                                *)
EXTENDS Integers, FiniteSets

CONSTANTS
  Tools,
  Examiners,     \* the agents, whose tools they are
  ExaminerOf,    \* function from Tools to Examiners
  Role,          \* function from Examiners to "image", "scene", "metadata"
  Provenance,    \* sets of tools, by what their findings are about
  ContentRisk,
  NonIntegrity,  \* tools the grounding of the arbiter never touches
  HashTools, AiTools,
  Screening,     \* heuristics that do not corroborate each other
  Splicers,      \* tools with an authoritative trained model
  ScreenProne,   \* tools that flag any screenshot
  CriticalTools, \* tools the coverage is measured by
  ImportantTools,
  SingleBar,     \* percent: what makes a single positive an assertion
  StrongBar,     \* percent: what makes a positive a strong one
  Possible,      \* function: the results a tool may have
  Reads          \* the reads of the visual model that may have been stored

Visuals ==
  {[source |-> "none", read |-> "none", conf |-> 0]} \cup
  [source : {"local", "remote"}, read : {"clean", "suspicious", "manipulated", "ai"}, conf : 0..100]

ToolResults ==
  [verdict : {"POSITIVE", "NEGATIVE", "INCONCLUSIVE", "ERROR"}, conf : 0..100,
   defensible : BOOLEAN, low : BOOLEAN]

ASSUME VerdictConstants ==
  /\ IsFiniteSet(Tools) /\ ExaminerOf \in [Tools -> Examiners]
  /\ Role \in [Examiners -> {"image", "scene", "metadata"}]
  /\ HashTools \subseteq NonIntegrity
  /\ NonIntegrity \cap (Screening \cup Splicers) = {}
  /\ SingleBar \in 0..100 /\ StrongBar \in 0..SingleBar
  /\ Reads \subseteq Visuals
  /\ \A t \in Tools : Possible[t] \subseteq ToolResults

VARIABLES
  found,       \* function from the tools that ran to their results
  visual,      \* the read of the visual model: from where, what, how sure
  screenshot   \* the evidence is a screenshot

verdictVars == <<found, visual, screenshot>>

VerdictTypeOK ==
  /\ visual \in Reads /\ screenshot \in BOOLEAN
  /\ DOMAIN found \subseteq Tools
  /\ \A t \in DOMAIN found : found[t] \in Possible[t]

VerdictInit == found = <<>> /\ visual \in Reads /\ screenshot \in BOOLEAN

Report(t) ==
  /\ t \notin DOMAIN found
  /\ \E r \in Possible[t] :
       found' = [u \in DOMAIN found \cup {t} |-> IF u = t THEN r ELSE found[u]]
  /\ UNCHANGED <<visual, screenshot>>

VerdictNext == \E t \in Tools : Report(t)

VerdictSpec == VerdictInit /\ [][VerdictNext]_verdictVars
-----------------------------------------------------------------------------
(* Grounding: a clean read of the remote model clears the integrity        *)
(* positives of all agents, unless two strong ones agree or a trained      *)
(* splicing model is among them.                                           *)

Positive(results) == {t \in DOMAIN results : results[t].verdict = "POSITIVE"}

Suspects == Positive(found) \ NonIntegrity

Flagged == visual.read \in {"suspicious", "manipulated", "ai"}

Corroborators ==
  {t \in Suspects \ Screening : found[t].conf >= 70 /\ found[t].defensible}

Authoritative ==
  \E t \in Suspects \cap Splicers : found[t].defensible /\ found[t].conf >= 50

(* Mutants: without counting the strong ones, and on a local read as well. *)
ClearedRegardless ==
  IF visual.source = "remote" /\ ~Flagged /\ ~Authoritative THEN Suspects ELSE {}
ClearedByAnyRead ==
  IF visual.source # "none" /\ ~Flagged /\ Cardinality(Corroborators) < 2 /\ ~Authoritative
  THEN Suspects ELSE {}

Cleared ==
  IF /\ visual.source = "remote" /\ ~Flagged
     /\ Cardinality(Corroborators) < 2
     /\ ~Authoritative
  THEN Suspects ELSE {}

Grounded ==
  LET cleared == Cleared
  IN [t \in DOMAIN found |->
     IF t \in cleared THEN [found[t] EXCEPT !.verdict = "INCONCLUSIVE", !.low = TRUE]
                      ELSE found[t]]
-----------------------------------------------------------------------------
(* Deliberation. *)

(* The positives that drive the verdict. *)
Driving ==
  LET grounded == Grounded
  IN {t \in Positive(grounded) :
        /\ grounded[t].defensible /\ ~grounded[t].low
        /\ ~(screenshot /\ t \in ScreenProne)}

Integrity == Driving \ (Provenance \cup ContentRisk)

HashMismatch == Positive(Grounded) \cap HashTools # {}

(* The visual model asserts manipulation; a read that is only suspicious   *)
(* does not count.                                                         *)
VisualIssue == visual.read \in {"manipulated", "ai"}

Synthetic ==
  \/ visual.read = "ai"
  \/ LET ai == Cardinality(Integrity \cap AiTools)
     IN ai > 0 /\ 2 * ai >= Cardinality(Integrity)

Asserted == IF Synthetic THEN "AI_GENERATED" ELSE "LIKELY_MANIPULATED"
Suspected == IF Synthetic THEN "LIKELY_AI_GENERATED" ELSE "SUSPICIOUS_INTEGRITY_SIGNALS"

(* What a single driving positive, or none, leads to. *)
OnOneSignal ==
  IF VisualIssue \/ \E t \in Integrity : found[t].conf >= SingleBar
  THEN Asserted ELSE Suspected

OnVisualAlone ==
  IF visual.source = "remote" /\ visual.conf >= 70 THEN Asserted ELSE Suspected

Rule ==
  LET driving == Driving
      signals == Cardinality(Integrity)
  IN IF HashMismatch THEN "LIKELY_MANIPULATED"
     ELSE IF signals >= 2 THEN Asserted
     ELSE IF signals = 1 THEN OnOneSignal
     ELSE IF VisualIssue THEN OnVisualAlone
     ELSE IF driving \cap Provenance # {} THEN "PROVENANCE_CONCERN"
     ELSE IF driving \cap ContentRisk # {} THEN "CONTENT_RISK_OBSERVED"
     ELSE "NO_REPORTABLE_MANIPULATION_DETECTED"

Strong == {t \in Integrity : found[t].conf >= StrongBar}

(* The corroboration gate: tool signals alone do not carry a verdict. *)
Uncorroborated ==
  /\ Rule \in {"LIKELY_MANIPULATED", "SUSPICIOUS_INTEGRITY_SIGNALS", "AI_GENERATED", "LIKELY_AI_GENERATED"}
  /\ ~HashMismatch /\ ~VisualIssue
  /\ Cardinality(Strong) < 2

FailedTools == {t \in DOMAIN found : found[t].verdict = "ERROR"}
(* Mutant: a tool that failed counts as one that completed. *)
ReportedTools == DOMAIN found

CompletedTools == DOMAIN found \ FailedTools

(* Whether percent of the important tools completed. *)
Covers(percent) ==
  100 * Cardinality(ImportantTools \cap CompletedTools) >= percent * Cardinality(ImportantTools)

LimitedCoverage ==
  /\ ~HashMismatch
  /\ \/ Cardinality(ImportantTools \cap FailedTools) >= 2
     \/ ~Covers(40)
     \/ Cardinality(CriticalTools \cap FailedTools) >= 2
     \/ CriticalTools \cap FailedTools # {} /\ ~Covers(80) /\ Strong = {}

FinalVerdict ==
  IF LimitedCoverage THEN "INCONCLUSIVE_LIMITED_COVERAGE"
  ELSE IF Uncorroborated THEN "INCONCLUSIVE_UNCORROBORATED_SIGNAL"
  ELSE Rule

(* The verdict field of the signed report. *)
Label ==
  LET final == FinalVerdict
  IN CASE final = "AI_GENERATED" -> "AI_GENERATED"
       [] final = "LIKELY_MANIPULATED" -> "MANIPULATED"
       [] final \in {"LIKELY_AI_GENERATED", "SUSPICIOUS_INTEGRITY_SIGNALS",
                     "PROVENANCE_CONCERN", "CONTENT_RISK_OBSERVED"} -> "SUSPICIOUS"
       [] final = "NO_REPORTABLE_MANIPULATION_DETECTED" -> "AUTHENTIC"
       [] OTHER -> "INCONCLUSIVE"
-----------------------------------------------------------------------------
(* Examiners. *)

ResultsOf(a, results) ==
  [t \in {u \in DOMAIN results : ExaminerOf[u] = a} |-> results[t]]

(* The verdict on the results of one agent and the read it is shown.       *)
(* Anomaly lists of the read are left out; the weight of a read in the     *)
(* deep pass changes only the confidence.                                  *)
AgentVerdict(results, read) ==
  LET alerts == {t \in Positive(results) : ~results[t].low}
      asserted == read \in {"manipulated", "ai"}
      strong == Cardinality({t \in alerts : results[t].conf >= 60})
                  + (IF asserted /\ visual.source = "remote" THEN 1 ELSE 0)
  IN CASE strong >= 2 -> "MANIPULATED"
       [] strong = 1 -> "SUSPICIOUS"
       [] strong = 0 -> IF \/ alerts # {} \/ asserted \/ read = "suspicious"
                           \/ \A t \in DOMAIN results : results[t].verdict # "NEGATIVE"
                        THEN "INCONCLUSIVE" ELSE "AUTHENTIC"

Inherited == IF VisualIssue THEN visual.read ELSE "none"

(* The report shows the metadata agent no read, and an unsure one to none. *)
SignedRead(a) ==
  IF visual.conf < 60 \/ Role[a] = "metadata" THEN "none"
  ELSE IF Role[a] = "image" THEN visual.read ELSE Inherited

Signed(a) == AgentVerdict(ResultsOf(a, Grounded), SignedRead(a))

CardRead(a) ==
  CASE Role[a] = "image" -> visual.read
    [] Role[a] = "scene" -> Inherited
    [] Role[a] = "metadata" -> IF Flagged THEN visual.read ELSE "none"

(* The gate of the card would hold positives inconclusive as the grounding *)
(* does, but replaces only findings that are dicts: an agent keeps objects.*)
Card(a) == AgentVerdict(ResultsOf(a, found), CardRead(a))
-----------------------------------------------------------------------------
(* Properties. *)

(* Two strong, court-defensible positives of integrity detectors stand:    *)
(* neither a clean visual read nor a lack of corroboration takes them      *)
(* back.  Only missing coverage may leave the verdict open.                *)
StrongPair ==
  {t \in Corroborators : t \notin Provenance \cup ContentRisk /\ found[t].conf >= StrongBar
                         /\ ~found[t].low /\ ~(screenshot /\ t \in ScreenProne)}

TwoStrongStand ==
  Cardinality(StrongPair) >= 2 =>
    FinalVerdict \in {"LIKELY_MANIPULATED", "AI_GENERATED", "INCONCLUSIVE_LIMITED_COVERAGE"}

(* A report that calls the evidence authentic can explain every positive   *)
(* among its findings: not defensible, capped as noise, discounted on a    *)
(* screenshot, or cleared by a clean remote read without two strong        *)
(* detectors or a trained splicing model against it; and the visual model  *)
(* asserts nothing.                                                        *)
CleanIsExplained ==
  Label = "AUTHENTIC" =>
    /\ ~VisualIssue
    /\ \A t \in Positive(found) :
         \/ ~found[t].defensible /\ t \notin HashTools
         \/ found[t].low /\ t \notin HashTools
         \/ screenshot /\ t \in ScreenProne
         \/ /\ visual.source = "remote" /\ visual.read = "clean"
            /\ t \notin NonIntegrity
            /\ ~(t \in Splicers /\ found[t].conf >= 50)
            /\ Cardinality(Corroborators) < 2

(* Bad news never reassures: a tool that fails does not make a report      *)
(* authentic that was not, and a further positive does not make it so      *)
(* after the findings so far called it suspicious, manipulated or          *)
(* synthetic.                                                              *)
BadNewsNeverClears ==
  [][\A t \in DOMAIN found' \ DOMAIN found :
       /\ found'[t].verdict = "ERROR" => (Label' = "AUTHENTIC" => Label = "AUTHENTIC")
       /\ found'[t].verdict = "POSITIVE" =>
            (Label' = "AUTHENTIC" => Label \notin {"SUSPICIOUS", "MANIPULATED", "AI_GENERATED"})
    ]_verdictVars

(* What the comment beside the card promises: when the grounding clears a  *)
(* positive of an agent, its live card has the verdict the signed report   *)
(* will have for it.                                                       *)
CardHoldsCleared ==
  \A a \in Examiners :
    Cleared \cap DOMAIN ResultsOf(a, found) # {} => Card(a) = Signed(a)
=============================================================================
