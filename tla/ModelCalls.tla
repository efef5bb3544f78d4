----------------------------- MODULE ModelCalls -----------------------------
(***************************************************************************)
(* Calls of language models (core/llm_client.py): reasoning steps of the   *)
(* agents behind one circuit breaker per model (core/retry.py), syntheses  *)
(* one at a time behind the shares of the quota manager                    *)
(* (core/quota_manager.py). Both walk through the candidate models and     *)
(* share the process-wide semaphore for requests.                          *)
(***************************************************************************)
EXTENDS Naturals, Sequences, FiniteSets

CONSTANTS
  Reasoners,  \* callers of generate_reasoning_step, again and again
  Writers,    \* callers of generate_synthesis
  Candidates, \* _get_model_candidates: models in order of preference
  Threshold,  \* failure_threshold
  Probes,     \* half_open_max_calls
  Recovery,   \* recovery_timeout, in ticks
  Share,      \* calls a minute of the priority of these syntheses
  Span,       \* the window, in ticks
  Requests,   \* _global_semaphore
  Tries       \* _MAX_RETRIES

ASSUME ModelAssumption ==
  /\ Reasoners \cap Writers = {}
  /\ Candidates # <<>> /\ Candidates \in Seq({Candidates[i] : i \in DOMAIN Candidates})
  /\ {Threshold, Probes, Recovery, Share, Span, Requests, Tries} \subseteq Nat \ {0}

VARIABLES
  stage,    \* where each call is
  pick,     \* the candidate it is at
  tries,    \* attempts made of this candidate
  breaker,  \* of each model: state, failures, successes, ticks to recovery
  proofs,   \* history: successes while half-open since it was last closed
  spent,    \* _minute_calls: the ages of the records, the oldest first
  echo      \* history: ticks until the last call recorded twice has left spent

modelVars == <<stage, pick, tries, breaker, proofs, spent, echo>>

Callers == Reasoners \cup Writers
Models == {Candidates[i] : i \in DOMAIN Candidates}
Ages == 0 .. Span - 1
Used == Len(spent)

ModelTypeOK ==
  /\ stage \in [Callers -> {"idle", "turn", "consider", "guard", "wait", "post",
                         "light", "lightPost"}]
  /\ pick \in [Callers -> 1 .. Len(Candidates) + 1]
  /\ tries \in [Callers -> 0 .. Tries - 1]
  /\ breaker \in [Models -> [state : {"CLOSED", "OPEN", "HALF_OPEN"}, failures : 0 .. Threshold - 1,
                             successes : 0 .. Probes - 1, cooling : 0 .. Recovery]]
  /\ proofs \in [Models -> 0 .. Probes]
  /\ spent \in Seq(Ages)
  /\ echo \in 0 .. Span

ModelInit ==
  /\ stage = [c \in Callers |-> "idle"]
  /\ pick = [c \in Callers |-> 1]
  /\ tries = [c \in Callers |-> 0]
  /\ breaker = [m \in Models |-> [state |-> "CLOSED", failures |-> 0, successes |-> 0,
                                  cooling |-> 0]]
  /\ proofs = [m \in Models |-> 0]
  /\ spent = <<>>
  /\ echo = 0

-----------------------------------------------------------------------------
(* CircuitBreaker. Failures are counted to a purpose only while it is      *)
(* closed (a success sets them to 0 before it closes again), and the time  *)
(* of the last one matters only while it is open.                          *)

(* .state: an open breaker that has cooled down is half-open. *)
Seen(b) == IF b.state = "OPEN" /\ b.cooling = 0 THEN [b EXCEPT !.state = "HALF_OPEN"] ELSE b

(* Mutant of Success: the count of successes outlives the half-open state. *)
SuccessKeeping(b) ==
  LET n == IF b.successes < Probes - 1 THEN b.successes + 1 ELSE b.successes IN
  IF b.state # "HALF_OPEN" THEN [b EXCEPT !.failures = 0]
  ELSE IF b.successes < Probes - 1 THEN [b EXCEPT !.failures = 0, !.successes = n]
  ELSE [b EXCEPT !.state = "CLOSED", !.failures = 0]

Success(b) ==
  LET n == b.successes + 1 IN
  IF b.state # "HALF_OPEN" THEN [b EXCEPT !.failures = 0]
  ELSE IF n < Probes THEN [b EXCEPT !.failures = 0, !.successes = n]
  ELSE [b EXCEPT !.state = "CLOSED", !.failures = 0, !.successes = 0]

Failure(b) ==
  IF b.state = "CLOSED" /\ b.failures + 1 < Threshold
  THEN [b EXCEPT !.failures = @ + 1]
  ELSE [b EXCEPT !.state = "OPEN", !.failures = 0, !.cooling = Recovery]

-----------------------------------------------------------------------------
(* Helpers *)

Model(c) == Candidates[pick[c]]
Posting == {c \in Callers : stage[c] \in {"post", "lightPost"}}
To(c, s) == stage' = [stage EXCEPT ![c] = s]
Finish(c) ==
  /\ To(c, "idle")
  /\ pick' = [pick EXCEPT ![c] = 1]
  /\ tries' = [tries EXCEPT ![c] = 0]
Pass(c) ==
  /\ To(c, "consider")
  /\ pick' = [pick EXCEPT ![c] = @ + 1]
  /\ tries' = [tries EXCEPT ![c] = 0]
RecordCall == spent' = Append(spent, 0)

-----------------------------------------------------------------------------
(* Both kinds of call *)

Begin(c) ==
  /\ stage[c] = "idle"
  /\ To(c, IF c \in Writers THEN "turn" ELSE "consider")
  /\ UNCHANGED <<pick, tries, breaker, proofs, spent, echo>>

(* No candidate is left: the call comes back empty. *)
RunOut(c) ==
  /\ stage[c] = "consider"
  /\ pick[c] > Len(Candidates)
  /\ Finish(c)
  /\ UNCHANGED <<breaker, proofs, spent, echo>>

(* The provider quota guard (ProviderQuota) allows the call or not. *)
AskGuard(c) ==
  /\ stage[c] = "guard"
  /\ \/ To(c, "wait") /\ UNCHANGED <<pick, tries>>
     \/ Pass(c)
  /\ UNCHANGED <<breaker, proofs, spent, echo>>

Post(c) ==
  /\ Cardinality(Posting) < Requests
  /\ \/ stage[c] = "wait" /\ To(c, "post")
     \/ stage[c] = "light" /\ To(c, "lightPost")
  /\ UNCHANGED <<pick, tries, breaker, proofs, spent, echo>>

(* The caller's own timeout: nothing is recorded. *)
CancelCall(c) ==
  /\ stage[c] # "idle"
  /\ Finish(c)
  /\ UNCHANGED <<breaker, proofs, spent, echo>>

-----------------------------------------------------------------------------
(* generate_reasoning_step *)

(* The breaker of the candidate is read; an open one is passed over. *)
Consider(c) ==
  LET b == Seen(breaker[Model(c)]) IN
  /\ c \in Reasoners
  /\ stage[c] = "consider"
  /\ pick[c] <= Len(Candidates)
  /\ breaker' = [breaker EXCEPT ![Model(c)] = b]
  /\ \/ b.state = "OPEN" /\ Pass(c)
     \/ b.state # "OPEN" /\ To(c, "guard") /\ UNCHANGED <<pick, tries>>
  /\ UNCHANGED <<proofs, spent, echo>>

Answered(c) ==
  /\ c \in Reasoners
  /\ stage[c] = "post"
  /\ breaker' = [breaker EXCEPT ![Model(c)] = Success(@)]
  /\ proofs' = [proofs EXCEPT ![Model(c)] =
                  IF breaker'[Model(c)].state = "CLOSED" THEN 0
                  ELSE IF breaker[Model(c)].state = "HALF_OPEN" THEN @ + 1 ELSE @]
  /\ Finish(c)
  /\ UNCHANGED <<spent, echo>>

(* A status or an error worth another try. *)
TryAgain(c) ==
  /\ c \in Reasoners
  /\ stage[c] = "post"
  /\ tries[c] < Tries - 1
  /\ tries' = [tries EXCEPT ![c] = @ + 1]
  /\ To(c, "wait")
  /\ UNCHANGED <<pick, breaker, proofs, spent, echo>>

CallFails(c) ==
  /\ c \in Reasoners
  /\ stage[c] = "post"
  /\ breaker' = [breaker EXCEPT ![Model(c)] = Failure(@)]
  /\ Pass(c)
  /\ UNCHANGED <<proofs, spent, echo>>

-----------------------------------------------------------------------------
(* generate_synthesis *)

(* Mutant of TakeTurn: the semaphore of the syntheses is missing. *)
TakeTurnTogether(c) ==
  /\ stage[c] = "turn"
  /\ To(c, "consider")
  /\ UNCHANGED <<pick, tries, breaker, proofs, spent, echo>>

(* _synthesis_semaphore: one at a time. *)
TakeTurn(c) ==
  /\ stage[c] = "turn"
  /\ \A d \in Writers : stage[d] \in {"idle", "turn"}
  /\ To(c, "consider")
  /\ UNCHANGED <<pick, tries, breaker, proofs, spent, echo>>

(* can_make_call: the lock is left before the call is made. *)
CheckShare(c) ==
  /\ c \in Writers
  /\ stage[c] = "consider"
  /\ pick[c] <= Len(Candidates)
  /\ \/ Used < Share /\ To(c, "guard") /\ UNCHANGED <<pick, tries>>
     \/ Used >= Share /\ Pass(c)
  /\ UNCHANGED <<breaker, proofs, spent, echo>>

(* record_call, in a section of its own, for a text ... *)
Written(c) ==
  /\ c \in Writers
  /\ stage[c] = "post"
  /\ RecordCall
  /\ Finish(c)
  /\ UNCHANGED <<breaker, proofs, echo>>

(* ... and for a refusal or an exception.  A 429 whose Retry-After is a    *)
(* date is both: it is recorded, then float() raises and the handler       *)
(* records the same call again;                                            *)
WriteFails(c) ==
  /\ c \in Writers
  /\ stage[c] = "post"
  /\ \/ RecordCall /\ UNCHANGED echo
     \/ spent' = spent \o <<0, 0>> /\ echo' = Span
  /\ Pass(c)
  /\ UNCHANGED <<breaker, proofs>>

(* a prompt that is too large (413) and a blank text are not recorded, and *)
(* the blank text is returned as it is.                                    *)
NotRecorded(c) ==
  /\ c \in Writers
  /\ stage[c] = "post"
  /\ \/ Pass(c)
     \/ Finish(c)
  /\ UNCHANGED <<breaker, proofs, spent, echo>>

(* No candidate wrote anything: a light Gemini model may get a last try,   *)
(* without a share, a record or a breaker; the provider quota guard may    *)
(* refuse that one too.                                                    *)
LightRetry(c) ==
  /\ c \in Writers
  /\ stage[c] = "consider"
  /\ pick[c] > Len(Candidates)
  /\ To(c, "light")
  /\ UNCHANGED <<pick, tries, breaker, proofs, spent, echo>>

LightEnds(c) ==
  /\ stage[c] \in {"light", "lightPost"}
  /\ Finish(c)
  /\ UNCHANGED <<breaker, proofs, spent, echo>>

-----------------------------------------------------------------------------
(* Time: the recorded calls grow older, and those of a minute ago leave. *)
Age ==
  \E gone \in 0 .. Used :
    /\ \A i \in 1 .. Used : i <= gone <=> spent[i] = Span - 1
    /\ spent' = [i \in 1 .. Used - gone |-> spent[i + gone] + 1]

(* The breakers cool down with them. *)
ModelTick ==
  /\ Used > 0 \/ \E m \in Models : breaker[m].cooling > 0
  /\ breaker' = [m \in Models |-> [breaker[m] EXCEPT !.cooling = IF @ > 0 THEN @ - 1 ELSE 0]]
  /\ Age
  /\ echo' = (IF echo > 0 THEN echo - 1 ELSE 0)
  /\ UNCHANGED <<stage, pick, tries, proofs>>

ModelStep(c) ==
  \/ RunOut(c) \/ AskGuard(c) \/ Consider(c) \/ Answered(c) \/ TryAgain(c) \/ CallFails(c)
  \/ CheckShare(c) \/ Written(c) \/ WriteFails(c) \/ NotRecorded(c)
  \/ LightRetry(c) \/ LightEnds(c)

ModelNext ==
  \/ \E c \in Callers : Begin(c) \/ ModelStep(c) \/ Post(c) \/ TakeTurn(c) \/ CancelCall(c)
  \/ ModelTick

ModelSpec == ModelInit /\ [][ModelNext]_modelVars

-----------------------------------------------------------------------------
(* A priority fills its share of the minute and no more, although check   *)
(* and record are two sections: the semaphore of the syntheses keeps other *)
(* calls out between them.  One record too many can stand in the window,   *)
(* and only as long as a call that was recorded twice stands there.        *)
ShareRespected == Used <= Share + (IF echo > 0 THEN 1 ELSE 0)

(* A breaker that was open closes again only after Probes successes seen   *)
(* while half-open, however many calls overlap its changes of state; some  *)
(* of them may be older than a failure in between (core/retry.py:304).     *)
ClosingIsEarned ==
  [][\A m \in Models :
       breaker[m].state = "HALF_OPEN" /\ breaker'[m].state = "CLOSED"
       => proofs[m] + 1 >= Probes]_modelVars
=============================================================================
