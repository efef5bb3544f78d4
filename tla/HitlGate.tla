------------------------------ MODULE HitlGate ------------------------------
(***************************************************************************)
(* The two gates at which one running pipeline waits for the analyst       *)
(* (_await_deep_analysis_decision and _await_deep_report_request in        *)
(* orchestration/pipeline_phases.py) and the requests that open them       *)
(* (resume_investigation in api/routes/sessions.py).                       *)
(*                                                                         *)
(* A decision travels twice: through a Redis key per gate, which the       *)
(* pipeline polls, and as a message without a gate on the channel          *)
(* forensic:notify_decision, which sets an event in the worker.  Without a *)
(* worker the request finds the pipeline in its own process and sets the   *)
(* event itself.  Gate 1 asks whether to run the deep pass, gate 2 when to *)
(* synthesise the report.                                                  *)
(*                                                                         *)
(* Any write to Redis may fail.  Beside the gates the session may be       *)
(* terminated (terminate_session), the API process may start anew and take *)
(* the session for an orphan (api/lifespan.py), and the run may be cut.    *)
(***************************************************************************)
EXTENDS Naturals, Sequences

CONSTANT Requests   \* resume requests

VARIABLES
  mode,      \* "worker" or "inprocess": where the pipeline runs
  sessionStatus,    \* status in the session metadata
  key,       \* the decision key of each gate
  channel,   \* published decisions the worker has not seen yet
  flag,      \* pipeline.run_deep_analysis_flag
  event,     \* pipeline.deep_analysis_decision_event
  awaiting,  \* pipeline._awaiting_user_decision
  pl,        \* where the pipeline is: a step of the gate it is at
  at,        \* the gate it is at, or has passed last
  deep,      \* what gate 1 returned
  via,       \* how each gate was left
  req, wish, gate, won, \* of each request: progress, deep_analysis, gate of the
                        \* key it chose, whether its SET NX succeeded
  late,      \* history: GateOneLingers held when gate 2 opened
  unmarked,  \* history: the pause of its gate did not get into the metadata
  orphan,    \* the recovery of a starting API process has read a record of
             \* an orphan and is to write it back
  ending     \* terminate_session: not called, has begun, has deleted the keys

pipeline == <<flag, event, awaiting, pl, at, deep, via, late>>
requests == <<req, wish, gate, won>>
outside == <<orphan, ending>>
gateVars == <<mode, sessionStatus, key, channel, pipeline, unmarked, requests, outside>>

(* The Boolean deep_analysis of a decision, run_deep_analysis_flag too. *)
Choice == {"deep", "baseline"}

Gates == {1, 2}
Paused(g) == IF g = 1 THEN "awaiting_decision" ELSE "awaiting_deep_report"
Marks == {"paused_resume_requested", "deep_analysis_requested", "deliberating"}

(* How a request ends; "unheeded" is the answer that it is refused, or     *)
(* that a decision is already there or in progress.                        *)
Answers == {"resumed", "unheeded", "failed"}

Winner(g) == \E r \in Requests : won[r] /\ gate[r] = g

GateTypeOK ==
  /\ mode \in {"worker", "inprocess"}
  /\ sessionStatus \in {"none", "running", "interrupted"} \cup {Paused(g) : g \in Gates} \cup Marks
  /\ key \in [Gates -> Choice \cup {"none"}]
  /\ channel \in Seq(Choice)
  /\ flag \in Choice /\ event \in BOOLEAN /\ awaiting \in BOOLEAN
  /\ pl \in {"agents", "marking", "taking", "waiting", "leaving", "synthesis", "done"}
  /\ at \in 0 .. 2
  /\ deep \in Choice
  /\ via \in [Gates -> {"none", "analyst", "timeout"}]
  /\ req \in [Requests -> {"new", "writing", "publishing", "signalling", "marking", "noting"} \cup Answers]
  /\ wish \in [Requests -> Choice] /\ won \in [Requests -> BOOLEAN]
  /\ gate \in [Requests -> 0 .. 2]
  /\ late \in BOOLEAN
  /\ unmarked \in BOOLEAN
  /\ orphan \in BOOLEAN
  /\ ending \in {"no", "begun", "deleted"}
  /\ awaiting <=> pl \in {"marking", "taking", "waiting", "leaving"}

GateInit ==
  /\ mode \in {"worker", "inprocess"}
  /\ sessionStatus = "running"
  /\ key = [g \in Gates |-> "none"]
  /\ channel = <<>>
  /\ flag = "baseline" /\ event = FALSE /\ awaiting = FALSE
  /\ pl = "agents" /\ at = 0 /\ deep = "baseline"
  /\ via = [g \in Gates |-> "none"]
  /\ req = [r \in Requests |-> "new"]
  /\ wish = [r \in Requests |-> "baseline"]
  /\ gate = [r \in Requests |-> 0]
  /\ won = [r \in Requests |-> FALSE]
  /\ late = FALSE /\ unmarked = FALSE
  /\ orphan = FALSE /\ ending = "no"

-----------------------------------------------------------------------------
(* The pipeline *)

Moves(from, to) == pl = from /\ pl' = to

(* A DELETE whose failure is passed over. *)
DropKey(g) == key' \in {key, [key EXCEPT ![g] = "none"]}

(* Something of gate 1 may still reach the pipeline: a message, a request, *)
(* or one that the status, not updated since, invites.                     *)
GateOneLingers ==
  \/ channel # <<>>
  \/ \E r \in Requests : gate[r] = 1 /\ req[r] \notin Answers
  \/ sessionStatus = Paused(1)

(* Entering gate g: the key of the other gate is deleted, the pause is     *)
(* declared, and event and flag are reset.                                 *)
OpenGate(g) ==
  /\ Moves("agents", "marking")
  /\ g = at + 1 /\ at' = g
  /\ DropKey(3 - g)
  /\ awaiting' = TRUE /\ event' = FALSE /\ flag' = "baseline"
  /\ late' = (g = 2 /\ GateOneLingers) /\ unmarked' = FALSE
  /\ UNCHANGED <<mode, sessionStatus, channel, deep, via, requests, outside>>

(* Mutant of MarkPaused: it respects a mark that is already there. *)
MarkPausedIfRunning ==
  /\ Moves("marking", "taking")
  /\ sessionStatus' = (IF sessionStatus \in Marks THEN sessionStatus ELSE Paused(at))
  /\ UNCHANGED <<mode, key, channel, flag, event, awaiting, at, deep, via, late, unmarked, requests, outside>>

(* The pause is written, or the update gives up quietly; the gate waits    *)
(* either way.                                                             *)
MarkPaused ==
  /\ Moves("marking", "taking")
  /\ \/ sessionStatus' = Paused(at) /\ UNCHANGED unmarked
     \/ unmarked' = TRUE /\ UNCHANGED sessionStatus
  /\ UNCHANGED <<mode, key, channel, flag, event, awaiting, at, deep, via, late, requests, outside>>

(* What follows gate 1 is the deep pass or the synthesis. *)
Beyond(answer) == IF at = 1 /\ answer = "deep" THEN "agents" ELSE "synthesis"

(* GETDEL of a decision that came while the gate was opening. *)
TakeEarly ==
  /\ pl = "taking" /\ key[at] # "none"
  /\ key' = [key EXCEPT ![at] = "none"]
  /\ pl' = Beyond(key[at])
  /\ awaiting' = FALSE
  /\ via' = [via EXCEPT ![at] = "analyst"]
  /\ IF at = 1 THEN flag' = key[at] /\ deep' = key[at] ELSE UNCHANGED <<flag, deep>>
  /\ UNCHANGED <<mode, sessionStatus, channel, event, at, late, unmarked, requests, outside>>

(* The GETDEL finds nothing, or raises, with the key gone or not.          *)
TakeNothing ==
  /\ Moves("taking", "waiting")
  /\ DropKey(at)
  /\ UNCHANGED <<mode, sessionStatus, channel, flag, event, awaiting, at, deep, via, late, unmarked,
                 requests, outside>>

(* The wait ends with the given answer; the finally block is still to run. *)
LeaveGate(how, answer) ==
  /\ Moves("waiting", "leaving")
  /\ via' = [via EXCEPT ![at] = how]
  /\ deep' = (IF at = 1 THEN answer ELSE deep)
  /\ UNCHANGED <<mode, sessionStatus, key, channel, event, awaiting, at, late, unmarked, requests, outside>>

SeeEvent == event /\ LeaveGate("analyst", flag) /\ UNCHANGED flag

PollKey ==
  /\ pl = "waiting" /\ key[at] # "none"
  /\ LeaveGate("analyst", key[at])
  /\ flag' = (IF at = 1 THEN key[at] ELSE flag)

(* Mutant of GateTimesOut: the gate is patient. *)
GateTimesOutIfMarked == sessionStatus \in Marks /\ LeaveGate("timeout", "baseline") /\ UNCHANGED flag

(* The time is checked before the event and the key are looked at again:   *)
(* either may have come just now.                                          *)
GateTimesOut == LeaveGate("timeout", "baseline") /\ UNCHANGED flag

CleanGate ==
  /\ pl = "leaving"
  /\ pl' = Beyond(deep)
  /\ awaiting' = FALSE
  /\ DropKey(at)
  /\ UNCHANGED <<mode, sessionStatus, channel, flag, event, at, deep, via, late, unmarked, requests,
                 outside>>

(* The arbiter's first step; a write that fails is skipped. *)
Synthesise ==
  /\ Moves("synthesis", "done")
  /\ sessionStatus' \in {sessionStatus, "deliberating"}
  /\ UNCHANGED <<mode, key, channel, flag, event, awaiting, at, deep, via, late, unmarked, requests,
                 outside>>

(* The run ends where it is: its time is up, a call of it raises, or it is *)
(* cancelled.  A gate that waits still cleans up.                          *)
CutShort ==
  /\ pl # "done" /\ pl' = "done"
  /\ awaiting' = FALSE
  /\ IF pl \in {"waiting", "leaving"} THEN DropKey(at) ELSE UNCHANGED key
  /\ UNCHANGED <<mode, sessionStatus, channel, flag, event, at, deep, via, late, unmarked, requests>>

RunCutShort == CutShort /\ UNCHANGED outside

-----------------------------------------------------------------------------
(* A resume request *)

Reply(r, from, to) == req[r] = from /\ req' = [req EXCEPT ![r] = to]

(* The status decides which key is written, and whether any is. *)
ReadStatus(r) ==
  /\ \/ \E g \in Gates, w \in Choice :
          /\ sessionStatus = Paused(g)
          /\ Reply(r, "new", "writing")
          /\ gate' = [gate EXCEPT ![r] = g]
          /\ wish' = [wish EXCEPT ![r] = w]
     \/ /\ \/ sessionStatus \notin {Paused(g) : g \in Gates}
           \/ ending = "deleted"   \* a record made since names no owner
        /\ Reply(r, "new", "unheeded")
        /\ UNCHANGED <<gate, wish>>
  /\ UNCHANGED <<mode, sessionStatus, key, channel, pipeline, won, unmarked, outside>>

(* SET NX *)
WriteKey(r) ==
  /\ req[r] = "writing"
  /\ IF key[gate[r]] = "none"
       THEN /\ Reply(r, "writing", "publishing")
            /\ key' = [key EXCEPT ![gate[r]] = wish[r]]
            /\ won' = [won EXCEPT ![r] = TRUE]
       ELSE Reply(r, "writing", "unheeded") /\ UNCHANGED <<key, won>>
  /\ UNCHANGED <<mode, sessionStatus, channel, pipeline, wish, gate, unmarked, outside>>

(* Only a worker subscribes to the channel. *)
Notify(r) ==
  /\ \/ /\ mode = "worker"
        /\ Reply(r, "publishing", "noting")
        /\ channel' = Append(channel, wish[r])
     \/ /\ mode = "inprocess"
        /\ Reply(r, "publishing", "signalling")
        /\ UNCHANGED channel
  /\ UNCHANGED <<mode, sessionStatus, key, pipeline, wish, gate, won, unmarked, outside>>

(* The pipeline is in this process, or no more: a termination, or the end  *)
(* of its run, has removed it.                                             *)
Signal(r) ==
  /\ \/ /\ ending # "no" \/ pl = "done"
        /\ Reply(r, "signalling", "noting") /\ UNCHANGED <<flag, event>>
     \/ /\ ending = "no" /\ (event \/ ~awaiting)
        /\ Reply(r, "signalling", "unheeded") /\ UNCHANGED <<flag, event>>
     \/ /\ ending = "no" /\ ~event /\ awaiting
        /\ Reply(r, "signalling", "marking")
        /\ flag' = wish[r] /\ event' = TRUE
  /\ UNCHANGED <<mode, sessionStatus, key, channel, awaiting, pl, at, deep, via, late, wish, gate, won,
                 unmarked, outside>>

Requested(r) ==
  IF req[r] = "noting" THEN "paused_resume_requested"
  ELSE IF wish[r] = "deep" THEN "deep_analysis_requested" ELSE "deliberating"

(* The answer does not depend on whether the update was stored. *)
MarkResumed(r) ==
  /\ Reply(r, "marking", "resumed") \/ Reply(r, "noting", "resumed")
  /\ sessionStatus' \in {sessionStatus, Requested(r)}
  /\ UNCHANGED <<mode, key, channel, pipeline, wish, gate, won, unmarked, outside>>

(* A request ends with an error: a command raised, applied or not, or the  *)
(* process ended under it.                                                 *)
CutOff(r) ==
  /\ req[r] \notin Answers
  /\ req' = [req EXCEPT ![r] = "failed"]
  /\ UNCHANGED <<mode, sessionStatus, key, channel, pipeline, wish, gate, won, unmarked, outside>>

(* Mutant of Deliver: the payload is not looked at. *)
DeliverDeep ==
  /\ channel # <<>>
  /\ channel' = Tail(channel)
  /\ flag' = "deep" /\ event' = TRUE
  /\ UNCHANGED <<mode, sessionStatus, key, awaiting, pl, at, deep, via, late, unmarked, requests, outside>>

(* notify_decision_consumer: whatever gate the message was meant for.      *)
DeliverNotice ==
  /\ channel # <<>>
  /\ channel' = Tail(channel)
  /\ flag' = Head(channel) /\ event' = TRUE
  /\ UNCHANGED <<mode, sessionStatus, key, awaiting, pl, at, deep, via, late, unmarked, requests, outside>>

(* The consumer is reconnecting, or the pipeline is no longer registered.  *)
LoseMessage ==
  /\ channel # <<>>
  /\ channel' = Tail(channel)
  /\ UNCHANGED <<mode, sessionStatus, key, pipeline, unmarked, requests, outside>>

-----------------------------------------------------------------------------
(* Beside the gates *)

(* Statuses that a starting API process takes for those of an orphan. *)
Orphaned == {"running", "deliberating"} \cup {Paused(g) : g \in Gates}

(* The recovery reads the record ... A run in that process is gone by then. *)
FindOrphan ==
  /\ mode = "worker" \/ pl = "done"
  /\ sessionStatus \in Orphaned
  /\ orphan' = TRUE
  /\ UNCHANGED <<mode, sessionStatus, key, channel, pipeline, unmarked, requests, ending>>

(* ... and writes it back as interrupted, whatever it is by then.          *)
Interrupt ==
  /\ orphan /\ orphan' = FALSE
  /\ sessionStatus' = "interrupted"
  /\ UNCHANGED <<mode, key, channel, pipeline, unmarked, requests, ending>>

(* terminate_session cancels and removes a run in its own process; nobody  *)
(* tells a worker ...                                                      *)
BeginTermination ==
  /\ ending = "no" /\ ending' = "begun"
  /\ IF mode = "inprocess" /\ pl # "done"
       THEN CutShort
       ELSE UNCHANGED <<mode, sessionStatus, key, channel, pipeline, unmarked, requests>>
  /\ UNCHANGED orphan

(* ... and deletes metadata and decisions.                                 *)
DeleteSession ==
  /\ ending = "begun" /\ ending' = "deleted"
  /\ sessionStatus' = "none"
  /\ key' = [g \in Gates |-> "none"]
  /\ UNCHANGED <<mode, channel, pipeline, unmarked, requests, orphan>>

OutsideStep == FindOrphan \/ Interrupt \/ BeginTermination \/ DeleteSession \/ RunCutShort

-----------------------------------------------------------------------------
GateStep ==
  \/ \E g \in Gates : OpenGate(g)
  \/ MarkPaused \/ TakeEarly \/ TakeNothing \/ SeeEvent \/ PollKey \/ GateTimesOut
  \/ CleanGate \/ Synthesise

RequestStep(r) ==
  ReadStatus(r) \/ WriteKey(r) \/ Notify(r) \/ Signal(r) \/ MarkResumed(r) \/ CutOff(r)

GateNext ==
  \/ GateStep \/ OutsideStep \/ DeliverNotice \/ LoseMessage
  \/ \E r \in Requests : RequestStep(r)

GateSpec == GateInit /\ [][GateNext]_gateVars

(* Time passes at a gate and the agents come to an end. *)
GateFairSpec == GateSpec /\ WF_gateVars(GateStep)

-----------------------------------------------------------------------------
(* Properties *)

(* Gate 1 was left by a decision only if an analyst made that very         *)
(* decision there: the deep pass never runs unasked, and a pass that was   *)
(* skipped without the timeout flag was skipped by somebody.               *)
GateOneExplained ==
  via[1] = "analyst" =>
    \E r \in Requests : won[r] /\ gate[r] = 1 /\ wish[r] = deep

(* "final synthesis proceeded automatically (not analyst-confirmed)" is    *)
(* disclosed: gate 2 is left without the timeout mark only if an analyst   *)
(* asked for the report there, unless gate 1 was not over yet when gate 2  *)
(* opened.                                                                 *)
GateTwoConfirmed == via[2] = "analyst" /\ ~late => Winner(2)

(* No gate is left by a decision that nobody made there. *)
GatesExplained == GateOneExplained /\ GateTwoConfirmed

(* While the pipeline waits at a gate nobody has decided, the metadata     *)
(* says so, and no resume request is told "already in progress".  Four     *)
(* things may stand between: gate 1 was not over when gate 2 opened, the   *)
(* pause was never written, an API process that started meanwhile marked   *)
(* the session as interrupted, or a termination deleted the record.  The   *)
(* gate waits all the same, and every request is then refused.             *)
WaitingIsVisible ==
  pl = "waiting" /\ ~Winner(at) /\ ~late /\ ~unmarked =>
    \/ sessionStatus = Paused(at)
    \/ sessionStatus = "interrupted"
    \/ sessionStatus = "none" /\ ending = "deleted"

(* Whatever messages get lost, the pipeline comes through its gates. *)
GatesAreLeft == pl = "marking" ~> pl = "done"

=============================================================================
