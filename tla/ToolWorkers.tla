---------------------------- MODULE ToolWorkers ----------------------------
(***************************************************************************)
(* Analysis tools run in processes of their own (core/ml_subprocess.py,    *)
(* core/ml_tool_worker.py). A call takes a slot of the process-wide        *)
(* semaphore, finds or makes the worker of its script, and under the       *)
(* worker's lock writes its request to the process and reads one line as   *)
(* the answer; after an error it runs the script afresh.                   *)
(***************************************************************************)
EXTENDS Naturals, Sequences, FiniteSets

CONSTANTS
  ToolCalls,   \* calls of run_ml_tool
  Scripts,
  ScriptOf,    \* the script of each call
  Slots,       \* _ML_MAX_CONCURRENCY
  MaxWorkers,  \* bound: worker objects made
  MaxCancels,  \* bound: calls cancelled by the caller (its own timeout, a stop)
  MaxBreaks,   \* bound: processes that die, hang or write a stray line
  NoToolCall

ASSUME ToolAssumption ==
  /\ ScriptOf \in [ToolCalls -> Scripts]
  /\ Slots \in Nat \ {0}
  /\ MaxWorkers \in Nat /\ MaxCancels \in Nat /\ MaxBreaks \in Nat
  /\ NoToolCall \notin ToolCalls
  /\ ToolCalls \cap {"none", "error", "timeout", "cancelled"} = {}

VARIABLES
  whereabouts,  \* where each call is
  uses,         \* the worker object it holds, 0 for none
  outcome,      \* what it returned
  pool,         \* the worker object of each script, 0 for none
  made,         \* number of worker objects made
  proc,         \* _proc of each: "none", "up", "hung" or "exited"
  holder,       \* who has its lock
  requests,     \* lines written to its process and not yet answered
  answers,      \* lines of the process not yet read
  cancels,
  tainted,      \* history: worker objects that were left with a request in the pipe
  breaks

toolVars == <<whereabouts, uses, outcome, pool, made, proc, holder, requests, answers,
              cancels, tainted, breaks>>

Workers == 1 .. MaxWorkers
Inside == {"pool", "lock", "start", "write", "read", "fallback"}
Noise == "noise"
ToolFailure == "failure"

ToolTypeOK ==
  /\ whereabouts \in [ToolCalls -> Inside \cup {"idle", "gate", "done"}]
  /\ uses \in [ToolCalls -> 0 .. MaxWorkers]
  /\ outcome \in [ToolCalls -> ToolCalls \cup {"none", "error", "timeout", "cancelled"}]
  /\ pool \in [Scripts -> 0 .. MaxWorkers]
  /\ made \in 0 .. MaxWorkers
  /\ proc \in [Workers -> {"none", "up", "hung", "exited"}]
  /\ holder \in [Workers -> ToolCalls \cup {NoToolCall}]
  /\ requests \in [Workers -> Seq(ToolCalls)]
  /\ answers \in [Workers -> Seq(ToolCalls \cup {Noise, ToolFailure})]
  /\ cancels \in 0 .. MaxCancels
  /\ tainted \subseteq Workers
  /\ breaks \in 0 .. MaxBreaks

ToolInit ==
  /\ whereabouts = [c \in ToolCalls |-> "idle"]
  /\ uses = [c \in ToolCalls |-> 0]
  /\ outcome = [c \in ToolCalls |-> "none"]
  /\ pool = [s \in Scripts |-> 0]
  /\ made = 0
  /\ proc = [w \in Workers |-> "none"]
  /\ holder = [w \in Workers |-> NoToolCall]
  /\ requests = [w \in Workers |-> <<>>]
  /\ answers = [w \in Workers |-> <<>>]
  /\ cancels = 0 /\ tainted = {} /\ breaks = 0

-----------------------------------------------------------------------------
(* Helpers *)

GoTo(c, place) == whereabouts' = [whereabouts EXCEPT ![c] = place]
Return(c, r) == GoTo(c, "done") /\ outcome' = [outcome EXCEPT ![c] = r]
Unlock(w) == holder' = [holder EXCEPT ![w] = NoToolCall]
Break == breaks < MaxBreaks /\ breaks' = breaks + 1

(* A process with empty pipes, or none. *)
Process(w, state) ==
  /\ proc' = [proc EXCEPT ![w] = state]
  /\ requests' = [requests EXCEPT ![w] = <<>>]
  /\ answers' = [answers EXCEPT ![w] = <<>>]
Kill(w) == Process(w, "none")

InUse == {c \in ToolCalls : whereabouts[c] \in Inside}

-----------------------------------------------------------------------------
(* run_ml_tool *)

Arrive(c) ==
  /\ whereabouts[c] = "idle"
  /\ GoTo(c, "gate")
  /\ UNCHANGED <<uses, outcome, pool, made, proc, holder, requests, answers, cancels,
                 tainted, breaks>>

TakeSlot(c) ==
  /\ whereabouts[c] = "gate"
  /\ Cardinality(InUse) < Slots
  /\ GoTo(c, "pool")
  /\ UNCHANGED <<uses, outcome, pool, made, proc, holder, requests, answers, cancels,
                 tainted, breaks>>

(* _get_or_create_worker: a worker whose _proc is None is replaced, be it  *)
(* new, just killed, or about to start its process.                        *)
FindWorker(c) ==
  LET s == ScriptOf[c] IN
  /\ whereabouts[c] = "pool"
  /\ GoTo(c, "lock")
  /\ IF pool[s] # 0 /\ proc[pool[s]] # "none"
     THEN /\ uses' = [uses EXCEPT ![c] = pool[s]]
          /\ UNCHANGED <<pool, made>>
     ELSE /\ made < MaxWorkers
          /\ made' = made + 1
          /\ pool' = [pool EXCEPT ![s] = made']
          /\ uses' = [uses EXCEPT ![c] = made']
  /\ UNCHANGED <<outcome, proc, holder, requests, answers, cancels, tainted, breaks>>

(* _MLWorker.call: the lock, and a process that has not exited. *)
LockWorker(c) ==
  LET w == uses[c] IN
  /\ whereabouts[c] = "lock"
  /\ holder[w] = NoToolCall
  /\ holder' = [holder EXCEPT ![w] = c]
  /\ GoTo(c, IF proc[w] \in {"up", "hung"} THEN "write" ELSE "start")
  /\ UNCHANGED <<uses, outcome, pool, made, proc, requests, answers, cancels, tainted,
                 breaks>>

StartProcess(c) ==
  /\ whereabouts[c] = "start"
  /\ Process(uses[c], "up")
  /\ GoTo(c, "write")
  /\ UNCHANGED <<uses, outcome, pool, made, holder, cancels, tainted, breaks>>

(* No process could be created: the exception leaves call. *)
StartFails(c) ==
  /\ whereabouts[c] = "start"
  /\ Break
  /\ Unlock(uses[c])
  /\ GoTo(c, "fallback")
  /\ UNCHANGED <<uses, outcome, pool, made, proc, requests, answers, cancels, tainted>>

Write(c) ==
  LET w == uses[c] IN
  /\ whereabouts[c] = "write"
  /\ GoTo(c, "read")
  /\ requests' = [requests EXCEPT ![w] = IF proc[w] = "exited" THEN @ ELSE Append(@, c)]
  /\ UNCHANGED <<uses, outcome, pool, made, proc, holder, answers, cancels, tainted,
                 breaks>>

(* A line of JSON: the answer, or an error, after which the script is run  *)
(* afresh.                                                                 *)
Read(c) ==
  LET w == uses[c] IN
  /\ whereabouts[c] = "read"
  /\ answers[w] # <<>>
  /\ Head(answers[w]) # Noise
  /\ answers' = [answers EXCEPT ![w] = Tail(@)]
  /\ Unlock(w)
  /\ IF Head(answers[w]) = ToolFailure THEN GoTo(c, "fallback") /\ UNCHANGED outcome
     ELSE Return(c, Head(answers[w]))
  /\ UNCHANGED <<uses, pool, made, proc, requests, cancels, tainted, breaks>>

(* Not JSON, or the end of the output. *)
ReadFails(c) ==
  LET w == uses[c] IN
  /\ whereabouts[c] = "read"
  /\ \/ answers[w] # <<>> /\ Head(answers[w]) = Noise
     \/ answers[w] = <<>> /\ proc[w] = "exited"
  /\ Kill(w)
  /\ Unlock(w)
  /\ GoTo(c, "fallback")
  /\ UNCHANGED <<uses, outcome, pool, made, cancels, tainted, breaks>>

(* Mutant of TimeOut: the process is kept. *)
TimeOutKeeping(c) ==
  /\ whereabouts[c] = "read"
  /\ proc[uses[c]] # "exited"
  /\ Unlock(uses[c])
  /\ Return(c, "timeout")
  /\ UNCHANGED <<uses, pool, made, proc, requests, answers, cancels, tainted, breaks>>

(* The timeout of the call: no second process is tried. *)
TimeOut(c) ==
  /\ whereabouts[c] = "read"
  /\ proc[uses[c]] # "exited"
  /\ Kill(uses[c])
  /\ Unlock(uses[c])
  /\ Return(c, "timeout")
  /\ UNCHANGED <<uses, pool, made, cancels, tainted, breaks>>

(* The fresh process: its result, an error, or its timeout, which kills it. *)
RunAfresh(c) ==
  /\ whereabouts[c] = "fallback"
  /\ \E r \in {c, "error", "timeout"} : Return(c, r)
  /\ UNCHANGED <<uses, pool, made, proc, holder, requests, answers, cancels, tainted,
                 breaks>>

(* Cancellation is no Exception: locks and slot are given back, but no     *)
(* handler kills a process.                                                *)
CancelTool(c) ==
  LET w == uses[c] IN
  /\ whereabouts[c] \in Inside \cup {"gate"}
  /\ cancels < MaxCancels
  /\ cancels' = cancels + 1
  /\ Return(c, "cancelled")
  /\ holder' = [v \in Workers |-> IF holder[v] = c THEN NoToolCall ELSE holder[v]]
  /\ tainted' = IF whereabouts[c] = "read" THEN tainted \cup {w} ELSE tainted
  /\ UNCHANGED <<uses, pool, made, proc, requests, answers, breaks>>

-----------------------------------------------------------------------------
(* The processes: run_worker_mode *)

Infer(w) ==
  /\ proc[w] = "up"
  /\ requests[w] # <<>>
  /\ requests' = [requests EXCEPT ![w] = Tail(@)]
  /\ \E a \in {Head(requests[w]), ToolFailure} :
       answers' = [answers EXCEPT ![w] = Append(@, a)]
  /\ UNCHANGED <<whereabouts, uses, outcome, pool, made, proc, holder, cancels, tainted, breaks>>

(* A process dies (out of memory), hangs, or a library prints to stdout.   *)
Misbehave(w) ==
  /\ proc[w] = "up"
  /\ Break
  /\ \/ /\ proc' = [proc EXCEPT ![w] = "exited"]
        /\ requests' = [requests EXCEPT ![w] = <<>>]
        /\ UNCHANGED answers
     \/ /\ proc' = [proc EXCEPT ![w] = "hung"]
        /\ UNCHANGED <<requests, answers>>
     \/ /\ answers' = [answers EXCEPT ![w] = Append(@, Noise)]
        /\ UNCHANGED <<proc, requests>>
  /\ UNCHANGED <<whereabouts, uses, outcome, pool, made, holder, cancels, tainted>>

ToolStep(c) ==
  \/ TakeSlot(c) \/ FindWorker(c) \/ LockWorker(c) \/ StartProcess(c) \/ Write(c)
  \/ Read(c) \/ ReadFails(c) \/ TimeOut(c) \/ RunAfresh(c)

ToolNext ==
  \/ \E c \in ToolCalls : Arrive(c) \/ ToolStep(c) \/ StartFails(c) \/ CancelTool(c)
  \/ \E w \in Workers : Infer(w) \/ Misbehave(w)

ToolSpec == ToolInit /\ [][ToolNext]_toolVars

-----------------------------------------------------------------------------
(* A call is answered with its own result, whatever times out, crashes or  *)
(* prints, as long as no call was cancelled while the process worked for   *)
(* it: a killed process takes its unread lines with it.                    *)
AnswerIsOwn ==
  \A c \in ToolCalls : outcome[c] \in ToolCalls /\ uses[c] \notin tainted => outcome[c] = c

=============================================================================
