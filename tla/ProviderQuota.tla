---------------------------- MODULE ProviderQuota ---------------------------
(***************************************************************************)
(* The quota guard of the LLM providers (core/provider_quota_guard.py):    *)
(* ProviderQuotaGuard.check_and_record decides, for one provider and       *)
(* model, whether a call may be made.  Every process (the API, the worker) *)
(* keeps the calls it allowed in memory and checks a sliding window, under *)
(* a lock; the processes share fixed-window counters in Redis, raised one  *)
(* by one and lowered again when the call turns out to be over a limit.    *)
(*                                                                         *)
(* Time is counted in ticks.  A counter of a past period is never used     *)
(* again, so its expiry is left out, as is the clean-up of timestamps      *)
(* older than a day.  A provider without a limit of tokens is one whose    *)
(* calls cost nothing.                                                     *)
(***************************************************************************)
EXTENDS Integers, Sequences, FiniteSets, FiniteSetsExt

CONSTANTS
  Processes,     \* the API process, the worker process
  Calls,         \* calls of check_and_record
  Home,          \* the process of a call
  Cost,          \* its estimated tokens
  Critical,      \* the calls with priority "critical"
  NoCall,
  Minute, Day,   \* 60 seconds and 24 hours, in ticks
  RpmLimit, TpmLimit, RpdLimit,
  MaxTime, MaxDisruptions  \* bounds of the clock, of the failures

Time == 0 .. MaxTime
Counter == {"rpm", "tpm", "rpd"}

ASSUME QuotaAssumption ==
  /\ Home \in [Calls -> Processes] /\ Cost \in [Calls -> Nat]
  /\ IsFiniteSet(Calls) /\ Critical \subseteq Calls /\ NoCall \notin Calls
  /\ Minute \in Nat \ {0} /\ Day \in Nat \ {0}
  /\ RpmLimit \in Nat /\ TpmLimit \in Nat /\ RpdLimit \in Nat
  /\ MaxTime \in Nat /\ MaxDisruptions \in Nat

VARIABLES
  clock,
  pc,         \* where each call is
  at,         \* "now" of each call: when it got the lock
  todo,       \* the counters a refused call has still to lower
  lock,       \* _TRACKING_LOCK of each process
  memory,     \* _CALL_TIMESTAMPS and _TOKEN_TIMESTAMPS of each process
  counter,    \* the keys pqg:<provider>:<model>:<counter>:<period> in Redis
  disruptions \* failed Redis calls, cancelled calls, restarts

vars == <<clock, pc, at, todo, lock, memory, counter, disruptions>>

(* A call is about to raise a counter, or takes back what it raised.  It   *)
(* ends allowed and counted, allowed by its own process alone, refused, or *)
(* cut off.                                                                *)
Holding == Counter \cup {"undo"}
Ended == {"granted", "local", "refused", "cancelled"}

TypeOK ==
  /\ clock \in Time
  /\ pc \in [Calls -> {"new", "waiting"} \cup Holding \cup Ended]
  /\ at \in [Calls -> 0 .. clock]
  /\ todo \in [Calls -> Seq(Counter)]
  /\ lock \in [Processes -> Calls \cup {NoCall}]
  /\ memory \in [Processes -> SUBSET Calls]
  /\ counter \in [Counter -> [Time -> Int]]
  /\ disruptions \in 0 .. MaxDisruptions
  /\ \A c \in Calls : pc[c] \in Holding <=> lock[Home[c]] = c
  /\ \A p \in Processes : lock[p] # NoCall => Home[lock[p]] = p
  /\ \A c \in Calls : pc[c] = "undo" <=> todo[c] # << >>

Init ==
  /\ clock = 0
  /\ pc = [c \in Calls |-> "new"] /\ at = [c \in Calls |-> 0]
  /\ todo = [c \in Calls |-> << >>]
  /\ lock = [p \in Processes |-> NoCall]
  /\ memory = [p \in Processes |-> {}]
  /\ counter = [k \in Counter |-> [t \in Time |-> 0]]
  /\ disruptions = 0

-----------------------------------------------------------------------------
Tick ==
  /\ clock < MaxTime
  /\ clock' = clock + 1
  /\ UNCHANGED <<pc, at, todo, lock, memory, counter, disruptions>>

Tokens(S) == MapThenSumSet(LAMBDA c : Cost[c], S)

(* The calls of the window of w ticks that ends at time t. *)
Window(p, w, t) == {c \in memory[p] : t - w < at[c] /\ at[c] <= t}

Ask(c) ==
  /\ pc[c] = "new" /\ pc' = [pc EXCEPT ![c] = "waiting"]
  /\ UNCHANGED <<clock, at, todo, lock, memory, counter, disruptions>>

(* The checks of the process's own window, all in one step of its event    *)
(* loop.  A critical call is not held to the limit of tokens.              *)
MemoryAllows(c) ==
  LET p == Home[c] IN
  /\ Cardinality(Window(p, Minute, clock)) < RpmLimit
  /\ \/ c \in Critical \/ Cost[c] = 0
     \/ Tokens(Window(p, Minute, clock)) + Cost[c] <= TpmLimit
  /\ Cardinality(Window(p, Day, clock)) < RpdLimit

Enter(c) ==
  /\ pc[c] = "waiting" /\ lock[Home[c]] = NoCall /\ MemoryAllows(c)
  /\ pc' = [pc EXCEPT ![c] = "rpm"] /\ at' = [at EXCEPT ![c] = clock]
  /\ lock' = [lock EXCEPT ![Home[c]] = c]
  /\ UNCHANGED <<clock, todo, memory, counter, disruptions>>

RefuseAtOnce(c) ==
  /\ pc[c] = "waiting" /\ lock[Home[c]] = NoCall /\ ~MemoryAllows(c)
  /\ pc' = [pc EXCEPT ![c] = "refused"] /\ at' = [at EXCEPT ![c] = clock]
  /\ UNCHANGED <<clock, todo, lock, memory, counter, disruptions>>

-----------------------------------------------------------------------------
(* _redis_check_and_record: one await per counter. *)
Period(k, t) == t \div (IF k = "rpd" THEN Day ELSE Minute)

Amount(k, c) == IF k = "tpm" THEN Cost[c] ELSE 1

Limit(k) == CASE k = "rpm" -> RpmLimit [] k = "tpm" -> TpmLimit [] OTHER -> RpdLimit

Raised(k, c) == [counter EXCEPT ![k][Period(k, at[c])] = @ + Amount(k, c)]
Lowered(k, c) == [counter EXCEPT ![k][Period(k, at[c])] = @ - Amount(k, c)]

(* Mutant of Fits: the check forgets that INCR has counted the call. *)
FitsOneMore(k, c) ==
  \/ counter[k][Period(k, at[c])] <= Limit(k)
  \/ k = "tpm" /\ c \in Critical

Fits(k, c) ==
  \/ counter[k][Period(k, at[c])] + Amount(k, c) <= Limit(k)
  \/ k = "tpm" /\ c \in Critical

(* Mutant of Undo: only the counter that exceeds its limit is lowered. *)
UndoOwn(k, c) == <<k>>

(* What a call over the limit of counter k has to lower, in this order. *)
Undo(k, c) ==
  CASE k = "rpm" -> <<"rpm">>
    [] k = "tpm" -> <<"tpm", "rpm">>
    [] OTHER -> IF Cost[c] = 0 THEN <<"rpd", "rpm">> ELSE <<"rpd", "rpm", "tpm">>

Leave(c, end) ==
  /\ pc' = [pc EXCEPT ![c] = end]
  /\ lock' = [lock EXCEPT ![Home[c]] = NoCall]
  /\ todo' = [todo EXCEPT ![c] = << >>]

Record(c) == memory' = [memory EXCEPT ![Home[c]] = @ \cup {c}]

Count(c) == \E k \in {"rpm", "tpm"} :
  /\ pc[c] = k /\ Fits(k, c) /\ counter' = Raised(k, c)
  /\ pc' = [pc EXCEPT ![c] = IF k = "rpm" /\ Cost[c] # 0 THEN "tpm" ELSE "rpd"]
  /\ UNCHANGED <<clock, at, todo, lock, memory, disruptions>>

Grant(c) ==
  /\ pc[c] = "rpd" /\ Fits("rpd", c) /\ counter' = Raised("rpd", c)
  /\ Leave(c, "granted") /\ Record(c)
  /\ UNCHANGED <<clock, at, disruptions>>

Exceed(c) == \E k \in Counter :
  /\ pc[c] = k /\ ~Fits(k, c) /\ counter' = Raised(k, c)
  /\ pc' = [pc EXCEPT ![c] = "undo"] /\ todo' = [todo EXCEPT ![c] = Undo(k, c)]
  /\ UNCHANGED <<clock, at, lock, memory, disruptions>>

TakeBack(c) ==
  /\ pc[c] = "undo" /\ Len(todo[c]) > 1
  /\ counter' = Lowered(Head(todo[c]), c)
  /\ todo' = [todo EXCEPT ![c] = Tail(@)]
  /\ UNCHANGED <<clock, pc, at, lock, memory, disruptions>>

(* Mutant of Refuse: the lock is released only by the calls allowed. *)
RefuseLocked(c) ==
  /\ pc[c] = "undo" /\ Len(todo[c]) = 1
  /\ counter' = Lowered(Head(todo[c]), c)
  /\ pc' = [pc EXCEPT ![c] = "refused"] /\ todo' = [todo EXCEPT ![c] = << >>]
  /\ UNCHANGED <<clock, at, lock, memory, disruptions>>

Refuse(c) ==
  /\ pc[c] = "undo" /\ Len(todo[c]) = 1
  /\ counter' = Lowered(Head(todo[c]), c)
  /\ Leave(c, "refused")
  /\ UNCHANGED <<clock, at, memory, disruptions>>

-----------------------------------------------------------------------------
(* Failures.  The command under way when a call is disturbed may have      *)
(* taken effect or not.                                                    *)
Disturb == disruptions < MaxDisruptions /\ disruptions' = disruptions + 1

AfterCommand(c) ==
  IF pc[c] = "undo" THEN Lowered(Head(todo[c]), c) ELSE Raised(pc[c], c)

(* Redis is lost, be it while a refusal is taken back: the call is allowed *)
(* on the strength of its process's own window.                            *)
RedisFails(c) ==
  /\ pc[c] \in Holding /\ Disturb
  /\ counter' \in {counter, AfterCommand(c)}
  /\ Leave(c, "local") /\ Record(c)
  /\ UNCHANGED <<clock, at>>

(* CancelledError passes "except Exception": nothing is recorded and       *)
(* nothing taken back.                                                     *)
Cancel(c) ==
  /\ pc[c] \in Holding /\ Disturb
  /\ counter' \in {counter, AfterCommand(c)}
  /\ Leave(c, "cancelled")
  /\ UNCHANGED <<clock, at, memory>>

CancelWaiting(c) ==
  /\ pc[c] = "waiting" /\ Disturb
  /\ pc' = [pc EXCEPT ![c] = "cancelled"]
  /\ UNCHANGED <<clock, at, todo, lock, memory, counter>>

(* A process starts again: its memory is empty, Redis still counts. *)
Restart(p) ==
  /\ Disturb
  /\ memory' = [memory EXCEPT ![p] = {}]
  /\ lock' = [lock EXCEPT ![p] = NoCall]
  /\ \/ counter' = counter
     \/ lock[p] # NoCall /\ counter' = AfterCommand(lock[p])
  /\ pc' = [c \in Calls |->
       IF Home[c] = p /\ pc[c] \in Holding \cup {"waiting"} THEN "cancelled" ELSE pc[c]]
  /\ todo' = [c \in Calls |-> IF Home[c] = p THEN << >> ELSE todo[c]]
  /\ UNCHANGED <<clock, at>>

-----------------------------------------------------------------------------
Advance(c) ==
  Enter(c) \/ RefuseAtOnce(c) \/ Count(c) \/ Grant(c) \/ Exceed(c) \/ TakeBack(c) \/ Refuse(c)

Next ==
  \/ Tick
  \/ \E c \in Calls : Ask(c) \/ Advance(c) \/ RedisFails(c) \/ Cancel(c) \/ CancelWaiting(c)
  \/ \E p \in Processes : Restart(p)

Spec == Init /\ [][Next]_vars

(* An event loop with something to run runs some of it.                    *)
FairSpec == Spec /\ WF_vars(\E c \in Calls : Advance(c))

-----------------------------------------------------------------------------
(* Properties *)

Granted(k, b) == {c \in Calls : pc[c] = "granted" /\ Period(k, at[c]) = b}

(* The processes together: the calls granted in one minute (one day) are   *)
(* within the limit, however their INCRs interleave, whatever is taken     *)
(* back, cut off or restarted, and whatever became of Redis for others.    *)
BucketsRespected == \A t \in Time :
  /\ Cardinality(Granted("rpm", t)) <= RpmLimit
  /\ Cardinality(Granted("rpd", t)) <= RpdLimit

(* "concurrent agents cannot overshoot the quota between check and append":*)
(* no window of a minute (a day) of one process holds more calls than the  *)
(* limit, those allowed while Redis was lost included.                     *)
WindowsRespected == \A p \in Processes, t \in Time :
  /\ Cardinality(Window(p, Minute, t)) <= RpmLimit
  /\ Cardinality(Window(p, Day, t)) <= RpdLimit

(* Both at once: no interleaving, taking-back, failure or restart lets the *)
(* processes together, or one of them, allow more calls than the provider. *)
LimitsRespected == BucketsRespected /\ WindowsRespected

(* Critical calls may exceed the tokens of a minute; the others never make *)
(* the tokens of the others exceed it.                                     *)
TokensRespected == \A t \in Time : Tokens(Granted("tpm", t) \ Critical) <= TpmLimit

(* No call in progress and nothing disturbed: the counters show exactly    *)
(* the calls that were granted, so a refusal leaves no trace.              *)
CountersSettle ==
  (disruptions = 0 /\ \A c \in Calls : pc[c] \notin Holding) =>
  \A k \in Counter, t \in Time :
    counter[k][t] = MapThenSumSet(LAMBDA c : Amount(k, c), Granted(k, t))

(* The shared counters keep their promise both ways: never too many tokens *)
(* granted, never a count left behind by a call that was refused.          *)
CountersKept == TokensRespected /\ CountersSettle

(* The lock is left on every path, so that no caller waits for ever: time  *)
(* and again every call made so far has its answer or was cut off.         *)
CallersAnswered == []<>(\A c \in Calls : pc[c] \in {"new"} \cup Ended)
=============================================================================
