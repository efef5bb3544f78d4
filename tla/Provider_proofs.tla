--------------------------- MODULE Provider_proofs ---------------------------
(***************************************************************************)
(* Proofs about the quota guard and the calls of language models, for any  *)
(* processes and calls, any limits and costs, any models, and any number   *)
(* of failures, cancellations and restarts.                                *)
(***************************************************************************)
EXTENDS ProviderQuota, ModelCalls, FiniteSetTheorems, SequenceTheorems, WellFoundedInduction,
        TLAPS

-----------------------------------------------------------------------------
(* A period is numbered by a time not later than itself. *)
LEMMA PeriodInTime == \A k \in Counter, t \in Time : Period(k, t) \in Time
  BY QuotaAssumption DEF Period, Time

LEMMA AmountType ==
  \A k \in Counter, c \in Calls : Amount(k, c) \in Nat /\ (k # "tpm" => Amount(k, c) = 1)
  BY QuotaAssumption DEF Amount

(* What raising and lowering a counter does to every counter. *)
LEMMA CounterOps ==
  ASSUME TypeOK, NEW k \in Counter, NEW c \in Calls
  PROVE  LET n(j, t) == IF j = k /\ t = Period(k, at[c]) THEN Amount(k, c) ELSE 0 IN
         /\ Raised(k, c) \in [Counter -> [Time -> Int]]
         /\ Lowered(k, c) \in [Counter -> [Time -> Int]]
         /\ \A j \in Counter, t \in Time :
              /\ Raised(k, c)[j][t] = counter[j][t] + n(j, t)
              /\ Lowered(k, c)[j][t] = counter[j][t] - n(j, t)
<1> DEFINE b == Period(k, at[c])
<1>1. at[c] \in Time
  BY QuotaAssumption DEF TypeOK, Time
<1>2. b \in Time
  BY <1>1, PeriodInTime
<1>3. Amount(k, c) \in Nat
  BY AmountType
<1>4. counter \in [Counter -> [Time -> Int]]
  BY DEF TypeOK
<1> HIDE DEF b
<1>5. \A a \in Int : [counter EXCEPT ![k][b] = @ + a] \in [Counter -> [Time -> Int]]
  BY <1>2, <1>4
<1>6. \A a \in Int, j \in Counter, t \in Time :
        [counter EXCEPT ![k][b] = @ + a][j][t] = counter[j][t] + (IF j = k /\ t = b THEN a ELSE 0)
  BY <1>2, <1>4
<1>7. \A a \in Int : [counter EXCEPT ![k][b] = @ - a] \in [Counter -> [Time -> Int]]
  BY <1>2, <1>4
<1>8. \A a \in Int, j \in Counter, t \in Time :
        [counter EXCEPT ![k][b] = @ - a][j][t] = counter[j][t] - (IF j = k /\ t = b THEN a ELSE 0)
  BY <1>2, <1>4
<1>9. QED
  BY <1>3, <1>5, <1>6, <1>7, <1>8 DEF Raised, Lowered, b

(* What is to be undone is never empty, names no counter twice, and ends   *)
(* with none left.                                                         *)
Distinct(s) == \A i, j \in DOMAIN s : s[i] = s[j] => i = j
Among(k, s) == \E i \in DOMAIN s : s[i] = k

LEMMA UndoShape ==
  \A k \in Counter, c \in Calls :
    /\ Undo(k, c) \in Seq(Counter) /\ Undo(k, c) # << >> /\ Distinct(Undo(k, c))
    /\ \A j \in Counter : Among(j, Undo(k, c)) =>
         j = k \/ (j = "rpm" /\ k \in {"tpm", "rpd"}) \/ j = "tpm"
<1> SUFFICES ASSUME NEW k \in Counter, NEW c \in Calls
             PROVE  /\ Undo(k, c) \in Seq(Counter) /\ Undo(k, c) # << >> /\ Distinct(Undo(k, c))
                    /\ \A j \in Counter : Among(j, Undo(k, c)) =>
                         j = k \/ (j = "rpm" /\ k \in {"tpm", "rpd"}) \/ j = "tpm"
  OBVIOUS
<1>1. CASE k = "rpm"
  BY <1>1 DEF Undo, Distinct, Among, Counter
<1>2. CASE k = "tpm"
  BY <1>2 DEF Undo, Distinct, Among, Counter
<1>3. CASE k = "rpd" /\ Cost[c] = 0
  BY <1>3 DEF Undo, Distinct, Among, Counter
<1>4. CASE k = "rpd" /\ Cost[c] # 0
  BY <1>4 DEF Undo, Distinct, Among, Counter
<1>5. QED
  BY <1>1, <1>2, <1>3, <1>4 DEF Counter

LEMMA TailShape ==
  ASSUME NEW s \in Seq(Counter), s # << >>, Distinct(s)
  PROVE  /\ Head(s) \in Counter /\ Among(Head(s), s)
         /\ Tail(s) \in Seq(Counter) /\ Distinct(Tail(s))
         /\ Len(s) > 1 => Tail(s) # << >>
         /\ ~Among(Head(s), Tail(s))
         /\ \A k \in Counter : Among(k, Tail(s)) => Among(k, s)
<1>1. /\ Head(s) \in Counter /\ Tail(s) \in Seq(Counter)
      /\ Head(s) = s[1] /\ Len(s) \in Nat \ {0} /\ Len(Tail(s)) = Len(s) - 1
      /\ \A i \in 1 .. Len(Tail(s)) : Tail(s)[i] = s[i + 1]
  BY HeadTailProperties, LenProperties
<1>2. DOMAIN s = 1 .. Len(s) /\ DOMAIN Tail(s) = 1 .. Len(Tail(s))
  BY <1>1, LenProperties
<1>3. QED
  BY <1>1, <1>2 DEF Distinct, Among

-----------------------------------------------------------------------------
(* TypeOK in two parts: where the calls are and who holds the locks; the   *)
(* clock, the windows and the counters.                                    *)
ControlPart ==
  /\ pc \in [Calls -> {"new", "waiting"} \cup Holding \cup Ended]
  /\ todo \in [Calls -> Seq(Counter)]
  /\ lock \in [Processes -> Calls \cup {NoCall}]
  /\ \A c \in Calls : pc[c] \in Holding <=> lock[Home[c]] = c
  /\ \A p \in Processes : lock[p] # NoCall => Home[lock[p]] = p
  /\ \A c \in Calls : pc[c] = "undo" <=> todo[c] # << >>

DataPart ==
  /\ clock \in Time
  /\ at \in [Calls -> 0 .. clock]
  /\ memory \in [Processes -> SUBSET Calls]
  /\ counter \in [Counter -> [Time -> Int]]
  /\ disruptions \in 0 .. MaxDisruptions

LEMMA TypeParts == TypeOK <=> ControlPart /\ DataPart
  BY DEF TypeOK, ControlPart, DataPart

LEMMA LeaveControl ==
  ASSUME ControlPart, NEW c \in Calls, pc[c] \in Holding, NEW end \in Ended, Leave(c, end)
  PROVE  ControlPart'
<1>1. /\ pc' = [pc EXCEPT ![c] = end] /\ todo' = [todo EXCEPT ![c] = << >>]
      /\ lock' = [lock EXCEPT ![Home[c]] = NoCall]
  BY DEF Leave
<1>2. /\ Home[c] \in Processes /\ lock[Home[c]] = c /\ NoCall \notin Calls
      /\ end \notin Holding /\ end # "undo"
  BY QuotaAssumption DEF ControlPart, Ended, Holding, Counter
<1>3. pc' \in [Calls -> {"new", "waiting"} \cup Holding \cup Ended]
  BY <1>1 DEF ControlPart
<1>4. todo' \in [Calls -> Seq(Counter)]
  BY <1>1 DEF ControlPart
<1>5. lock' \in [Processes -> Calls \cup {NoCall}]
  BY <1>1 DEF ControlPart
<1>6. /\ \A d \in Calls : pc'[d] \in Holding <=> lock'[Home[d]] = d
      /\ \A p \in Processes : lock'[p] # NoCall => Home[lock'[p]] = p
  BY <1>1, <1>2, QuotaAssumption DEF ControlPart
<1>7. ASSUME NEW d \in Calls PROVE pc'[d] = "undo" <=> todo'[d] # << >>
  BY <1>1, <1>2 DEF ControlPart
<1>8. QED
  BY <1>3, <1>4, <1>5, <1>6, <1>7 DEF ControlPart

(* A call that goes on holding keeps the lock; one that does not hold      *)
(* moves without it.                                                       *)
LEMMA MoveControl ==
  ASSUME ControlPart, NEW c \in Calls,
         NEW to \in {"waiting"} \cup Holding \cup Ended, to # "undo", pc[c] # "undo",
         to \in Holding <=> pc[c] \in Holding,
         pc' = [pc EXCEPT ![c] = to], UNCHANGED <<lock, todo>>
  PROVE  ControlPart'
<1>1. pc' \in [Calls -> {"new", "waiting"} \cup Holding \cup Ended]
  BY DEF ControlPart
<1>2. ASSUME NEW d \in Calls
      PROVE  /\ pc'[d] \in Holding <=> lock'[Home[d]] = d
             /\ pc'[d] = "undo" <=> todo'[d] # << >>
  BY DEF ControlPart
<1>3. QED
  BY <1>1, <1>2 DEF ControlPart

LEMMA EnterControl ==
  ASSUME ControlPart, NEW c \in Calls, Enter(c)
  PROVE  ControlPart'
<1>1. /\ pc[c] = "waiting" /\ lock[Home[c]] = NoCall /\ Home[c] \in Processes
      /\ pc' = [pc EXCEPT ![c] = "rpm"] /\ todo' = todo
      /\ lock' = [lock EXCEPT ![Home[c]] = c]
      /\ "rpm" \in Holding /\ "waiting" \notin Holding
  BY QuotaAssumption DEF Enter, Holding, Counter
<1>2. /\ pc' \in [Calls -> {"new", "waiting"} \cup Holding \cup Ended]
      /\ lock' \in [Processes -> Calls \cup {NoCall}]
  BY <1>1 DEF ControlPart
<1>3. /\ \A d \in Calls : pc'[d] \in Holding <=> lock'[Home[d]] = d
      /\ \A p \in Processes : lock'[p] # NoCall => Home[lock'[p]] = p
  BY <1>1, QuotaAssumption DEF ControlPart
<1>4. ASSUME NEW d \in Calls
      PROVE  pc'[d] = "undo" <=> todo'[d] # << >>
  BY <1>1 DEF ControlPart
<1>5. QED
  BY <1>1, <1>2, <1>3, <1>4 DEF ControlPart

LEMMA ExceedControl ==
  ASSUME ControlPart, NEW c \in Calls, Exceed(c)
  PROVE  ControlPart'
<1>1. PICK k \in Counter :
        /\ pc[c] = k /\ pc' = [pc EXCEPT ![c] = "undo"]
        /\ todo' = [todo EXCEPT ![c] = Undo(k, c)] /\ lock' = lock
  BY DEF Exceed
<1>2. pc[c] \in Holding /\ "undo" \in Holding
  BY <1>1 DEF Holding
<1>3. Undo(k, c) \in Seq(Counter) /\ Undo(k, c) # << >>
  BY UndoShape
<1>4. /\ pc' \in [Calls -> {"new", "waiting"} \cup Holding \cup Ended]
      /\ todo' \in [Calls -> Seq(Counter)]
  BY <1>1, <1>2, <1>3 DEF ControlPart
<1>5. ASSUME NEW d \in Calls
      PROVE  /\ pc'[d] \in Holding <=> lock'[Home[d]] = d
             /\ pc'[d] = "undo" <=> todo'[d] # << >>
  BY <1>1, <1>2, <1>3 DEF ControlPart
<1>6. QED
  BY <1>1, <1>4, <1>5 DEF ControlPart

LEMMA TakeBackControl ==
  ASSUME ControlPart, NEW c \in Calls, TakeBack(c)
  PROVE  ControlPart'
<1>1. /\ pc[c] = "undo" /\ todo[c] # << >> /\ Len(todo[c]) > 1
      /\ todo' = [todo EXCEPT ![c] = Tail(@)] /\ UNCHANGED <<pc, lock>>
  BY DEF TakeBack, ControlPart
<1>2. Tail(todo[c]) \in Seq(Counter) /\ Tail(todo[c]) # << >>
  <2>1. todo[c] \in Seq(Counter)
    BY DEF ControlPart
  <2>2. /\ Tail(todo[c]) \in Seq(Counter) /\ Len(Tail(todo[c])) = Len(todo[c]) - 1
    BY <1>1, <2>1, HeadTailProperties
  <2>3. QED
    BY <1>1, <2>1, <2>2, LenProperties
<1>3. todo' \in [Calls -> Seq(Counter)]
  BY <1>1, <1>2 DEF ControlPart
<1>4. ASSUME NEW d \in Calls PROVE pc'[d] = "undo" <=> todo'[d] # << >>
  BY <1>1, <1>2 DEF ControlPart
<1>5. QED
  BY <1>1, <1>3, <1>4 DEF ControlPart

LEMMA RestartControl ==
  ASSUME ControlPart, NEW p \in Processes, Restart(p)
  PROVE  ControlPart'
<1>1. /\ lock' = [lock EXCEPT ![p] = NoCall]
      /\ pc' = [c \in Calls |->
           IF Home[c] = p /\ pc[c] \in Holding \cup {"waiting"} THEN "cancelled" ELSE pc[c]]
      /\ todo' = [c \in Calls |-> IF Home[c] = p THEN << >> ELSE todo[c]]
      /\ "cancelled" \in Ended \ Holding /\ "undo" \in Holding
  BY DEF Restart, Ended, Holding, Counter
<1>2. pc' \in [Calls -> {"new", "waiting"} \cup Holding \cup Ended]
  BY <1>1 DEF ControlPart
<1>3. lock' \in [Processes -> Calls \cup {NoCall}]
  BY <1>1 DEF ControlPart
<1>4. todo' \in [Calls -> Seq(Counter)]
  BY <1>1 DEF ControlPart
<1>5. /\ \A d \in Calls : pc'[d] \in Holding <=> lock'[Home[d]] = d
      /\ \A q \in Processes : lock'[q] # NoCall => Home[lock'[q]] = q
  BY <1>1, QuotaAssumption DEF ControlPart
<1>6. ASSUME NEW d \in Calls PROVE pc'[d] = "undo" <=> todo'[d] # << >>
  BY <1>1 DEF ControlPart
<1>7. QED
  BY <1>2, <1>3, <1>4, <1>5, <1>6 DEF ControlPart

(* The command under way when a call is disturbed leaves counters. *)
LEMMA AfterCommandType ==
  ASSUME TypeOK, NEW c \in Calls, pc[c] \in Holding
  PROVE  AfterCommand(c) \in [Counter -> [Time -> Int]]
<1>1. CASE pc[c] = "undo"
  <2>1. Head(todo[c]) \in Counter
    BY <1>1, HeadTailProperties DEF TypeOK
  <2>2. QED
    BY <1>1, <2>1, CounterOps DEF AfterCommand
<1>2. CASE pc[c] # "undo"
  BY <1>2, CounterOps DEF AfterCommand, Holding
<1>3. QED
  BY <1>1, <1>2

(* What a call does to the data, whichever its action. *)
LEMMA CallKeepsData ==
  ASSUME TypeOK, UNCHANGED clock,
         at' = at \/ (\E c \in Calls : at' = [at EXCEPT ![c] = clock]),
         memory' = memory \/ (\E c \in Calls : Record(c)) \/ (\E p \in Processes : memory' = [memory EXCEPT ![p] = {}]),
         counter' \in [Counter -> [Time -> Int]],
         disruptions' = disruptions \/ Disturb
  PROVE  DataPart'
<1>0. clock' = clock /\ clock \in Nat
  BY QuotaAssumption DEF TypeOK, Time
<1>1. at' \in [Calls -> 0 .. clock']
  <2>1. CASE at' = at
    BY <1>0, <2>1 DEF TypeOK
  <2>2. ASSUME NEW c \in Calls, at' = [at EXCEPT ![c] = clock]
        PROVE  at' \in [Calls -> 0 .. clock']
    BY <1>0, <2>2 DEF TypeOK
  <2>3. QED
    BY <2>1, <2>2
<1>2. memory' \in [Processes -> SUBSET Calls]
  <2>1. CASE memory' = memory
    BY <2>1 DEF TypeOK
  <2>2. ASSUME NEW c \in Calls, Record(c) PROVE memory' \in [Processes -> SUBSET Calls]
    <3>1. memory' = [memory EXCEPT ![Home[c]] = @ \cup {c}]
      BY <2>2 DEF Record
    <3>2. memory[Home[c]] \cup {c} \in SUBSET Calls
      BY QuotaAssumption DEF TypeOK
    <3>3. QED
      BY <3>1, <3>2 DEF TypeOK
  <2>3. CASE \E p \in Processes : memory' = [memory EXCEPT ![p] = {}]
    BY <2>3 DEF TypeOK
  <2>4. QED
    BY <2>1, <2>2, <2>3
<1>3. disruptions' \in 0 .. MaxDisruptions
  BY QuotaAssumption DEF TypeOK, Disturb
<1>4. clock' \in Time
  BY <1>0 DEF TypeOK
<1>5. QED
  BY <1>1, <1>2, <1>3, <1>4 DEF DataPart

(* The actions by what they do to the control. *)
Moves(c) == Ask(c) \/ RefuseAtOnce(c) \/ Count(c) \/ CancelWaiting(c)
Leaves(c) == Grant(c) \/ Refuse(c) \/ RedisFails(c) \/ Cancel(c)

LEMMA NextCases ==
  Next <=> \/ Tick
           \/ \E c \in Calls : Moves(c) \/ Leaves(c) \/ Enter(c) \/ Exceed(c) \/ TakeBack(c)
           \/ \E p \in Processes : Restart(p)
  BY DEF Next, Advance, Moves, Leaves

LEMMA TypeInit == Init => TypeOK
<1> SUFFICES ASSUME Init PROVE TypeOK
  OBVIOUS
<1>1. /\ clock \in Time /\ at \in [Calls -> 0 .. clock] /\ disruptions \in 0 .. MaxDisruptions
      /\ memory \in [Processes -> SUBSET Calls] /\ counter \in [Counter -> [Time -> Int]]
  BY QuotaAssumption DEF Init, Time
<1>2. /\ pc \in [Calls -> {"new", "waiting"} \cup Holding \cup Ended]
      /\ todo \in [Calls -> Seq(Counter)] /\ lock \in [Processes -> Calls \cup {NoCall}]
  BY DEF Init
<1>3. /\ \A c \in Calls : pc[c] \in Holding <=> lock[Home[c]] = c
      /\ \A p \in Processes : lock[p] # NoCall => Home[lock[p]] = p
  BY QuotaAssumption DEF Init, Holding, Counter
<1>4. \A c \in Calls : pc[c] = "undo" <=> todo[c] # << >>
  BY DEF Init
<1>5. QED
  BY <1>1, <1>2, <1>3, <1>4 DEF TypeOK

LEMMA TypeStep == TypeOK /\ [Next]_vars => TypeOK'
<1> SUFFICES ASSUME TypeOK, [Next]_vars PROVE TypeOK'
  OBVIOUS
<1>0. ControlPart /\ DataPart
  BY TypeParts
<1>1. CASE Tick
  <2>1. clock' \in Time /\ at' \in [Calls -> 0 .. clock']
    BY <1>1, QuotaAssumption DEF Tick, TypeOK, Time
  <2>2. QED
    BY <1>1, <2>1 DEF Tick, TypeOK
<1>2. ASSUME NEW c \in Calls, Moves(c) PROVE TypeOK'
  <2>1. ControlPart'
    <3>1. CASE Ask(c)
      BY <1>0, <3>1, MoveControl DEF Ask, Holding, Counter
    <3>2. CASE RefuseAtOnce(c)
      BY <1>0, <3>2, MoveControl DEF RefuseAtOnce, Holding, Counter, Ended
    <3>3. CASE Count(c)
      <4>1. PICK k \in {"rpm", "tpm"} : /\ pc[c] = k
              /\ pc' = [pc EXCEPT ![c] = IF k = "rpm" /\ Cost[c] # 0 THEN "tpm" ELSE "rpd"]
              /\ UNCHANGED <<lock, todo>>
        BY <3>3 DEF Count
      <4>2. {"rpm", "tpm", "rpd"} \subseteq Holding
        BY DEF Holding, Counter
      <4>3. QED
        BY <1>0, <4>1, <4>2, MoveControl
    <3>4. CASE CancelWaiting(c)
      BY <1>0, <3>4, MoveControl DEF CancelWaiting, Holding, Counter, Ended
    <3>5. QED
      BY <1>2, <3>1, <3>2, <3>3, <3>4 DEF Moves
  <2>2. counter' \in [Counter -> [Time -> Int]]
    <3>1. CASE Count(c)
      <4>1. PICK k \in {"rpm", "tpm"} : counter' = Raised(k, c)
        BY <3>1 DEF Count
      <4>2. k \in Counter
        BY DEF Counter
      <4>3. QED
        BY <4>1, <4>2, CounterOps
    <3>2. CASE ~Count(c)
      BY <1>2, <3>2 DEF Moves, Ask, RefuseAtOnce, CancelWaiting, TypeOK
    <3>3. QED
      BY <3>1, <3>2
  <2>3. DataPart'
    BY <1>2, <2>2, CallKeepsData DEF Moves, Ask, RefuseAtOnce, Count, CancelWaiting
  <2>4. QED
    BY <2>1, <2>3, TypeParts DEF TypeOK, ControlPart, DataPart
<1>3. ASSUME NEW c \in Calls, Leaves(c) PROVE TypeOK'
  <2>1. pc[c] \in Holding /\ \E end \in Ended : Leave(c, end)
    BY <1>3 DEF Leaves, Grant, Refuse, RedisFails, Cancel, Holding, Counter, Ended
  <2>2. ControlPart'
    BY <1>0, <2>1, LeaveControl
  <2>3. counter' \in [Counter -> [Time -> Int]]
    <3>1. CASE Grant(c)
      BY <3>1, CounterOps DEF Grant, Counter
    <3>2. CASE Refuse(c)
      <4>1. counter' = AfterCommand(c)
        BY <3>2 DEF Refuse, AfterCommand
      <4>2. QED
        BY <2>1, <4>1, AfterCommandType
    <3>3. CASE RedisFails(c) \/ Cancel(c)
      BY <2>1, <3>3, AfterCommandType DEF RedisFails, Cancel, TypeOK
    <3>4. QED
      BY <1>3, <3>1, <3>2, <3>3 DEF Leaves
  <2>4. DataPart'
    BY <1>3, <2>3, CallKeepsData DEF Leaves, Grant, Refuse, RedisFails, Cancel
  <2>5. QED
    BY <2>2, <2>4 DEF TypeOK, ControlPart, DataPart
<1>4. ASSUME NEW c \in Calls, Enter(c) PROVE TypeOK'
  <2>1. counter' \in [Counter -> [Time -> Int]]
    BY <1>4 DEF Enter, TypeOK
  <2>2. DataPart'
    BY <1>4, <2>1, CallKeepsData DEF Enter
  <2>3. QED
    BY <1>0, <1>4, <2>2, EnterControl DEF TypeOK, ControlPart, DataPart
<1>5. ASSUME NEW c \in Calls, Exceed(c) PROVE TypeOK'
  <2>1. counter' \in [Counter -> [Time -> Int]]
    BY <1>5, CounterOps DEF Exceed
  <2>2. DataPart'
    BY <1>5, <2>1, CallKeepsData DEF Exceed
  <2>3. QED
    BY <1>0, <1>5, <2>2, ExceedControl DEF TypeOK, ControlPart, DataPart
<1>6. ASSUME NEW c \in Calls, TakeBack(c) PROVE TypeOK'
  <2>1. counter' = AfterCommand(c) /\ pc[c] \in Holding
    BY <1>6 DEF TakeBack, AfterCommand, Holding
  <2>2. DataPart'
    BY <1>6, <2>1, AfterCommandType, CallKeepsData DEF TakeBack
  <2>3. QED
    BY <1>0, <1>6, <2>2, TakeBackControl DEF TypeOK, ControlPart, DataPart
<1>7. ASSUME NEW p \in Processes, Restart(p) PROVE TypeOK'
  <2>1. counter' \in [Counter -> [Time -> Int]]
    <3>1. CASE lock[p] # NoCall /\ counter' = AfterCommand(lock[p])
      <4>1. lock[p] \in Calls /\ pc[lock[p]] \in Holding
        BY <3>1 , QuotaAssumption DEF TypeOK
      <4>2. QED
        BY <3>1, <4>1, AfterCommandType
    <3>2. CASE counter' = counter
      BY <3>2 DEF TypeOK
    <3>3. QED
      BY <1>7, <3>1, <3>2 DEF Restart
  <2>2. DataPart'
    BY <1>7, <2>1, CallKeepsData DEF Restart
  <2>3. QED
    BY <1>0, <1>7, <2>2, RestartControl DEF TypeOK, ControlPart, DataPart
<1>8. CASE UNCHANGED vars
  BY <1>8 DEF vars, TypeOK
<1>9. QED
  BY <1>1, <1>2, <1>3, <1>4, <1>5, <1>6, <1>7, <1>8, NextCases
(* Every reachable state is well typed; a process's lock is held by the    *)
(* call of that process which is between its checks and its end.           *)
THEOREM TypeCorrect == Spec => []TypeOK
<1>1. Init => TypeOK
  BY TypeInit
<1>2. TypeOK /\ [Next]_vars => TypeOK'
  BY TypeStep
<1>3. QED
  BY <1>1, <1>2, PTL DEF Spec

-----------------------------------------------------------------------------
(* The windows.  A holder's own window has room for it, and holds nothing  *)
(* later than it: what MemoryAllows found stays true until it leaves.      *)
MemoryIsAllowed == \A p \in Processes : \A d \in memory[p] :
  Home[d] = p /\ pc[d] \in {"granted", "local"}

HoldersFit == \A c \in Calls : pc[c] \in Holding =>
  /\ \A d \in memory[Home[c]] : at[d] <= at[c]
  /\ Cardinality(Window(Home[c], Minute, at[c])) < RpmLimit
  /\ Cardinality(Window(Home[c], Day, at[c])) < RpdLimit

WindowInv == MemoryIsAllowed /\ HoldersFit /\ WindowsRespected

LEMMA SubsetCount ==
  ASSUME NEW S, IsFiniteSet(S), NEW T, T \subseteq S
  PROVE  IsFiniteSet(T) /\ Cardinality(T) \in Nat /\ Cardinality(S) \in Nat
         /\ Cardinality(T) <= Cardinality(S)
  BY FS_Subset, FS_CardinalityType

LEMMA OneMore ==
  ASSUME NEW S, IsFiniteSet(S), NEW x, NEW T, T \subseteq S \cup {x}
  PROVE  IsFiniteSet(T) /\ Cardinality(T) \in Nat /\ Cardinality(S) \in Nat
         /\ Cardinality(T) <= Cardinality(S) + 1
<1>0. Cardinality(S) \in Nat
  BY FS_CardinalityType
<1>1. /\ IsFiniteSet(S \cup {x})
      /\ Cardinality(S \cup {x}) <= Cardinality(S) + 1
  BY <1>0, FS_AddElement
<1>2. Cardinality(T) \in Nat /\ Cardinality(T) <= Cardinality(S \cup {x}) /\ IsFiniteSet(T)
  BY <1>1, SubsetCount
<1>3. Cardinality(S \cup {x}) \in Nat
  BY <1>1, FS_CardinalityType
<1>4. QED
  BY <1>0, <1>1, <1>2, <1>3

LEMMA OneLess ==
  ASSUME NEW S, IsFiniteSet(S), NEW x \in S, NEW T, T \subseteq S \ {x}
  PROVE  Cardinality(T) \in Nat /\ Cardinality(S) \in Nat
         /\ Cardinality(T) <= Cardinality(S) - 1
<1>1. IsFiniteSet(S \ {x}) /\ Cardinality(S \ {x}) = Cardinality(S) - 1
  BY FS_RemoveElement
<1>2. QED
  BY <1>1, SubsetCount, FS_CardinalityType

LEMMA WindowFinite ==
  ASSUME TypeOK, NEW p \in Processes, NEW w, NEW t
  PROVE  IsFiniteSet(Window(p, w, t)) /\ Cardinality(Window(p, w, t)) \in Nat
<1>1. Window(p, w, t) \subseteq Calls
  BY DEF Window, TypeOK
<1>2. QED
  BY <1>1, SubsetCount, QuotaAssumption

(* A call added to its process's windows keeps the limit of each. *)
LEMMA GrowWindow ==
  ASSUME TypeOK, NEW c \in Calls, Record(c), UNCHANGED at,
         NEW w \in Nat, NEW t \in Time, NEW L \in Nat,
         \A d \in memory[Home[c]] : at[d] <= at[c],
         Cardinality(Window(Home[c], w, at[c])) < L,
         Cardinality(Window(Home[c], w, t)) <= L
  PROVE  Cardinality(Window(Home[c], w, t)') <= L
<1> DEFINE p == Home[c]
           Old == Window(p, w, t)
           Own == Window(p, w, at[c])
           New == Window(p, w, t)'
<1>1. p \in Processes /\ t \in Int /\ at \in [Calls -> Int] /\ memory[p] \subseteq Calls
  BY QuotaAssumption DEF TypeOK, Time
<1>2. memory'[p] = memory[p] \cup {c}
  BY <1>1 DEF Record, TypeOK
<1>3. New = {d \in memory[p] \cup {c} : t - w < at[d] /\ at[d] <= t}
  BY <1>2 DEF Window
<1>4. IsFiniteSet(Own) /\ IsFiniteSet(Old)
  BY <1>1, WindowFinite
<1>5. CASE t - w < at[c] /\ at[c] <= t
  <2>1. New \subseteq Own \cup {c}
    BY <1>1, <1>3, <1>5 DEF Window
  <2>2. Cardinality(New) \in Nat /\ Cardinality(Own) \in Nat /\ Cardinality(New) <= Cardinality(Own) + 1
    BY <1>4, <2>1, OneMore
  <2>3. Cardinality(Own) < L
    OBVIOUS
  <2> HIDE DEF Own, New
  <2>4. QED
    BY <2>2, <2>3 DEF New
<1>6. CASE ~(t - w < at[c] /\ at[c] <= t)
  <2>1. New \subseteq Old
    BY <1>3, <1>6 DEF Window
  <2>2. QED
    BY <1>4, <2>1, SubsetCount
<1>7. QED
  BY <1>5, <1>6

(* Steps that allow no call and give no lock away. *)
LEMMA WindowsStill ==
  ASSUME TypeOK, WindowInv, UNCHANGED memory,
         \A d \in Calls : pc[d] \in {"granted", "local"} => pc'[d] = pc[d],
         \A d \in Calls : pc[d] # "waiting" => at'[d] = at[d],
         \A d \in Calls : pc'[d] \in Holding => pc[d] \in Holding
  PROVE  WindowInv'
<1>1. MemoryIsAllowed'
  BY DEF WindowInv, MemoryIsAllowed, TypeOK
<1>2. \A p \in Processes : \A d \in memory[p] : d \in Calls /\ at'[d] = at[d]
  BY DEF WindowInv, MemoryIsAllowed, TypeOK
<1>3. \A p \in Processes : \A w, t : Window(p, w, t)' = Window(p, w, t)
  BY <1>2 DEF Window
<1>4. WindowsRespected'
  BY <1>3 DEF WindowInv, WindowsRespected
<1>5. ASSUME NEW c \in Calls, pc'[c] \in Holding
      PROVE  /\ \A d \in memory'[Home[c]] : at'[d] <= at'[c]
             /\ Cardinality(Window(Home[c], Minute, at[c])') < RpmLimit
             /\ Cardinality(Window(Home[c], Day, at[c])') < RpdLimit
  <2>1. pc[c] \in Holding /\ at'[c] = at[c] /\ Home[c] \in Processes
    BY <1>5, QuotaAssumption DEF Holding, Counter
  <2>2. \A w : Window(Home[c], w, at[c])' = Window(Home[c], w, at[c])
    BY <1>2, <2>1 DEF Window
  <2>3. QED
    BY <1>2, <2>1, <2>2 DEF WindowInv, HoldersFit
<1>6. HoldersFit'
  BY <1>5 DEF HoldersFit
<1>7. QED
  BY <1>1, <1>4, <1>6 DEF WindowInv

(* Steps that allow the holder of the lock. *)
LEMMA WindowsRecord ==
  ASSUME TypeOK, TypeOK', WindowInv, NEW c \in Calls, pc[c] \in Holding, Record(c), UNCHANGED at,
         NEW end \in {"granted", "local"}, Leave(c, end)
  PROVE  WindowInv'
<1>1. /\ Home[c] \in Processes /\ pc' = [pc EXCEPT ![c] = end]
      /\ end \notin Holding /\ Minute \in Nat /\ Day \in Nat /\ RpmLimit \in Nat /\ RpdLimit \in Nat
  BY QuotaAssumption DEF Leave, Holding, Counter
<1>2. memory' = [memory EXCEPT ![Home[c]] = memory[Home[c]] \cup {c}]
  BY DEF Record
<1>3. MemoryIsAllowed'
  <2>1. ASSUME NEW p \in Processes, NEW d \in memory'[p]
        PROVE  Home[d] = p /\ pc'[d] \in {"granted", "local"}
    <3>1. d \in memory[p] \/ (d = c /\ p = Home[c])
      BY <1>1, <1>2, <2>1 DEF TypeOK
    <3>2. CASE d \in memory[p]
      BY <1>1, <3>2 DEF WindowInv, MemoryIsAllowed, TypeOK
    <3>3. CASE d = c /\ p = Home[c]
      BY <1>1, <3>3 DEF TypeOK
    <3>4. QED
      BY <3>1, <3>2, <3>3
  <2>2. QED
    BY <2>1 DEF MemoryIsAllowed
<1>4. \A p \in Processes \ {Home[c]} : \A w, t : Window(p, w, t)' = Window(p, w, t)
  BY <1>1, <1>2 DEF Window, TypeOK
<1>5. WindowsRespected'
  <2>1. ASSUME NEW p \in Processes, NEW t \in Time
        PROVE  /\ Cardinality(Window(p, Minute, t)') <= RpmLimit
               /\ Cardinality(Window(p, Day, t)') <= RpdLimit
    <3>1. CASE p = Home[c]
      BY <1>1, <2>1, <3>1, GrowWindow DEF WindowInv, HoldersFit, WindowsRespected
    <3>2. CASE p # Home[c]
      BY <1>4, <2>1, <3>2 DEF WindowInv, WindowsRespected
    <3>3. QED
      BY <3>1, <3>2
  <2>2. QED
    BY <2>1 DEF WindowsRespected
<1>6. HoldersFit'
  <2>1. ASSUME NEW d \in Calls, pc'[d] \in Holding
        PROVE  /\ \A e \in memory'[Home[d]] : at'[e] <= at'[d]
               /\ Cardinality(Window(Home[d], Minute, at[d])') < RpmLimit
               /\ Cardinality(Window(Home[d], Day, at[d])') < RpdLimit
    <3>1. d # c /\ pc[d] \in Holding
      BY <1>1, <2>1 DEF TypeOK
    <3>2. Home[d] \in Processes \ {Home[c]}
      BY <3>1, QuotaAssumption DEF TypeOK
    <3>3. memory'[Home[d]] = memory[Home[d]]
      BY <1>1, <1>2, <3>2 DEF TypeOK
    <3>4. \A w : Window(Home[d], w, at[d])' = Window(Home[d], w, at[d])
      BY <3>3 DEF Window
    <3>5. QED
      BY <3>1, <3>2, <3>3, <3>4 DEF WindowInv, HoldersFit
  <2>2. QED
    BY <2>1 DEF HoldersFit
<1>7. QED
  BY <1>3, <1>5, <1>6 DEF WindowInv
(* The call that takes the lock has just been found to fit. *)
LEMMA WindowsEnter ==
  ASSUME TypeOK, WindowInv, NEW c \in Calls, Enter(c)
  PROVE  WindowInv'
<1>1. /\ pc[c] = "waiting" /\ MemoryAllows(c) /\ pc' = [pc EXCEPT ![c] = "rpm"]
      /\ at' = [at EXCEPT ![c] = clock] /\ memory' = memory
  BY DEF Enter
<1>0. Home[c] \in Processes /\ clock \in Nat /\ at \in [Calls -> 0 .. clock]
  BY QuotaAssumption DEF TypeOK, Time
<1>2. \A p \in Processes : \A d \in memory[p] :
        d \in Calls /\ d # c /\ at'[d] = at[d] /\ at[d] <= clock /\ pc'[d] = pc[d]
  BY <1>0, <1>1 DEF WindowInv, MemoryIsAllowed, TypeOK
<1>3. MemoryIsAllowed'
  BY <1>0, <1>1, <1>2 DEF WindowInv, MemoryIsAllowed
<1>4. \A p \in Processes : \A w, t : Window(p, w, t)' = Window(p, w, t)
  BY <1>0, <1>1, <1>2 DEF Window
<1>5. WindowsRespected'
  BY <1>4 DEF WindowInv, WindowsRespected
<1>6. HoldersFit'
  <2>1. ASSUME NEW d \in Calls, pc'[d] \in Holding
        PROVE  /\ \A e \in memory'[Home[d]] : at'[e] <= at'[d]
               /\ Cardinality(Window(Home[d], Minute, at[d])') < RpmLimit
               /\ Cardinality(Window(Home[d], Day, at[d])') < RpdLimit
    <3>1. CASE d = c
      <4>1. at'[d] = clock
        BY <1>0, <1>1, <3>1
      <4>2. \A w : Window(Home[d], w, at[d])' = Window(Home[c], w, clock)
        BY <1>0, <1>1, <1>2, <3>1, <4>1 DEF Window
      <4>3. QED
        BY <1>0, <1>1, <1>2, <3>1, <4>1, <4>2 DEF MemoryAllows
    <3>2. CASE d # c
      <4>1. pc[d] \in Holding /\ at'[d] = at[d] /\ Home[d] \in Processes
        BY <1>1, <2>1, <3>2, QuotaAssumption DEF TypeOK
      <4>2. \A w : Window(Home[d], w, at[d])' = Window(Home[d], w, at[d])
        BY <1>0, <1>1, <1>2, <4>1 DEF Window
      <4>3. QED
        BY <1>0, <1>1, <1>2, <4>1, <4>2 DEF WindowInv, HoldersFit
    <3>3. QED
      BY <3>1, <3>2
  <2>2. QED
    BY <2>1 DEF HoldersFit
<1>7. QED
  BY <1>3, <1>5, <1>6 DEF WindowInv

(* A restarted process has empty windows, and no holder. *)
LEMMA WindowsRestart ==
  ASSUME TypeOK, TypeOK', WindowInv, NEW p \in Processes, Restart(p)
  PROVE  WindowInv'
<1>1. /\ memory' = [memory EXCEPT ![p] = {}] /\ at' = at
      /\ lock' = [lock EXCEPT ![p] = NoCall]
      /\ pc' = [c \in Calls |->
           IF Home[c] = p /\ pc[c] \in Holding \cup {"waiting"} THEN "cancelled" ELSE pc[c]]
      /\ {"granted", "local", "cancelled"} \cap (Holding \cup {"waiting"}) = {}
  BY DEF Restart, Holding, Counter
<1>2. /\ memory'[p] = {} /\ \A q \in Processes \ {p} : memory'[q] = memory[q]
  BY <1>1 DEF TypeOK
<1>3. MemoryIsAllowed'
  BY <1>1, <1>2 DEF WindowInv, MemoryIsAllowed, TypeOK
<1>4. /\ \A w, t : Window(p, w, t)' = {}
      /\ \A q \in Processes \ {p} : \A w, t : Window(q, w, t)' = Window(q, w, t)
  BY <1>1, <1>2 DEF Window
<1>5. WindowsRespected'
  <2>1. Cardinality({}) = 0 /\ RpmLimit \in Nat /\ RpdLimit \in Nat
    BY FS_EmptySet, QuotaAssumption
  <2>2. ASSUME NEW q \in Processes, NEW t \in Time
        PROVE  /\ Cardinality(Window(q, Minute, t)') <= RpmLimit
               /\ Cardinality(Window(q, Day, t)') <= RpdLimit
    <3>1. CASE q = p
      BY <1>4, <2>1, <3>1
    <3>2. CASE q # p
      BY <1>4, <3>2 DEF WindowInv, WindowsRespected
    <3>3. QED
      BY <3>1, <3>2
  <2>3. QED
    BY <2>2 DEF WindowsRespected
<1>6. HoldersFit'
  <2>1. ASSUME NEW d \in Calls, pc'[d] \in Holding
        PROVE  /\ \A e \in memory'[Home[d]] : at'[e] <= at'[d]
               /\ Cardinality(Window(Home[d], Minute, at[d])') < RpmLimit
               /\ Cardinality(Window(Home[d], Day, at[d])') < RpdLimit
    <3>1. Home[d] \in Processes \ {p} /\ pc[d] \in Holding
      BY <1>1, <2>1, QuotaAssumption
    <3>2. \A w : Window(Home[d], w, at[d])' = Window(Home[d], w, at[d])
      BY <1>1, <1>2, <3>1 DEF Window
    <3>3. QED
      BY <1>1, <1>2, <3>1, <3>2 DEF WindowInv, HoldersFit
  <2>2. QED
    BY <2>1 DEF HoldersFit
<1>7. QED
  BY <1>3, <1>5, <1>6 DEF WindowInv

LEMMA WindowStep == TypeOK /\ TypeOK' /\ WindowInv /\ [Next]_vars => WindowInv'
<1> SUFFICES ASSUME TypeOK, TypeOK', WindowInv, [Next]_vars PROVE WindowInv'
  OBVIOUS
<1>1. CASE Tick
  BY <1>1, WindowsStill DEF Tick
<1>2. ASSUME NEW c \in Calls, Moves(c) PROVE WindowInv'
  <2>1. UNCHANGED memory /\ \E to : pc' = [pc EXCEPT ![c] = to] /\ (to \in Holding => pc[c] \in Holding)
    BY <1>2 DEF Moves, Ask, RefuseAtOnce, Count, CancelWaiting, Holding, Counter
  <2>2. pc[c] \notin {"granted", "local"}
    BY <1>2 DEF Moves, Ask, RefuseAtOnce, Count, CancelWaiting
  <2>3. \A d \in Calls : pc[d] # "waiting" => at'[d] = at[d]
    BY <1>2 DEF Moves, Ask, RefuseAtOnce, Count, CancelWaiting, TypeOK
  <2>4. \A d \in Calls : pc'[d] \in Holding => pc[d] \in Holding
    BY <2>1 DEF TypeOK
  <2>5. \A d \in Calls : pc[d] \in {"granted", "local"} => pc'[d] = pc[d]
    BY <2>1, <2>2 DEF TypeOK
  <2>6. QED
    BY <2>1, <2>3, <2>4, <2>5, WindowsStill
<1>3. ASSUME NEW c \in Calls, Refuse(c) \/ Cancel(c) PROVE WindowInv'
  <2>1. /\ UNCHANGED <<memory, at>> /\ pc[c] \in Holding
        /\ \E end \in {"refused", "cancelled"} : pc' = [pc EXCEPT ![c] = end]
    BY <1>3 DEF Refuse, Cancel, Leave, Holding
  <2>2. {"refused", "cancelled", "granted", "local"} \cap Holding = {}
    BY DEF Holding, Counter
  <2>3. /\ \A d \in Calls : pc'[d] \in Holding => pc[d] \in Holding
        /\ \A d \in Calls : pc[d] \in {"granted", "local"} => pc'[d] = pc[d]
    BY <2>1, <2>2 DEF TypeOK
  <2>4. QED
    BY <2>1, <2>3, WindowsStill
<1>4. ASSUME NEW c \in Calls, Grant(c) \/ RedisFails(c) PROVE WindowInv'
  <2>1. pc[c] \in Holding /\ Record(c) /\ UNCHANGED at
        /\ \E end \in {"granted", "local"} : Leave(c, end)
    BY <1>4 DEF Grant, RedisFails, Holding, Counter
  <2>2. QED
    BY <2>1, WindowsRecord
<1>5. ASSUME NEW c \in Calls, Exceed(c) PROVE WindowInv'
  <2>1. UNCHANGED <<memory, at>> /\ pc[c] \in Counter /\ pc' = [pc EXCEPT ![c] = "undo"]
    BY <1>5 DEF Exceed
  <2>2. /\ \A d \in Calls : pc'[d] \in Holding => pc[d] \in Holding
        /\ \A d \in Calls : pc[d] \in {"granted", "local"} => pc'[d] = pc[d]
    <3>1. pc[c] \in Holding /\ pc[c] \notin {"granted", "local"}
      BY <2>1 DEF Holding, Counter
    <3>2. QED
      BY <2>1, <3>1 DEF TypeOK
  <2>3. QED
    BY <2>1, <2>2, WindowsStill
<1>6. ASSUME NEW c \in Calls, TakeBack(c) PROVE WindowInv'
  BY <1>6, WindowsStill DEF TakeBack
<1>7. CASE UNCHANGED vars
  BY <1>7, WindowsStill DEF vars
<1>8. QED
  BY <1>1, <1>2, <1>3, <1>4, <1>5, <1>6, <1>7, WindowsEnter, WindowsRestart, NextCases DEF Leaves

(* No window of a process ever holds more calls than the limit, whether    *)
(* Redis counted them or was lost: between a call's check and its append   *)
(* the lock keeps every other call of the process out.                     *)
THEOREM WindowsNeverOverflow == Spec => []WindowsRespected
<1>1. Init => WindowInv
  <2> SUFFICES ASSUME Init PROVE WindowInv
    OBVIOUS
  <2>1. MemoryIsAllowed /\ HoldersFit
    BY DEF Init, MemoryIsAllowed, HoldersFit, Holding, Counter
  <2>2. \A p \in Processes : \A w, t : Window(p, w, t) = {}
    BY DEF Init, Window
  <2>3. WindowsRespected
    BY <2>2, FS_EmptySet, QuotaAssumption DEF WindowsRespected
  <2>4. QED
    BY <2>1, <2>3 DEF WindowInv
<1>2. TypeOK /\ TypeOK' /\ WindowInv /\ [Next]_vars => WindowInv'
  BY WindowStep
<1>3. WindowInv => WindowsRespected
  BY DEF WindowInv
<1>4. QED
  BY <1>1, <1>2, <1>3, TypeCorrect, PTL DEF Spec

-----------------------------------------------------------------------------
(* The counters.  A counter of requests is at least the number of calls    *)
(* that have raised it and not taken it back: a failure can only leave it  *)
(* higher.  A call that finds it within the limit is therefore one of at   *)
(* most that many.                                                         *)
PerRequest == {"rpm", "rpd"}

Passed(k, c) == pc[c] = "granted" \/ (k = "rpm" /\ pc[c] \in {"tpm", "rpd"})
Holds(k, c) == Passed(k, c) \/ Among(k, todo[c])

PassedIn(k, t) == {c \in Calls : Passed(k, c) /\ Period(k, at[c]) = t}
HoldersIn(k, t) == {c \in Calls : Holds(k, c) /\ Period(k, at[c]) = t}

TodoDistinct == \A c \in Calls : Distinct(todo[c])
HoldersCounted == \A k \in PerRequest, t \in Time : Cardinality(HoldersIn(k, t)) <= counter[k][t]
PassedFit == \A k \in PerRequest, t \in Time : Cardinality(PassedIn(k, t)) <= Limit(k)

BucketInv == TodoDistinct /\ HoldersCounted /\ PassedFit

LEMMA RequestsOfOne ==
  \A k \in PerRequest : k \in Counter /\ Limit(k) \in Nat /\ \A c \in Calls : Amount(k, c) = 1
  BY AmountType, QuotaAssumption DEF PerRequest, Counter, Limit

LEMMA HoldersFinite ==
  ASSUME NEW k, NEW t
  PROVE  /\ IsFiniteSet(HoldersIn(k, t)) /\ IsFiniteSet(PassedIn(k, t))
         /\ IsFiniteSet(HoldersIn(k, t)') /\ IsFiniteSet(PassedIn(k, t)')
<1>1. /\ HoldersIn(k, t) \subseteq Calls /\ PassedIn(k, t) \subseteq Calls
      /\ HoldersIn(k, t)' \subseteq Calls /\ PassedIn(k, t)' \subseteq Calls
  BY DEF HoldersIn, PassedIn
<1>2. QED
  BY <1>1, SubsetCount, QuotaAssumption

(* A step in which nobody begins to hold counter k, and it does not fall. *)
LEMMA HoldersStill ==
  ASSUME TypeOK, TypeOK', NEW k \in PerRequest, NEW t \in Time,
         Cardinality(HoldersIn(k, t)) <= counter[k][t],
         \A d \in Calls : Holds(k, d)' => Holds(k, d) /\ at'[d] = at[d],
         counter'[k][t] >= counter[k][t]
  PROVE  Cardinality(HoldersIn(k, t)') <= counter'[k][t]
<1>1. HoldersIn(k, t)' \subseteq HoldersIn(k, t)
  BY DEF HoldersIn
<1>2. counter'[k][t] \in Int /\ counter[k][t] \in Int
  BY RequestsOfOne DEF TypeOK
<1>3. /\ Cardinality(HoldersIn(k, t)') \in Nat /\ Cardinality(HoldersIn(k, t)) \in Nat
      /\ Cardinality(HoldersIn(k, t)') <= Cardinality(HoldersIn(k, t))
  BY <1>1, HoldersFinite, SubsetCount
<1>4. QED
  BY <1>2, <1>3

(* A step of call c: it raises the counter, or keeps what it holds, or     *)
(* takes back what it held.                                                *)
LEMMA HolderMoves ==
  ASSUME TypeOK, TypeOK', NEW c \in Calls, UNCHANGED at, NEW k \in PerRequest, NEW t \in Time,
         \A d \in Calls \ {c} : Holds(k, d)' => Holds(k, d),
         Cardinality(HoldersIn(k, t)) <= counter[k][t],
         t # Period(k, at[c]) => counter'[k][t] >= counter[k][t],
         t = Period(k, at[c]) =>
           \/ counter'[k][t] >= counter[k][t] + 1
           \/ counter'[k][t] >= counter[k][t] /\ (Holds(k, c)' => Holds(k, c))
           \/ counter'[k][t] >= counter[k][t] - 1 /\ Holds(k, c) /\ ~Holds(k, c)'
  PROVE  Cardinality(HoldersIn(k, t)') <= counter'[k][t]
<1> DEFINE Old == HoldersIn(k, t)
           New == HoldersIn(k, t)'
<1>1. counter'[k][t] \in Int /\ counter[k][t] \in Int
  BY RequestsOfOne DEF TypeOK
<1>2. IsFiniteSet(Old)
  BY HoldersFinite
<1>3. New = {d \in Calls : Holds(k, d)' /\ Period(k, at[d]) = t}
  BY DEF HoldersIn
<1>4. CASE t = Period(k, at[c]) /\ counter'[k][t] >= counter[k][t] + 1
  <2>1. New \subseteq Old \cup {c}
    BY <1>3 DEF HoldersIn
  <2>2. Cardinality(New) \in Nat /\ Cardinality(Old) \in Nat /\ Cardinality(New) <= Cardinality(Old) + 1
    BY <1>2, <2>1, OneMore
  <2>3. QED
    BY <1>1, <1>4, <2>2
<1>5. CASE t = Period(k, at[c]) /\ counter'[k][t] >= counter[k][t] - 1 /\ Holds(k, c) /\ ~Holds(k, c)'
  <2>1. c \in Old /\ New \subseteq Old \ {c}
    BY <1>3, <1>5 DEF HoldersIn
  <2>2. Cardinality(New) \in Nat /\ Cardinality(Old) \in Nat /\ Cardinality(New) <= Cardinality(Old) - 1
    BY <1>2, <2>1, OneLess
  <2>3. QED
    BY <1>1, <1>5, <2>2
<1>6. CASE counter'[k][t] >= counter[k][t] /\ (t = Period(k, at[c]) => (Holds(k, c)' => Holds(k, c)))
  <2>1. New \subseteq Old
    BY <1>3, <1>6 DEF HoldersIn
  <2>2. Cardinality(New) \in Nat /\ Cardinality(Old) \in Nat /\ Cardinality(New) <= Cardinality(Old)
    BY <1>2, <2>1, SubsetCount
  <2>3. QED
    BY <1>1, <1>6, <2>2
<1>7. QED
  BY <1>4, <1>5, <1>6

(* A call passes a counter only when it found it within the limit. *)
LEMMA PassedStep ==
  ASSUME TypeOK', HoldersCounted', PassedFit, NEW k \in PerRequest, NEW t \in Time,
         counter'[k][t] <= Limit(k) \/ PassedIn(k, t)' \subseteq PassedIn(k, t)
  PROVE  Cardinality(PassedIn(k, t)') <= Limit(k)
<1>1. Limit(k) \in Nat /\ k \in Counter
  BY RequestsOfOne
<1>2. CASE counter'[k][t] <= Limit(k)
  <2>1. PassedIn(k, t)' \subseteq HoldersIn(k, t)'
    BY DEF PassedIn, HoldersIn, Holds
  <2>2. /\ Cardinality(PassedIn(k, t)') \in Nat /\ Cardinality(HoldersIn(k, t)') \in Nat
        /\ Cardinality(PassedIn(k, t)') <= Cardinality(HoldersIn(k, t)')
    BY <2>1, HoldersFinite, SubsetCount
  <2>3. Cardinality(HoldersIn(k, t)') <= counter'[k][t] /\ counter'[k][t] \in Int
    BY <1>1 DEF HoldersCounted, TypeOK
  <2>4. QED
    BY <1>1, <1>2, <2>2, <2>3
<1>3. CASE PassedIn(k, t)' \subseteq PassedIn(k, t)
  <2>1. /\ Cardinality(PassedIn(k, t)') \in Nat /\ Cardinality(PassedIn(k, t)) \in Nat
        /\ Cardinality(PassedIn(k, t)') <= Cardinality(PassedIn(k, t))
    BY <1>3, HoldersFinite, SubsetCount
  <2>2. Cardinality(PassedIn(k, t)) <= Limit(k)
    BY DEF PassedFit
  <2>3. QED
    BY <1>1, <2>1, <2>2
<1>4. QED
  BY <1>2, <1>3

(* Steps that raise and lower nothing. *)
LEMMA BucketsStill ==
  ASSUME TypeOK, TypeOK', BucketInv, UNCHANGED counter, TodoDistinct',
         \A k \in PerRequest, d \in Calls :
           /\ Holds(k, d)' => Holds(k, d) /\ at'[d] = at[d]
           /\ Passed(k, d)' => Passed(k, d)
  PROVE  BucketInv'
<1>1. HoldersCounted'
  <2>1. ASSUME NEW k \in PerRequest, NEW t \in Time
        PROVE  Cardinality(HoldersIn(k, t)') <= counter'[k][t]
    <3>1. counter'[k][t] >= counter[k][t] /\ Cardinality(HoldersIn(k, t)) <= counter[k][t]
      BY RequestsOfOne DEF TypeOK, BucketInv, HoldersCounted
    <3>2. QED
      BY <3>1, HoldersStill
  <2>2. QED
    BY <2>1 DEF HoldersCounted
<1>2. \A k \in PerRequest, t \in Time : PassedIn(k, t)' \subseteq PassedIn(k, t)
  BY DEF PassedIn, Holds
<1>3. PassedFit'
  BY <1>1, <1>2, PassedStep DEF BucketInv, PassedFit
<1>4. QED
  BY <1>1, <1>3 DEF BucketInv

(* The command under way may lower a counter the call holds, and no other. *)
LEMMA AfterCommandCounts ==
  ASSUME TypeOK, NEW c \in Calls, pc[c] \in Holding, NEW k \in PerRequest, NEW t \in Time
  PROVE  \/ AfterCommand(c)[k][t] >= counter[k][t]
         \/ /\ t = Period(k, at[c]) /\ Holds(k, c)
            /\ AfterCommand(c)[k][t] >= counter[k][t] - 1
<1>1. k \in Counter /\ Amount(k, c) = 1 /\ counter[k][t] \in Int
  BY RequestsOfOne DEF TypeOK
<1>2. CASE pc[c] = "undo"
  <2> DEFINE h == Head(todo[c])
  <2>1. h \in Counter /\ Among(h, todo[c])
    <3>1. todo[c] \in Seq(Counter) /\ todo[c] # << >>
      BY <1>2 DEF TypeOK
    <3>2. h \in Counter /\ h = todo[c][1] /\ Len(todo[c]) \in Nat \ {0} /\ DOMAIN todo[c] = 1 .. Len(todo[c])
      BY <3>1, HeadTailProperties, LenProperties
    <3>3. QED
      BY <3>2 DEF Among
  <2>2. AfterCommand(c) = Lowered(h, c)
    BY <1>2 DEF AfterCommand
  <2>3. AfterCommand(c)[k][t] = counter[k][t] - (IF k = h /\ t = Period(h, at[c]) THEN Amount(h, c) ELSE 0)
    BY <1>1, <2>1, <2>2, CounterOps
  <2> HIDE DEF h
  <2>4. QED
    BY <1>1, <2>1, <2>3 DEF Holds
<1>3. CASE pc[c] # "undo"
  <2>1. pc[c] \in Counter /\ AfterCommand(c) = Raised(pc[c], c) /\ Amount(pc[c], c) \in Nat
    BY <1>3, AmountType DEF AfterCommand, Holding
  <2>2. AfterCommand(c)[k][t] = counter[k][t] + (IF k = pc[c] /\ t = Period(pc[c], at[c]) THEN Amount(pc[c], c) ELSE 0)
    BY <1>1, <2>1, CounterOps
  <2>3. QED
    BY <1>1, <2>1, <2>2
<1>4. QED
  BY <1>2, <1>3

(* Steps in which a holder ends without having passed. *)
LEMMA BucketsLeave ==
  ASSUME TypeOK, TypeOK', BucketInv, TodoDistinct', UNCHANGED at,
         NEW c \in Calls, pc[c] \in Holding, counter' \in {counter, AfterCommand(c)},
         \A k \in PerRequest : ~Holds(k, c)',
         \A k \in PerRequest, d \in Calls \ {c} :
           (Holds(k, d)' => Holds(k, d)) /\ (Passed(k, d)' => Passed(k, d))
  PROVE  BucketInv'
<1>1. HoldersCounted'
  <2>1. ASSUME NEW k \in PerRequest, NEW t \in Time
        PROVE  Cardinality(HoldersIn(k, t)') <= counter'[k][t]
    <3>1. Cardinality(HoldersIn(k, t)) <= counter[k][t] /\ counter[k][t] \in Int /\ counter'[k][t] \in Int
      BY RequestsOfOne DEF TypeOK, BucketInv, HoldersCounted
    <3>2. \/ counter'[k][t] >= counter[k][t]
          \/ t = Period(k, at[c]) /\ Holds(k, c) /\ counter'[k][t] >= counter[k][t] - 1
      BY <3>1, AfterCommandCounts
    <3>3. QED
      BY <3>1, <3>2, HolderMoves
  <2>2. QED
    BY <2>1 DEF HoldersCounted
<1>2. \A k \in PerRequest, t \in Time : PassedIn(k, t)' \subseteq PassedIn(k, t)
  BY DEF PassedIn, Holds
<1>3. PassedFit'
  BY <1>1, <1>2, PassedStep DEF BucketInv, PassedFit
<1>4. QED
  BY <1>1, <1>3 DEF BucketInv

(* Steps in which a call raises counter j. *)
LEMMA BucketsRaise ==
  ASSUME TypeOK, TypeOK', BucketInv, TodoDistinct', UNCHANGED at,
         NEW c \in Calls, NEW j \in Counter, counter' = Raised(j, c),
         \A k \in PerRequest \ {j} : Holds(k, c)' => Holds(k, c),
         \A k \in PerRequest : Passed(k, c)' => Passed(k, c) \/ (k = j /\ Fits(j, c)),
         \A k \in PerRequest, d \in Calls \ {c} :
           (Holds(k, d)' => Holds(k, d)) /\ (Passed(k, d)' => Passed(k, d))
  PROVE  BucketInv'
<1>1. ASSUME NEW k \in PerRequest, NEW t \in Time
      PROVE  /\ counter[k][t] \in Int /\ Amount(k, c) = 1 /\ k \in Counter
             /\ counter'[k][t] = counter[k][t] + (IF k = j /\ t = Period(j, at[c]) THEN Amount(j, c) ELSE 0)
             /\ Amount(j, c) \in Nat
  <2>1. k \in Counter /\ Amount(k, c) = 1 /\ counter[k][t] \in Int
    BY RequestsOfOne DEF TypeOK
  <2>2. Amount(j, c) \in Nat
    BY AmountType
  <2>3. counter'[k][t] = counter[k][t] + (IF k = j /\ t = Period(j, at[c]) THEN Amount(j, c) ELSE 0)
    BY <2>1, CounterOps
  <2>4. QED
    BY <2>1, <2>2, <2>3
<1>2. HoldersCounted'
  <2>1. ASSUME NEW k \in PerRequest, NEW t \in Time
        PROVE  Cardinality(HoldersIn(k, t)') <= counter'[k][t]
    <3>1. Cardinality(HoldersIn(k, t)) <= counter[k][t]
      BY DEF BucketInv, HoldersCounted
    <3>2. t # Period(k, at[c]) => counter'[k][t] >= counter[k][t]
      BY <1>1
    <3>3. t = Period(k, at[c]) =>
            \/ counter'[k][t] >= counter[k][t] + 1
            \/ counter'[k][t] >= counter[k][t] /\ (Holds(k, c)' => Holds(k, c))
      BY <1>1
    <3>4. QED
      BY <3>1, <3>2, <3>3, HolderMoves
  <2>2. QED
    BY <2>1 DEF HoldersCounted
<1>3. PassedFit'
  <2>1. ASSUME NEW k \in PerRequest, NEW t \in Time
        PROVE  counter'[k][t] <= Limit(k) \/ PassedIn(k, t)' \subseteq PassedIn(k, t)
    <3>1. CASE k = j /\ Fits(j, c) /\ t = Period(j, at[c])
      <4>1. k # "tpm"
        BY DEF PerRequest
      <4>2. counter[k][t] + Amount(k, c) <= Limit(k)
        BY <3>1, <4>1 DEF Fits
      <4>3. QED
        BY <1>1, <3>1, <4>2
    <3>2. CASE ~(k = j /\ Fits(j, c) /\ t = Period(j, at[c]))
      BY <3>2 DEF PassedIn
    <3>3. QED
      BY <3>1, <3>2
  <2>2. QED
    BY <1>2, <2>1, PassedStep DEF BucketInv, PassedFit
<1>4. QED
  BY <1>2, <1>3 DEF BucketInv

(* What the calls other than c hold is theirs whatever c does. *)
LEMMA OthersKeep ==
  ASSUME TypeOK, NEW c \in Calls, NEW to, NEW s,
         pc' = [pc EXCEPT ![c] = to], todo' = [todo EXCEPT ![c] = s]
  PROVE  /\ pc'[c] = to /\ todo'[c] = s
         /\ \A k \in PerRequest, d \in Calls \ {c} :
              (Holds(k, d)' => Holds(k, d)) /\ (Passed(k, d)' => Passed(k, d))
         /\ TodoDistinct /\ Distinct(s) => TodoDistinct'
<1>1. /\ pc'[c] = to /\ todo'[c] = s
      /\ \A d \in Calls \ {c} : pc'[d] = pc[d] /\ todo'[d] = todo[d]
  BY DEF TypeOK
<1>2. TodoDistinct /\ Distinct(s) => TodoDistinct'
  BY <1>1 DEF TodoDistinct
<1>3. QED
  BY <1>1, <1>2 DEF Holds, Passed

LEMMA NothingAmong ==
  Distinct(<< >>) /\ \A k : ~Among(k, << >>)
  BY DEF Distinct, Among

LEMMA NotHolding ==
  ASSUME NEW c \in Calls, todo'[c] = << >>, pc'[c] \notin {"granted", "tpm", "rpd"}
  PROVE  \A k : ~Holds(k, c)'
<1>1. \A k : ~Passed(k, c)'
  BY DEF Passed
<1>2. \A k : ~Among(k, todo[c])'
  BY DEF Among
<1>3. QED
  BY <1>1, <1>2 DEF Holds

LEMMA SameTodo ==
  ASSUME TypeOK, NEW c \in Calls, UNCHANGED todo
  PROVE  todo' = [todo EXCEPT ![c] = todo[c]]
  BY DEF TypeOK

LEMMA BucketStep == TypeOK /\ TypeOK' /\ BucketInv /\ [Next]_vars => BucketInv'
<1> SUFFICES ASSUME TypeOK, TypeOK', BucketInv, [Next]_vars PROVE BucketInv'
  OBVIOUS
<1>1. CASE Tick
  BY <1>1, BucketsStill DEF Tick, BucketInv, TodoDistinct, Holds, Passed
<1>2. ASSUME NEW c \in Calls, Ask(c) \/ RefuseAtOnce(c) \/ CancelWaiting(c) \/ Enter(c)
      PROVE  BucketInv'
  <2>1. /\ UNCHANGED <<todo, counter>> /\ pc[c] \in {"new", "waiting"}
        /\ \E to \in {"waiting", "refused", "cancelled", "rpm"} : pc' = [pc EXCEPT ![c] = to]
        /\ \A d \in Calls \ {c} : at'[d] = at[d]
    BY <1>2 DEF Ask, RefuseAtOnce, CancelWaiting, Enter, TypeOK
  <2>2. todo[c] = << >>
    BY <2>1 DEF TypeOK
  <2>3. TodoDistinct'
    BY <2>1 DEF BucketInv, TodoDistinct
  <2>4. ASSUME NEW k \in PerRequest PROVE ~Holds(k, c)' /\ ~Passed(k, c)'
    BY <2>1, <2>2, NothingAmong DEF Holds, Passed, TypeOK
  <2>5. \A k \in PerRequest, d \in Calls \ {c} : (Holds(k, d)' => Holds(k, d)) /\ (Passed(k, d)' => Passed(k, d))
    BY <2>1, SameTodo, OthersKeep
  <2>6. QED
    BY <2>1, <2>3, <2>4, <2>5, BucketsStill
<1>3. ASSUME NEW c \in Calls, Count(c) PROVE BucketInv'
  <2>1. PICK j \in {"rpm", "tpm"} :
          /\ pc[c] = j /\ Fits(j, c) /\ counter' = Raised(j, c)
          /\ \E to \in {"tpm", "rpd"} : pc' = [pc EXCEPT ![c] = to]
          /\ UNCHANGED <<at, todo>>
    BY <1>3 DEF Count
  <2>2. todo[c] = << >> /\ j \in Counter
    BY <2>1 DEF TypeOK, Counter
  <2>3. TodoDistinct'
    BY <2>1 DEF BucketInv, TodoDistinct
  <2>4. \A k \in PerRequest, d \in Calls \ {c} : (Holds(k, d)' => Holds(k, d)) /\ (Passed(k, d)' => Passed(k, d))
    BY <2>1, SameTodo, OthersKeep
  <2>5. \A k \in PerRequest : /\ Passed(k, c)' <=> k = "rpm"
                              /\ Holds(k, c)' <=> k = "rpm"
                              /\ j = "tpm" => (Passed(k, c) <=> k = "rpm")
    BY <2>1, <2>2, NothingAmong DEF Passed, Holds, TypeOK, PerRequest
  <2>6. /\ \A k \in PerRequest \ {j} : Holds(k, c)' => Holds(k, c)
        /\ \A k \in PerRequest : Passed(k, c)' => Passed(k, c) \/ (k = j /\ Fits(j, c))
    BY <2>1, <2>5 DEF Holds
  <2>7. QED
    BY <2>1, <2>2, <2>3, <2>4, <2>6, BucketsRaise
<1>4. ASSUME NEW c \in Calls, Grant(c) PROVE BucketInv'
  <2>1. /\ pc[c] = "rpd" /\ Fits("rpd", c) /\ counter' = Raised("rpd", c) /\ UNCHANGED at
        /\ pc' = [pc EXCEPT ![c] = "granted"] /\ todo' = [todo EXCEPT ![c] = << >>]
        /\ "rpd" \in Counter
    BY <1>4 DEF Grant, Leave, Counter
  <2>2. TodoDistinct'
    BY <2>1, OthersKeep, NothingAmong DEF BucketInv
  <2>3. \A k \in PerRequest, d \in Calls \ {c} : (Holds(k, d)' => Holds(k, d)) /\ (Passed(k, d)' => Passed(k, d))
    BY <2>1, OthersKeep
  <2>4. \A k \in PerRequest : Passed(k, c) <=> k = "rpm"
    BY <2>1 DEF Passed, PerRequest
  <2>5. /\ \A k \in PerRequest \ {"rpd"} : Holds(k, c)' => Holds(k, c)
        /\ \A k \in PerRequest : Passed(k, c)' => Passed(k, c) \/ (k = "rpd" /\ Fits("rpd", c))
    BY <2>1, <2>4 DEF Holds, PerRequest
  <2>6. QED
    BY <2>1, <2>2, <2>3, <2>5, BucketsRaise
<1>5. ASSUME NEW c \in Calls, Exceed(c) PROVE BucketInv'
  <2>1. PICK j \in Counter :
          /\ pc[c] = j /\ counter' = Raised(j, c) /\ UNCHANGED at
          /\ pc' = [pc EXCEPT ![c] = "undo"] /\ todo' = [todo EXCEPT ![c] = Undo(j, c)]
    BY <1>5 DEF Exceed
  <2>2. TodoDistinct'
    BY <2>1, OthersKeep, UndoShape DEF BucketInv
  <2>3. \A k \in PerRequest, d \in Calls \ {c} : (Holds(k, d)' => Holds(k, d)) /\ (Passed(k, d)' => Passed(k, d))
    BY <2>1, OthersKeep
  <2>4. pc'[c] = "undo" /\ todo'[c] = Undo(j, c)
    BY <2>1, OthersKeep
  <2>5. \A k \in PerRequest : ~Passed(k, c)'
    BY <2>4 DEF Passed
  <2>6. \A k \in PerRequest \ {j} : Holds(k, c)' => Holds(k, c)
    <3>1. ASSUME NEW k \in PerRequest \ {j}, Holds(k, c)' PROVE Holds(k, c)
      <4>1. Among(k, Undo(j, c))
        BY <2>4, <2>5, <3>1 DEF Holds
      <4>2. k = "rpm" /\ j \in {"tpm", "rpd"}
        BY <3>1, <4>1, UndoShape DEF PerRequest, Counter
      <4>3. QED
        BY <2>1, <4>2 DEF Holds, Passed
    <3>2. QED
      BY <3>1
  <2>7. QED
    BY <2>1, <2>2, <2>3, <2>5, <2>6, BucketsRaise
<1>6. ASSUME NEW c \in Calls, TakeBack(c) PROVE BucketInv'
  <2> DEFINE h == Head(todo[c])
  <2>1. /\ pc[c] = "undo" /\ Len(todo[c]) > 1 /\ counter' = Lowered(h, c) /\ UNCHANGED <<pc, at>>
        /\ todo' = [todo EXCEPT ![c] = Tail(todo[c])] /\ pc' = [pc EXCEPT ![c] = pc[c]]
    BY <1>6 DEF TakeBack, TypeOK
  <2>2. /\ h \in Counter /\ Among(h, todo[c]) /\ Distinct(Tail(todo[c]))
        /\ ~Among(h, Tail(todo[c]))
        /\ \A k \in Counter : Among(k, Tail(todo[c])) => Among(k, todo[c])
    <3>1. todo[c] \in Seq(Counter) /\ todo[c] # << >> /\ Distinct(todo[c])
      BY <2>1 DEF TypeOK, BucketInv, TodoDistinct
    <3>2. QED
      BY <3>1, TailShape
  <2>3. TodoDistinct'
    BY <2>1, <2>2, OthersKeep DEF BucketInv
  <2>4. \A k \in PerRequest, d \in Calls \ {c} : (Holds(k, d)' => Holds(k, d)) /\ (Passed(k, d)' => Passed(k, d))
    BY <2>1, OthersKeep
  <2>5. todo'[c] = Tail(todo[c]) /\ pc'[c] = "undo"
    BY <2>1, OthersKeep
  <2>6. \A k \in PerRequest : ~Passed(k, c)' /\ (Holds(k, c)' => Holds(k, c)) /\ (k = h => Holds(k, c) /\ ~Holds(k, c)')
    BY <2>2, <2>5, RequestsOfOne DEF Passed, Holds
  <2> HIDE DEF h
  <2>7. HoldersCounted'
    <3>1. ASSUME NEW k \in PerRequest, NEW t \in Time
          PROVE  Cardinality(HoldersIn(k, t)') <= counter'[k][t]
      <4>1. k \in Counter /\ Amount(k, c) = 1 /\ counter[k][t] \in Int
        BY RequestsOfOne DEF TypeOK
      <4>2. counter'[k][t] = counter[k][t] - (IF k = h /\ t = Period(h, at[c]) THEN Amount(h, c) ELSE 0)
        BY <2>1, <2>2, <4>1, CounterOps
      <4>3. Cardinality(HoldersIn(k, t)) <= counter[k][t]
        BY DEF BucketInv, HoldersCounted
      <4>4. CASE k = h
        BY <2>1, <2>4, <2>6, <4>1, <4>2, <4>3, <4>4, HolderMoves
      <4>5. CASE k # h
        BY <2>1, <2>4, <2>6, <4>1, <4>2, <4>3, <4>5, HolderMoves
      <4>6. QED
        BY <4>4, <4>5
    <3>2. QED
      BY <3>1 DEF HoldersCounted
  <2>8. \A k \in PerRequest, t \in Time : PassedIn(k, t)' \subseteq PassedIn(k, t)
    BY <2>1, <2>4, <2>6 DEF PassedIn
  <2>9. PassedFit'
    BY <2>7, <2>8, PassedStep DEF BucketInv, PassedFit
  <2>10. QED
    BY <2>3, <2>7, <2>9 DEF BucketInv
<1>7. ASSUME NEW c \in Calls, Refuse(c) \/ RedisFails(c) \/ Cancel(c) PROVE BucketInv'
  <2>1. /\ pc[c] \in Holding /\ UNCHANGED at /\ counter' \in {counter, AfterCommand(c)}
        /\ \E end \in {"refused", "local", "cancelled"} :
             pc' = [pc EXCEPT ![c] = end] /\ todo' = [todo EXCEPT ![c] = << >>]
    BY <1>7 DEF Refuse, RedisFails, Cancel, Leave, AfterCommand, Holding
  <2>2. TodoDistinct'
    BY <2>1, OthersKeep, NothingAmong DEF BucketInv
  <2>3. \A k \in PerRequest, d \in Calls \ {c} : (Holds(k, d)' => Holds(k, d)) /\ (Passed(k, d)' => Passed(k, d))
    BY <2>1, OthersKeep
  <2>4. todo'[c] = << >> /\ pc'[c] \in {"refused", "local", "cancelled"}
    BY <2>1, OthersKeep
  <2>5. \A k \in PerRequest : ~Holds(k, c)'
    BY <2>4, NotHolding
  <2>6. QED
    BY <2>1, <2>2, <2>3, <2>5, BucketsLeave
<1>8. ASSUME NEW p \in Processes, Restart(p) PROVE BucketInv'
  <2>1. /\ UNCHANGED at
        /\ \A d \in Calls : pc'[d] = "cancelled" \/ pc'[d] = pc[d]
        /\ \A d \in Calls : todo'[d] = << >> \/ todo'[d] = todo[d]
    BY <1>8 DEF Restart
  <2>2. TodoDistinct'
    BY <2>1, NothingAmong DEF BucketInv, TodoDistinct
  <2>3. \A k \in PerRequest, d \in Calls : (Holds(k, d)' => Holds(k, d)) /\ (Passed(k, d)' => Passed(k, d))
    BY <2>1, NothingAmong DEF Holds, Passed
  <2>4. CASE counter' = counter
    BY <2>1, <2>2, <2>3, <2>4, BucketsStill
  <2>5. CASE lock[p] # NoCall /\ counter' = AfterCommand(lock[p])
    <3>1. lock[p] \in Calls /\ Home[lock[p]] = p /\ pc[lock[p]] \in Holding
      BY <2>5, QuotaAssumption DEF TypeOK
    <3>2. pc'[lock[p]] = "cancelled" /\ todo'[lock[p]] = << >>
      BY <1>8, <3>1 DEF Restart
    <3>3. ASSUME NEW h \in Calls, h = lock[p] PROVE BucketInv'
      <4>1. pc[h] \in Holding /\ counter' = AfterCommand(h) /\ pc'[h] = "cancelled" /\ todo'[h] = << >>
        BY <2>5, <3>1, <3>2, <3>3
      <4>2. \A k \in PerRequest : ~Holds(k, h)'
        BY <4>1, NotHolding
      <4>3. QED
        BY <2>1, <2>2, <2>3, <4>1, <4>2, BucketsLeave
    <3>4. QED
      BY <3>1, <3>3
  <2>6. QED
    BY <1>8, <2>4, <2>5 DEF Restart
<1>9. CASE UNCHANGED vars
  BY <1>9, BucketsStill DEF vars, BucketInv, TodoDistinct, Holds, Passed
<1>10. QED
  BY <1>1, <1>2, <1>3, <1>4, <1>5, <1>6, <1>7, <1>8, <1>9, NextCases DEF Moves, Leaves

(* The processes together never grant more calls in a minute, or in a day, *)
(* than the limit, for any interleaving of their increments and any calls  *)
(* refused, failed, cut off or restarted half-way.                         *)
THEOREM ProcessesShareTheLimit == Spec => []BucketsRespected
<1>1. Init => BucketInv
  <2> SUFFICES ASSUME Init PROVE BucketInv
    OBVIOUS
  <2>1. \A k \in PerRequest, c \in Calls : ~Holds(k, c) /\ ~Passed(k, c)
    BY NothingAmong DEF Init, Holds, Passed
  <2>2. \A k \in PerRequest, t \in Time : HoldersIn(k, t) = {} /\ PassedIn(k, t) = {}
    BY <2>1 DEF HoldersIn, PassedIn
  <2>3. \A k \in PerRequest, t \in Time : counter[k][t] = 0 /\ Limit(k) \in Nat
    BY RequestsOfOne DEF Init
  <2>4. Cardinality({}) = 0
    BY FS_EmptySet
  <2>5. HoldersCounted /\ PassedFit
    <3>1. ASSUME NEW k \in PerRequest, NEW t \in Time
          PROVE  /\ Cardinality(HoldersIn(k, t)) <= counter[k][t]
                 /\ Cardinality(PassedIn(k, t)) <= Limit(k)
      <4>1. Cardinality(HoldersIn(k, t)) = 0 /\ Cardinality(PassedIn(k, t)) = 0
        BY <2>2, <2>4
      <4>2. QED
        BY <2>3, <4>1
    <3>2. QED
      BY <3>1 DEF HoldersCounted, PassedFit
  <2>6. TodoDistinct
    BY NothingAmong DEF Init, TodoDistinct
  <2>7. QED
    BY <2>5, <2>6 DEF BucketInv
<1>2. TypeOK /\ TypeOK' /\ BucketInv /\ [Next]_vars => BucketInv'
  BY BucketStep
<1>3. BucketInv => BucketsRespected
  <2> SUFFICES ASSUME BucketInv, NEW t \in Time
               PROVE  /\ Cardinality(Granted("rpm", t)) <= RpmLimit
                      /\ Cardinality(Granted("rpd", t)) <= RpdLimit
    BY DEF BucketsRespected
  <2>1. ASSUME NEW k \in PerRequest PROVE Cardinality(Granted(k, t)) <= Limit(k)
    <3>1. Granted(k, t) \subseteq PassedIn(k, t)
      BY DEF Granted, PassedIn, Passed
    <3>2. /\ Cardinality(Granted(k, t)) \in Nat /\ Cardinality(PassedIn(k, t)) \in Nat
          /\ Cardinality(Granted(k, t)) <= Cardinality(PassedIn(k, t))
      BY <3>1, HoldersFinite, SubsetCount
    <3>3. Cardinality(PassedIn(k, t)) <= Limit(k) /\ Limit(k) \in Nat
      BY RequestsOfOne DEF BucketInv, PassedFit
    <3>4. QED
      BY <3>2, <3>3
  <2>2. QED
    BY <2>1 DEF PerRequest, Limit
<1>4. QED
  BY <1>1, <1>2, <1>3, TypeCorrect, PTL DEF Spec

(* The guard keeps the limits of the provider, those of a process's own    *)
(* windows and those the processes share (check_and_record).               *)
THEOREM LimitsKept == Spec => []LimitsRespected
BY WindowsNeverOverflow, ProcessesShareTheLimit, PTL DEF LimitsRespected

-----------------------------------------------------------------------------
(* Sums over sets of calls.  The library's sum is a recursive function on  *)
(* the subsets of the set; that it exists, and that the order in which it  *)
(* takes the elements does not matter, is shown by induction on their      *)
(* number.                                                                 *)
LEMMA AllNumbers ==
  ASSUME NEW N \in SUBSET Nat, 0 \in N, \A n \in N : n + 1 \in N
  PROVE  N = Nat
<1>1. SUFFICES ASSUME Nat \ N # {} PROVE FALSE
  OBVIOUS
<1>2. PICK i \in Nat \ N : \A j \in Nat \ N : ~ (<<j, i>> \in OpToRel(<, Nat))
  BY <1>1, NatLessThanWellFounded, WFMin
<1>a. i \in Nat /\ i \notin N
  OBVIOUS
<1>3. i - 1 \in Nat
  BY <1>a
<1>4. <<i - 1, i>> \in OpToRel(<, Nat)
  BY <1>2, <1>3 DEF OpToRel
<1>5. i - 1 \in N
  BY <1>2, <1>3, <1>4
<1>6. (i - 1) + 1 = i
  BY <1>a
<1>7. QED
  BY <1>a, <1>5, <1>6

One(s) == CHOOSE x \in s : TRUE

(* g adds up the weights w over every set of D. *)
Adds(g, D, w) ==
  g = [s \in D |-> IF s = {} THEN 0 ELSE w[One(s)] + g[s \ {One(s)}]]

LEMMA AddsExists ==
  ASSUME NEW S, IsFiniteSet(S), NEW w
  PROVE  \E g : Adds(g, SUBSET S, w)
<1> DEFINE P(n) == {s \in SUBSET S : Cardinality(s) <= n}
           N == {n \in Nat : \E g : Adds(g, P(n), w)}
<1>0. \A s \in SUBSET S : /\ IsFiniteSet(s) /\ Cardinality(s) \in Nat
                          /\ Cardinality(s) <= Cardinality(S)
                          /\ s # {} => /\ One(s) \in s /\ s \ {One(s)} \in SUBSET S
                                       /\ Cardinality(s \ {One(s)}) = Cardinality(s) - 1
  BY SubsetCount, FS_RemoveElement DEF One
<1>b. \A n \in Nat : \A s \in SUBSET S :
        /\ Cardinality(s) <= n => Cardinality(s) <= n + 1
        /\ Cardinality(s) <= 0 => s = {}
  <2>1. ASSUME NEW n \in Nat, NEW s \in SUBSET S
        PROVE  /\ Cardinality(s) <= n => Cardinality(s) <= n + 1
               /\ Cardinality(s) <= 0 => s = {}
    <3>1. IsFiniteSet(s) /\ Cardinality(s) \in Nat
      BY <1>0
    <3>2. Cardinality(s) <= 0 => Cardinality(s) = 0
      BY <3>1
    <3>3. QED
      BY <3>1, <3>2, FS_EmptySet
  <2>2. QED
    BY <2>1
<1>1. 0 \in N
  <2> DEFINE g == [s \in P(0) |-> 0]
  <2>1. \A s \in P(0) : s = {}
    BY <1>b
  <2>2. Adds(g, P(0), w)
    BY <2>1 DEF Adds
  <2>3. QED
    BY <2>2
<1>2. ASSUME NEW n \in N PROVE n + 1 \in N
  <2>1. PICK g : Adds(g, P(n), w)
    OBVIOUS
  <2> DEFINE h == [s \in P(n + 1) |-> IF s = {} THEN 0 ELSE w[One(s)] + g[s \ {One(s)}]]
  <2>2. \A s \in P(n + 1) : s # {} => s \ {One(s)} \in P(n)
    <3>1. ASSUME NEW s \in P(n + 1), s # {} PROVE s \ {One(s)} \in P(n)
      <4>1. s \in SUBSET S /\ Cardinality(s) <= n + 1 /\ n \in Nat
        BY <3>1
      <4>2. s \ {One(s)} \in SUBSET S /\ Cardinality(s \ {One(s)}) = Cardinality(s) - 1 /\ Cardinality(s) \in Nat
        BY <1>0, <3>1, <4>1
      <4>3. Cardinality(s \ {One(s)}) <= n
        BY <4>1, <4>2
      <4>4. QED
        BY <4>2, <4>3
    <3>2. QED
      BY <3>1
  <2>3. P(n) \subseteq P(n + 1)
    BY <1>b
  <2>4. \A s \in P(n) : h[s] = g[s]
    BY <2>1, <2>3 DEF Adds
  <2>5. Adds(h, P(n + 1), w)
    <3>1. \A s \in P(n + 1) : s # {} => h[s \ {One(s)}] = g[s \ {One(s)}]
      BY <2>2, <2>4
    <3> QED
      BY <3>1 DEF Adds
  <2>6. n + 1 \in Nat
    OBVIOUS
  <2> HIDE DEF h, P
  <2>7. QED
    BY <2>5, <2>6
<1> HIDE DEF N
<1>3. N = Nat
  BY <1>1, <1>2, AllNumbers DEF N
<1>4. Cardinality(S) \in N
  BY <1>3, FS_CardinalityType
<1>5. P(Cardinality(S)) = SUBSET S
  BY <1>0
<1>6. QED
  BY <1>4, <1>5 DEF N

(* Whatever element is taken out of a set, its sum is the element's weight *)
(* and the sum of the rest.                                                *)
AnyOrder(g, S, w) ==
  /\ g \in [SUBSET S -> Nat] /\ g[{}] = 0
  /\ \A s \in SUBSET S : \A x \in s : g[s] = w[x] + g[s \ {x}]

LEMMA AddsAny ==
  ASSUME NEW S, IsFiniteSet(S), NEW w \in [S -> Nat], NEW g, Adds(g, SUBSET S, w)
  PROVE  AnyOrder(g, S, w)
<1> DEFINE Good(s) == g[s] \in Nat /\ \A x \in s : g[s] = w[x] + g[s \ {x}]
           N == {n \in Nat : \A s \in SUBSET S : Cardinality(s) <= n => Good(s)}
<1>0. \A s \in SUBSET S : /\ IsFiniteSet(s) /\ Cardinality(s) \in Nat
                          /\ s # {} => One(s) \in s /\ Cardinality(s) # 0
                          /\ \A x \in s : Cardinality(s \ {x}) = Cardinality(s) - 1
  BY SubsetCount, FS_RemoveElement, FS_EmptySet DEF One
<1>1. \A s \in SUBSET S : s # {} => g[s] = w[One(s)] + g[s \ {One(s)}]
  BY DEF Adds
<1>2. g[{}] = 0
  BY DEF Adds
<1>3. 0 \in N
  <2>1. \A s \in SUBSET S : Cardinality(s) <= 0 => s = {}
    BY <1>0
  <2>2. Good({})
    BY <1>2
  <2>3. \A s \in SUBSET S : Cardinality(s) <= 0 => Good(s)
    BY <2>1, <2>2
  <2>4. QED
    BY <2>3
<1>4. ASSUME NEW n \in N PROVE n + 1 \in N
  <2>0. n \in Nat /\ \A s \in SUBSET S : Cardinality(s) <= n => Good(s)
    OBVIOUS
  <2>1. ASSUME NEW s \in SUBSET S, Cardinality(s) = n + 1, s # {} PROVE Good(s)
    <3> DEFINE y == One(s)
               r == s \ {y}
    <3>1. y \in s /\ Cardinality(r) = n /\ g[s] = w[y] + g[r] /\ r \in SUBSET S
      <4>1. y \in s /\ r \in SUBSET S /\ g[s] = w[y] + g[r] /\ Cardinality(r) = Cardinality(s) - 1
        BY <1>0, <1>1, <2>1
      <4>2. Cardinality(s) - 1 = n
        BY <2>0, <2>1
      <4>3. QED
        BY <4>1, <4>2
    <3>2. Good(r) /\ w[y] \in Nat
      <4>1. Cardinality(r) <= n
        BY <2>0, <3>1
      <4>2. QED
        BY <2>0, <3>1, <4>1
    <3>3. g[s] \in Nat
      BY <3>1, <3>2
    <3>4. ASSUME NEW x \in s, x # y PROVE g[s] = w[x] + g[s \ {x}]
      <4> DEFINE q == s \ {x}
      <4>1. q \in SUBSET S /\ Cardinality(q) = n /\ y \in q /\ x \in r /\ w[x] \in Nat
        <5>1. q \in SUBSET S /\ Cardinality(q) = Cardinality(s) - 1 /\ y \in q /\ x \in r /\ w[x] \in Nat
          BY <1>0, <3>1, <3>4
        <5>2. QED
          BY <2>0, <2>1, <5>1
      <4>2. Good(q)
        <5>1. Cardinality(q) <= n
          BY <2>0, <4>1
        <5>2. QED
          BY <2>0, <4>1, <5>1
      <4>3. q \ {y} = r \ {x} /\ q \ {y} \in SUBSET S /\ Cardinality(q \ {y}) <= n
        <5>1. q \ {y} = r \ {x} /\ q \ {y} \in SUBSET S /\ Cardinality(q \ {y}) = Cardinality(q) - 1
          BY <1>0, <4>1
        <5>2. QED
          BY <2>0, <4>1, <5>1
      <4>4. g[q] = w[y] + g[q \ {y}] /\ g[r] = w[x] + g[r \ {x}]
        BY <3>2, <4>1, <4>2
      <4>5. g[q] \in Nat /\ g[r] \in Nat
        BY <3>2, <4>2
      <4>6. g[q \ {y}] \in Nat
        BY <2>0, <4>3
      <4> HIDE DEF q, r, y
      <4>7. g[r] = w[x] + g[q \ {y}]
        BY <4>3, <4>4
      <4>8. g[s] = w[x] + g[q]
        BY <3>1, <3>2, <4>1, <4>4, <4>5, <4>6, <4>7
      <4>9. QED
        BY <4>8 DEF q
    <3>5. QED
      BY <3>1, <3>3, <3>4
  <2>2. n + 1 \in Nat
    OBVIOUS
  <2>3. \A s \in SUBSET S : Cardinality(s) <= n + 1 => Cardinality(s) <= n \/ (Cardinality(s) = n + 1 /\ s # {})
    <3>1. ASSUME NEW s \in SUBSET S, Cardinality(s) <= n + 1, ~(Cardinality(s) <= n)
          PROVE  Cardinality(s) = n + 1 /\ s # {}
      <4>1. Cardinality(s) \in Nat
        BY <1>0
      <4>2. Cardinality(s) = n + 1 /\ Cardinality(s) # 0
        BY <2>0, <3>1, <4>1
      <4>3. QED
        BY <4>2, FS_EmptySet
    <3>2. QED
      BY <3>1
  <2>4. QED
    BY <2>0, <2>1, <2>2, <2>3
<1> HIDE DEF N
<1>5. N = Nat
  BY <1>3, <1>4, AllNumbers DEF N
<1>6. \A s \in SUBSET S : Good(s)
  BY <1>0, <1>5 DEF N
<1>7. QED
  BY <1>2, <1>6 DEF Adds, AnyOrder

LEMMA AddsAgree ==
  ASSUME NEW S, IsFiniteSet(S), NEW T \in SUBSET S, NEW w, NEW g, NEW h,
         Adds(g, SUBSET S, w), Adds(h, SUBSET T, w)
  PROVE  h[T] = g[T]
<1> DEFINE N == {n \in Nat : \A s \in SUBSET T : Cardinality(s) <= n => h[s] = g[s]}
<1>0. \A s \in SUBSET T : /\ IsFiniteSet(s) /\ Cardinality(s) \in Nat /\ s \in SUBSET S
                          /\ s # {} => /\ One(s) \in s /\ s \ {One(s)} \in SUBSET T
                                       /\ Cardinality(s \ {One(s)}) = Cardinality(s) - 1
  BY SubsetCount, FS_RemoveElement DEF One
<1>1. \A s \in SUBSET T :
        /\ s = {} => g[s] = 0 /\ h[s] = 0
        /\ s # {} => g[s] = w[One(s)] + g[s \ {One(s)}] /\ h[s] = w[One(s)] + h[s \ {One(s)}]
  BY <1>0 DEF Adds
<1>2. 0 \in N
  <2>1. ASSUME NEW s \in SUBSET T, Cardinality(s) <= 0 PROVE s = {}
    <3>1. Cardinality(s) = 0 /\ IsFiniteSet(s)
      <4>1. Cardinality(s) \in Nat /\ IsFiniteSet(s)
        BY <1>0
      <4>2. QED
        BY <2>1, <4>1
    <3>2. QED
      BY <3>1, FS_EmptySet
  <2>2. QED
    BY <1>1, <2>1
<1>3. ASSUME NEW n \in N PROVE n + 1 \in N
  <2>0. n \in Nat /\ \A s \in SUBSET T : Cardinality(s) <= n => h[s] = g[s]
    OBVIOUS
  <2>1. ASSUME NEW s \in SUBSET T, Cardinality(s) <= n + 1, s # {} PROVE h[s] = g[s]
    <3>1. /\ s \ {One(s)} \in SUBSET T /\ Cardinality(s \ {One(s)}) = Cardinality(s) - 1
          /\ Cardinality(s) \in Nat
      <4>1. s # {}
        BY <2>1
      <4>2. QED
        BY <1>0, <4>1
    <3>2. Cardinality(s \ {One(s)}) <= n
      BY <2>0, <2>1, <3>1
    <3>3. h[s \ {One(s)}] = g[s \ {One(s)}]
      BY <2>0, <3>1, <3>2
    <3>4. QED
      BY <1>1, <2>1, <3>3
  <2>2. \A s \in SUBSET T : Cardinality(s) <= n + 1 => h[s] = g[s]
    BY <1>1, <2>1
  <2>3. QED
    BY <2>0, <2>2
<1> HIDE DEF N
<1>4. N = Nat
  BY <1>2, <1>3, AllNumbers DEF N
<1>5. T \in SUBSET T /\ Cardinality(T) \in N /\ Cardinality(T) <= Cardinality(T)
  <2>1. T \in SUBSET T
    OBVIOUS
  <2>2. Cardinality(T) \in Nat
    BY <1>0, <2>1
  <2>3. QED
    BY <1>4, <2>1, <2>2
<1>6. QED
  BY <1>5 DEF N

(* What a set of calls adds to counter k. *)
AmountsOf(k) == [c \in Calls |-> Amount(k, c)]
Total(k) == CHOOSE g : Adds(g, SUBSET Calls, AmountsOf(k))

LEMMA TotalAdds ==
  ASSUME NEW k \in Counter
  PROVE  /\ Total(k) \in [SUBSET Calls -> Nat] /\ Total(k)[{}] = 0
         /\ \A S \in SUBSET Calls : \A c \in S : Total(k)[S] = Amount(k, c) + Total(k)[S \ {c}]
<1>1. AmountsOf(k) \in [Calls -> Nat]
  BY AmountType DEF AmountsOf
<1>2. Adds(Total(k), SUBSET Calls, AmountsOf(k))
  BY AddsExists, QuotaAssumption DEF Total
<1>3. IsFiniteSet(Calls)
  BY QuotaAssumption
<1>4. AnyOrder(Total(k), Calls, AmountsOf(k))
  BY <1>1, <1>2, <1>3, AddsAny
<1>5. \A c \in Calls : AmountsOf(k)[c] = Amount(k, c)
  BY DEF AmountsOf
<1>6. QED
  BY <1>4, <1>5 DEF AnyOrder

LEMMA LibrarySum ==
  ASSUME NEW k \in Counter, NEW S \in SUBSET Calls
  PROVE  MapThenSumSet(LAMBDA c : Amount(k, c), S) = Total(k)[S]
<1> DEFINE w == AmountsOf(k)
           F == CHOOSE iter :
                  iter = [s \in SUBSET S |-> IF s = {} THEN 0 ELSE Amount(k, CHOOSE x \in s : TRUE) + iter[s \ {CHOOSE x \in s : TRUE}]]
<1>0. IsFiniteSet(S)
  BY SubsetCount, QuotaAssumption
<1>1. PICK g : Adds(g, SUBSET S, w)
  BY <1>0, AddsExists
<1>2. \A s \in SUBSET S : s # {} => w[One(s)] = Amount(k, CHOOSE x \in s : TRUE)
  BY DEF One, AmountsOf
<1>3. MapThenSumSet(LAMBDA c : Amount(k, c), S) = F[S]
  BY DEF MapThenSumSet, MapThenFoldSet
<1>4. g = [s \in SUBSET S |-> IF s = {} THEN 0 ELSE Amount(k, CHOOSE x \in s : TRUE) + g[s \ {CHOOSE x \in s : TRUE}]]
  BY <1>1, <1>2 DEF Adds, One
<1>5. F = [s \in SUBSET S |-> IF s = {} THEN 0 ELSE Amount(k, CHOOSE x \in s : TRUE) + F[s \ {CHOOSE x \in s : TRUE}]]
  BY <1>4
<1> HIDE DEF w, F
<1>6. Adds(F, SUBSET S, w)
  BY <1>2, <1>5 DEF Adds, One
<1>7. Adds(Total(k), SUBSET Calls, w)
  BY AddsExists, QuotaAssumption DEF Total, w
<1>8. QED
  BY <1>3, <1>6, <1>7, AddsAgree, QuotaAssumption

LEMMA TokensAre ==
  ASSUME NEW S \in SUBSET Calls
  PROVE  Tokens(S) = Total("tpm")[S]
<1> DEFINE w == AmountsOf("tpm")
           F == CHOOSE iter :
                  iter = [s \in SUBSET S |-> IF s = {} THEN 0 ELSE Cost[CHOOSE x \in s : TRUE] + iter[s \ {CHOOSE x \in s : TRUE}]]
<1>0. IsFiniteSet(S)
  BY SubsetCount, QuotaAssumption
<1>1. PICK g : Adds(g, SUBSET S, w)
  BY <1>0, AddsExists
<1>2. \A s \in SUBSET S : s # {} => w[One(s)] = Cost[CHOOSE x \in s : TRUE]
  BY DEF One, AmountsOf, Amount
<1>3. Tokens(S) = F[S]
  BY DEF Tokens, MapThenSumSet, MapThenFoldSet
<1>4. g = [s \in SUBSET S |-> IF s = {} THEN 0 ELSE Cost[CHOOSE x \in s : TRUE] + g[s \ {CHOOSE x \in s : TRUE}]]
  BY <1>1, <1>2 DEF Adds, One
<1>5. F = [s \in SUBSET S |-> IF s = {} THEN 0 ELSE Cost[CHOOSE x \in s : TRUE] + F[s \ {CHOOSE x \in s : TRUE}]]
  BY <1>4
<1> HIDE DEF w, F
<1>6. Adds(F, SUBSET S, w)
  BY <1>2, <1>5 DEF Adds, One
<1>7. Adds(Total("tpm"), SUBSET Calls, w)
  BY AddsExists, QuotaAssumption DEF Total, w
<1>8. QED
  BY <1>3, <1>6, <1>7, AddsAgree, QuotaAssumption

(* More calls never add up to less. *)
LEMMA TotalGrows ==
  ASSUME NEW k \in Counter, NEW S \in SUBSET Calls, NEW T \in SUBSET S
  PROVE  Total(k)[T] \in Nat /\ Total(k)[S] \in Nat /\ Total(k)[T] <= Total(k)[S]
<1> DEFINE G == Total(k)
           N == {n \in Nat : \A D \in SUBSET (S \ T) : Cardinality(D) <= n => G[T] <= G[T \cup D]}
<1>0. /\ \A R \in SUBSET Calls : G[R] \in Nat
      /\ \A R \in SUBSET Calls : \A c \in R : G[R] = Amount(k, c) + G[R \ {c}]
  BY TotalAdds
<1>1. \A D \in SUBSET (S \ T) : /\ IsFiniteSet(D) /\ Cardinality(D) \in Nat
                                /\ \A c \in D : Cardinality(D \ {c}) = Cardinality(D) - 1
  BY SubsetCount, FS_RemoveElement, QuotaAssumption
<1> HIDE DEF G
<1>2. 0 \in N
  <2>1. ASSUME NEW D \in SUBSET (S \ T), Cardinality(D) <= 0 PROVE G[T] <= G[T \cup D]
    <3>1. IsFiniteSet(D) /\ Cardinality(D) = 0
      BY <1>1, <2>1
    <3>2. T \cup D = T /\ T \in SUBSET Calls
      BY <3>1, FS_EmptySet
    <3>3. G[T] \in Nat
      BY <1>0, <3>2
    <3>4. QED
      BY <3>2, <3>3
  <2>2. QED
    BY <2>1
<1>3. ASSUME NEW n \in N PROVE n + 1 \in N
  <2>0. n \in Nat /\ \A D \in SUBSET (S \ T) : Cardinality(D) <= n => G[T] <= G[T \cup D]
    OBVIOUS
  <2>1. ASSUME NEW D \in SUBSET (S \ T), Cardinality(D) <= n + 1, NEW c \in D
        PROVE  G[T] <= G[T \cup D]
    <3>1. /\ D \ {c} \in SUBSET (S \ T) /\ Cardinality(D \ {c}) = Cardinality(D) - 1
          /\ Cardinality(D) \in Nat
      BY <1>1
    <3>2. Cardinality(D \ {c}) <= n
      BY <2>0, <2>1, <3>1
    <3>3. G[T] <= G[T \cup (D \ {c})]
      BY <2>0, <3>1, <3>2
    <3>4. T \cup D \in SUBSET Calls /\ T \in SUBSET Calls /\ c \in Calls /\ (T \cup D) \ {c} = T \cup (D \ {c})
      OBVIOUS
    <3>5. G[T \cup D] = Amount(k, c) + G[T \cup (D \ {c})]
      BY <1>0, <3>4
    <3>6. G[T] \in Nat /\ G[T \cup (D \ {c})] \in Nat /\ Amount(k, c) \in Nat
      BY <1>0, <3>4, AmountType
    <3>7. QED
      BY <3>3, <3>5, <3>6
  <2>2. \A D \in SUBSET (S \ T) : D = {} \/ \E c \in D : TRUE
    OBVIOUS
  <2>3. G[T] <= G[T \cup {}]
    <3>1. T \cup {} = T /\ G[T] \in Nat
      BY <1>0
    <3>2. QED
      BY <3>1
  <2>4. \A D \in SUBSET (S \ T) : Cardinality(D) <= n + 1 => G[T] <= G[T \cup D]
    BY <2>1, <2>2, <2>3
  <2>5. n + 1 \in Nat
    BY <2>0
  <2>6. QED
    BY <2>4, <2>5
<1> HIDE DEF N
<1>4. N = Nat
  BY <1>2, <1>3, AllNumbers DEF N
<1>5. /\ S \ T \in SUBSET (S \ T) /\ T \cup (S \ T) = S /\ Cardinality(S \ T) \in Nat
      /\ Cardinality(S \ T) <= Cardinality(S \ T)
  <2>1. S \ T \in SUBSET (S \ T) /\ T \cup (S \ T) = S
    OBVIOUS
  <2>2. Cardinality(S \ T) \in Nat
    BY <1>1, <2>1
  <2>3. QED
    BY <2>1, <2>2
<1>6. G[T] <= G[S]
  <2>1. Cardinality(S \ T) \in N
    BY <1>4, <1>5
  <2>2. QED
    BY <1>5, <2>1 DEF N
<1>7. T \in SUBSET Calls /\ S \in SUBSET Calls
  OBVIOUS
<1>8. QED
  BY <1>0, <1>6, <1>7 DEF G

-----------------------------------------------------------------------------
(* What each counter counts.  A call owes a counter its amount from the    *)
(* increment until it is taken back; the counter is at least what is owed, *)
(* and exactly that while nothing was disturbed.                           *)
Paid(k, c) ==
  \/ pc[c] = "granted"
  \/ k = "rpm" /\ pc[c] \in {"tpm", "rpd"}
  \/ k = "tpm" /\ pc[c] = "rpd"
Owes(k, c) == Paid(k, c) \/ Among(k, todo[c])
Own(k, c) == IF Owes(k, c) THEN Amount(k, c) ELSE 0

PaidTokens(t) == {c \in Calls \ Critical : Paid("tpm", c) /\ Period("tpm", at[c]) = t}
OwersIn(k, t) == {c \in Calls : Owes(k, c) /\ Period(k, at[c]) = t}
OwedIn(k, t) == Total(k)[OwersIn(k, t)]

OwedIsCounted == \A k \in Counter, t \in Time :
  OwedIn(k, t) <= counter[k][t] /\ (disruptions = 0 => OwedIn(k, t) = counter[k][t])
TokensFit == \A t \in Time : Total("tpm")[PaidTokens(t)] <= TpmLimit

KeptInv == TodoDistinct /\ OwedIsCounted /\ TokensFit

(* What the counter of k for time t should change by when c moves. *)
Gain(k, t, c) == IF t = Period(k, at[c]) THEN Own(k, c)' - Own(k, c) ELSE 0

LEMMA OwnType ==
  ASSUME NEW k \in Counter, NEW c \in Calls
  PROVE  Own(k, c) \in Nat /\ Own(k, c)' \in Nat /\ Amount(k, c) \in Nat
  BY AmountType DEF Own

LEMMA OwedType ==
  ASSUME NEW k \in Counter, NEW t
  PROVE  /\ OwersIn(k, t) \in SUBSET Calls /\ OwersIn(k, t)' \in SUBSET Calls
         /\ OwedIn(k, t) \in Nat /\ OwedIn(k, t)' \in Nat
<1>1. OwersIn(k, t) \in SUBSET Calls /\ OwersIn(k, t)' \in SUBSET Calls
  BY DEF OwersIn
<1>2. QED
  BY <1>1, TotalAdds DEF OwedIn

LEMMA OwedMoves ==
  ASSUME NEW c \in Calls, NEW k \in Counter, NEW t \in Time, UNCHANGED at,
         \A d \in Calls \ {c} : Owes(k, d)' => Owes(k, d)
  PROVE  /\ OwedIn(k, t)' <= OwedIn(k, t) + Gain(k, t, c)
         /\ (\A d \in Calls \ {c} : Owes(k, d)' <=> Owes(k, d)) =>
              OwedIn(k, t)' = OwedIn(k, t) + Gain(k, t, c)
<1> DEFINE Old == OwersIn(k, t)
           New == OwersIn(k, t)'
           G == Total(k)
<1>1. New = {d \in Calls : Owes(k, d)' /\ Period(k, at[d]) = t}
  BY DEF OwersIn
<1>2. Old = {d \in Calls : Owes(k, d) /\ Period(k, at[d]) = t}
  BY DEF OwersIn
<1>3. /\ New \ {c} \subseteq Old \ {c}
      /\ (\A d \in Calls \ {c} : Owes(k, d)' <=> Owes(k, d)) => New \ {c} = Old \ {c}
  BY <1>1, <1>2
<1>4. /\ Old \in SUBSET Calls /\ New \in SUBSET Calls
      /\ Old \ {c} \in SUBSET Calls /\ New \ {c} \in SUBSET Calls
  BY <1>1, <1>2
<1> DEFINE Mine(S) == IF c \in S THEN Amount(k, c) ELSE 0
<1>5. ASSUME NEW S \in SUBSET Calls PROVE G[S] = Mine(S) + G[S \ {c}]
  <2>1. CASE c \in S
    BY <2>1, TotalAdds
  <2>2. CASE c \notin S
    <3>1. S \ {c} = S /\ G[S] \in Nat
      BY <2>2, TotalAdds
    <3>2. QED
      BY <2>2, <3>1
  <2>3. QED
    BY <2>1, <2>2
<1>6. Mine(New) - Mine(Old) = Gain(k, t, c) /\ Mine(New) \in Nat /\ Mine(Old) \in Nat
  BY <1>1, <1>2, AmountType DEF Gain, Own
<1> HIDE DEF Old, New, Mine, G
<1>7. G[Old \ {c}] \in Nat /\ G[New \ {c}] \in Nat /\ G[New \ {c}] <= G[Old \ {c}]
  BY <1>3, <1>4, TotalGrows DEF G
<1>8. G[Old] = Mine(Old) + G[Old \ {c}] /\ G[New] = Mine(New) + G[New \ {c}]
  BY <1>4, <1>5
<1>9. Gain(k, t, c) \in Int
  BY <1>6
<1>10. /\ G[New] <= G[Old] + Gain(k, t, c)
       /\ G[New \ {c}] = G[Old \ {c}] => G[New] = G[Old] + Gain(k, t, c)
  BY <1>6, <1>7, <1>8, <1>9
<1>11. OwedIn(k, t) = G[Old] /\ OwedIn(k, t)' = G[New]
  BY DEF OwedIn, G, Old, New
<1>12. QED
  BY <1>3, <1>10, <1>11

(* A step of call c that was not disturbed, and one that was. *)
LEMMA OwedKept ==
  ASSUME TypeOK, TypeOK', OwedIsCounted, NEW c \in Calls, UNCHANGED <<at, disruptions>>,
         \A k \in Counter : \A d \in Calls \ {c} : Owes(k, d)' <=> Owes(k, d),
         \A k \in Counter, t \in Time : counter'[k][t] = counter[k][t] + Gain(k, t, c)
  PROVE  OwedIsCounted'
<1>1. ASSUME NEW k \in Counter, NEW t \in Time
      PROVE  OwedIn(k, t)' <= counter'[k][t] /\ (disruptions' = 0 => OwedIn(k, t)' = counter'[k][t])
  <2>1. OwedIn(k, t)' = OwedIn(k, t) + Gain(k, t, c)
    BY OwedMoves
  <2>2. OwedIn(k, t) \in Nat /\ counter[k][t] \in Int /\ Gain(k, t, c) \in Int
    BY OwedType, OwnType DEF TypeOK, Gain
  <2>3. OwedIn(k, t) <= counter[k][t] /\ (disruptions = 0 => OwedIn(k, t) = counter[k][t])
    BY DEF OwedIsCounted
  <2>4. counter'[k][t] = counter[k][t] + Gain(k, t, c)
    OBVIOUS
  <2>5. QED
    BY <2>1, <2>2, <2>3, <2>4
<1>2. QED
  BY <1>1 DEF OwedIsCounted

LEMMA OwedDisturbed ==
  ASSUME TypeOK, TypeOK', OwedIsCounted, NEW c \in Calls, UNCHANGED at, disruptions' # 0,
         \A k \in Counter : \A d \in Calls \ {c} : Owes(k, d)' => Owes(k, d),
         \A k \in Counter, t \in Time : counter'[k][t] >= counter[k][t] + Gain(k, t, c)
  PROVE  OwedIsCounted'
<1>1. ASSUME NEW k \in Counter, NEW t \in Time PROVE OwedIn(k, t)' <= counter'[k][t]
  <2>1. OwedIn(k, t)' <= OwedIn(k, t) + Gain(k, t, c)
    BY OwedMoves
  <2>2. /\ OwedIn(k, t) \in Nat /\ OwedIn(k, t)' \in Nat
        /\ counter[k][t] \in Int /\ counter'[k][t] \in Int /\ Gain(k, t, c) \in Int
    BY OwedType, OwnType DEF TypeOK, Gain
  <2>3. OwedIn(k, t) <= counter[k][t]
    BY DEF OwedIsCounted
  <2>4. counter'[k][t] >= counter[k][t] + Gain(k, t, c)
    OBVIOUS
  <2>5. QED
    BY <2>1, <2>2, <2>3, <2>4
<1>2. QED
  BY <1>1 DEF OwedIsCounted

LEMMA OwedStill ==
  ASSUME TypeOK, OwedIsCounted, UNCHANGED counter, disruptions' = 0 => disruptions = 0,
         \A k \in Counter, d \in Calls : (Owes(k, d)' <=> Owes(k, d)) /\ (Owes(k, d) => at'[d] = at[d])
  PROVE  OwedIsCounted'
<1>1. \A k \in Counter, t \in Time : OwersIn(k, t)' = OwersIn(k, t)
  BY DEF OwersIn
<1>2. \A k \in Counter, t \in Time : OwedIn(k, t)' = OwedIn(k, t)
  BY <1>1 DEF OwedIn
<1>3. QED
  BY <1>2 DEF OwedIsCounted

(* What a raised and a lowered counter gain. *)
LEMMA RaiseGains ==
  ASSUME TypeOK, NEW c \in Calls, NEW j \in Counter, counter' = Raised(j, c),
         \A k \in Counter : Own(k, c)' = Own(k, c) + (IF k = j THEN Amount(j, c) ELSE 0)
  PROVE  \A k \in Counter, t \in Time : counter'[k][t] = counter[k][t] + Gain(k, t, c)
<1>1. ASSUME NEW k \in Counter, NEW t \in Time
      PROVE  counter'[k][t] = counter[k][t] + Gain(k, t, c)
  <2>1. counter'[k][t] = counter[k][t] + (IF k = j /\ t = Period(j, at[c]) THEN Amount(j, c) ELSE 0)
    BY CounterOps
  <2>2. Own(k, c) \in Nat /\ Amount(j, c) \in Nat /\ counter[k][t] \in Int
    BY OwnType DEF TypeOK
  <2>3. QED
    BY <2>1, <2>2 DEF Gain
<1>2. QED
  BY <1>1

LEMMA LowerGains ==
  ASSUME TypeOK, NEW c \in Calls, NEW j \in Counter, counter' = Lowered(j, c),
         \A k \in Counter : Own(k, c)' = Own(k, c) - (IF k = j THEN Amount(j, c) ELSE 0)
  PROVE  \A k \in Counter, t \in Time : counter'[k][t] = counter[k][t] + Gain(k, t, c)
<1>1. ASSUME NEW k \in Counter, NEW t \in Time
      PROVE  counter'[k][t] = counter[k][t] + Gain(k, t, c)
  <2>1. counter'[k][t] = counter[k][t] - (IF k = j /\ t = Period(j, at[c]) THEN Amount(j, c) ELSE 0)
    BY CounterOps
  <2>2. Own(k, c) \in Nat /\ Amount(j, c) \in Nat /\ counter[k][t] \in Int
    BY OwnType DEF TypeOK
  <2>3. QED
    BY <2>1, <2>2 DEF Gain
<1>2. QED
  BY <1>1

(* The command under way when c is cut off costs no more than c owed. *)
LEMMA CutGains ==
  ASSUME TypeOK, NEW c \in Calls, pc[c] \in Holding, counter' \in {counter, AfterCommand(c)},
         \A k \in Counter : ~Owes(k, c)'
  PROVE  \A k \in Counter, t \in Time : counter'[k][t] >= counter[k][t] + Gain(k, t, c)
<1>1. ASSUME NEW k \in Counter, NEW t \in Time
      PROVE  counter'[k][t] >= counter[k][t] + Gain(k, t, c)
  <2>0. counter[k][t] \in Int /\ Own(k, c) \in Nat /\ Own(k, c)' = 0
    BY OwnType DEF TypeOK, Own
  <2>1. CASE counter' = counter
    BY <2>0, <2>1 DEF Gain
  <2>2. CASE counter' = AfterCommand(c) /\ pc[c] = "undo"
    <3> DEFINE h == Head(todo[c])
    <3>1. h \in Counter /\ Among(h, todo[c])
      <4>1. todo[c] \in Seq(Counter) /\ todo[c] # << >>
        BY <2>2 DEF TypeOK
      <4>2. h \in Counter /\ h = todo[c][1] /\ Len(todo[c]) \in Nat \ {0} /\ DOMAIN todo[c] = 1 .. Len(todo[c])
        BY <4>1, HeadTailProperties, LenProperties
      <4>3. QED
        BY <4>2 DEF Among
    <3>2. counter' = Lowered(h, c)
      BY <2>2 DEF AfterCommand
    <3>3. Own(h, c) = Amount(h, c) /\ Amount(h, c) \in Nat
      BY <3>1, AmountType DEF Own, Owes
    <3> HIDE DEF h
    <3>4. counter'[k][t] = counter[k][t] - (IF k = h /\ t = Period(h, at[c]) THEN Amount(h, c) ELSE 0)
      BY <3>1, <3>2, CounterOps
    <3>5. QED
      BY <2>0, <3>3, <3>4 DEF Gain
  <2>3. CASE counter' = AfterCommand(c) /\ pc[c] # "undo"
    <3>1. pc[c] \in Counter /\ counter' = Raised(pc[c], c) /\ Amount(pc[c], c) \in Nat
      BY <2>3, AmountType DEF AfterCommand, Holding
    <3>2. counter'[k][t] = counter[k][t] + (IF k = pc[c] /\ t = Period(pc[c], at[c]) THEN Amount(pc[c], c) ELSE 0)
      BY <3>1, CounterOps
    <3>3. QED
      BY <2>0, <3>1, <3>2 DEF Gain
  <2>4. QED
    BY <2>1, <2>2, <2>3
<1>2. QED
  BY <1>1

(* Tokens are paid only by calls that found room for them, or cost none. *)
LEMMA TokensStep ==
  ASSUME TypeOK', OwedIsCounted', TokensFit, NEW c \in Calls,
         \A t \in Time :
           \/ PaidTokens(t)' \ {c} \subseteq PaidTokens(t) /\ (c \in PaidTokens(t)' => c \in PaidTokens(t) \/ Amount("tpm", c) = 0)
           \/ counter'["tpm"][t] <= TpmLimit
  PROVE  TokensFit'
<1> DEFINE G == Total("tpm")
<1>0. "tpm" \in Counter /\ TpmLimit \in Nat
  BY QuotaAssumption DEF Counter
<1>1. ASSUME NEW t \in Time PROVE G[PaidTokens(t)'] <= TpmLimit
  <2>1. /\ PaidTokens(t) \in SUBSET Calls /\ PaidTokens(t)' \in SUBSET Calls
        /\ OwersIn("tpm", t)' \in SUBSET Calls /\ PaidTokens(t)' \subseteq OwersIn("tpm", t)'
    BY DEF PaidTokens, OwersIn, Owes
  <2>2. G[PaidTokens(t)] \in Nat /\ G[PaidTokens(t)'] \in Nat /\ G[PaidTokens(t)] <= TpmLimit
    BY <1>0, <2>1, TotalAdds DEF TokensFit
  <2>3. CASE counter'["tpm"][t] <= TpmLimit
    <3>1. G[PaidTokens(t)'] <= OwedIn("tpm", t)' /\ OwedIn("tpm", t)' \in Nat
      BY <1>0, <2>1, TotalGrows DEF OwedIn
    <3>2. OwedIn("tpm", t)' <= counter'["tpm"][t] /\ counter'["tpm"][t] \in Int
      BY <1>0 DEF OwedIsCounted, TypeOK
    <3>3. QED
      BY <1>0, <2>2, <2>3, <3>1, <3>2
  <2>4. CASE /\ PaidTokens(t)' \ {c} \subseteq PaidTokens(t)
             /\ c \in PaidTokens(t)' => c \in PaidTokens(t) \/ Amount("tpm", c) = 0
    <3>1. CASE PaidTokens(t)' \subseteq PaidTokens(t)
      <4>1. G[PaidTokens(t)'] <= G[PaidTokens(t)]
        BY <1>0, <2>1, <3>1, TotalGrows
      <4>2. QED
        BY <1>0, <2>2, <4>1
    <3>2. CASE c \in PaidTokens(t)' /\ Amount("tpm", c) = 0
      <4> DEFINE R == PaidTokens(t)' \ {c}
      <4>1. G[PaidTokens(t)'] = Amount("tpm", c) + G[R]
        BY <1>0, <2>1, <3>2, TotalAdds
      <4>2. G[R] \in Nat /\ G[R] <= G[PaidTokens(t)]
        BY <1>0, <2>1, <2>4, TotalGrows
      <4>3. QED
        BY <1>0, <2>2, <3>2, <4>1, <4>2
    <3>3. QED
      BY <2>4, <3>1, <3>2
  <2>5. QED
    BY <2>3, <2>4
<1>2. QED
  BY <1>1 DEF TokensFit

LEMMA TokensStill ==
  ASSUME TypeOK', OwedIsCounted', TokensFit, NEW c \in Calls,
         \A d \in Calls : Paid("tpm", d)' => Paid("tpm", d) /\ at'[d] = at[d]
  PROVE  TokensFit'
<1>1. \A t \in Time : PaidTokens(t)' \subseteq PaidTokens(t)
  BY DEF PaidTokens
<1>2. QED
  BY <1>1, TokensStep

LEMMA OthersSame ==
  ASSUME TypeOK, NEW c \in Calls, NEW to, NEW s,
         pc' = [pc EXCEPT ![c] = to], todo' = [todo EXCEPT ![c] = s]
  PROVE  /\ pc'[c] = to /\ todo'[c] = s
         /\ \A k \in Counter : \A d \in Calls \ {c} :
              (Owes(k, d)' <=> Owes(k, d)) /\ (Paid(k, d)' <=> Paid(k, d))
         /\ TodoDistinct /\ Distinct(s) => TodoDistinct'
<1>1. /\ pc'[c] = to /\ todo'[c] = s
      /\ \A d \in Calls \ {c} : pc'[d] = pc[d] /\ todo'[d] = todo[d]
  BY DEF TypeOK
<1>2. TodoDistinct /\ Distinct(s) => TodoDistinct'
  BY <1>1 DEF TodoDistinct
<1>3. QED
  BY <1>1, <1>2 DEF Owes, Paid

(* What a call owes at each place. *)
LEMMA OwesAt ==
  ASSUME NEW c \in Calls, NEW k \in Counter
  PROVE  /\ todo[c] = << >> =>
              /\ pc[c] = "granted" => Owes(k, c) /\ Paid(k, c)
              /\ pc[c] = "rpd" => ((Owes(k, c) <=> k # "rpd") /\ (Paid(k, c) <=> k # "rpd"))
              /\ pc[c] = "tpm" => ((Owes(k, c) <=> k = "rpm") /\ (Paid(k, c) <=> k = "rpm"))
              /\ pc[c] \notin {"granted", "rpd", "tpm"} => ~Owes(k, c) /\ ~Paid(k, c)
         /\ pc[c] = "undo" => ((Owes(k, c) <=> Among(k, todo[c])) /\ ~Paid(k, c))
<1>1. todo[c] = << >> => ~Among(k, todo[c])
  BY NothingAmong
<1>2. QED
  BY <1>1 DEF Owes, Paid, Counter

LEMMA OwesThen ==
  ASSUME NEW c \in Calls, NEW k \in Counter
  PROVE  /\ todo'[c] = << >> =>
              /\ pc'[c] = "granted" => Owes(k, c)' /\ Paid(k, c)'
              /\ pc'[c] = "rpd" => ((Owes(k, c)' <=> k # "rpd") /\ (Paid(k, c)' <=> k # "rpd"))
              /\ pc'[c] = "tpm" => ((Owes(k, c)' <=> k = "rpm") /\ (Paid(k, c)' <=> k = "rpm"))
              /\ pc'[c] \notin {"granted", "rpd", "tpm"} => ~Owes(k, c)' /\ ~Paid(k, c)'
         /\ pc'[c] = "undo" => ((Owes(k, c)' <=> Among(k, todo'[c])) /\ ~Paid(k, c)')
<1>1. todo'[c] = << >> => ~Among(k, todo'[c])
  BY NothingAmong
<1>2. QED
  BY <1>1 DEF Owes, Paid, Counter

LEMMA UndoNames ==
  ASSUME NEW j \in Counter, NEW c \in Calls, NEW k \in Counter
  PROVE  Among(k, Undo(j, c)) <=>
           \/ k = j
           \/ k = "rpm" /\ j \in {"tpm", "rpd"}
           \/ k = "tpm" /\ j = "rpd" /\ Cost[c] # 0
<1>1. CASE j = "rpm"
  BY <1>1 DEF Undo, Among, Counter
<1>2. CASE j = "tpm"
  BY <1>2 DEF Undo, Among, Counter
<1>3. CASE j = "rpd" /\ Cost[c] = 0
  BY <1>3 DEF Undo, Among, Counter
<1>4. CASE j = "rpd" /\ Cost[c] # 0
  BY <1>4 DEF Undo, Among, Counter
<1>5. QED
  BY <1>1, <1>2, <1>3, <1>4 DEF Counter

LEMMA KeptStep == TypeOK /\ TypeOK' /\ KeptInv /\ [Next]_vars => KeptInv'
<1> SUFFICES ASSUME TypeOK, TypeOK', KeptInv, [Next]_vars PROVE KeptInv'
  OBVIOUS
<1>0. TodoDistinct /\ OwedIsCounted /\ TokensFit
  BY DEF KeptInv
<1>1. CASE Tick \/ UNCHANGED vars
  <2>1. UNCHANGED <<pc, at, todo, counter, disruptions>>
    BY <1>1 DEF Tick, vars
  <2>2. \A k \in Counter, d \in Calls : (Owes(k, d)' <=> Owes(k, d)) /\ (Paid(k, d)' <=> Paid(k, d))
    BY <2>1 DEF Owes, Paid
  <2>3. TodoDistinct'
    BY <1>0, <2>1 DEF TodoDistinct
  <2>4. OwedIsCounted'
    BY <1>0, <2>1, <2>2, OwedStill
  <2>5. \A t \in Time : PaidTokens(t)' = PaidTokens(t)
    BY <2>1 DEF PaidTokens, Paid
  <2>6. TokensFit'
    BY <1>0, <2>5 DEF TokensFit
  <2>7. QED
    BY <2>3, <2>4, <2>6 DEF KeptInv
<1>2. ASSUME NEW c \in Calls, Ask(c) \/ RefuseAtOnce(c) \/ CancelWaiting(c) \/ Enter(c)
      PROVE  KeptInv'
  <2>1. /\ UNCHANGED <<todo, counter>> /\ pc[c] \in {"new", "waiting"}
        /\ \E to \in {"waiting", "refused", "cancelled", "rpm"} : pc' = [pc EXCEPT ![c] = to]
        /\ \A d \in Calls \ {c} : at'[d] = at[d]
        /\ disruptions' = disruptions \/ disruptions' = disruptions + 1
    BY <1>2 DEF Ask, RefuseAtOnce, CancelWaiting, Enter, TypeOK, Disturb
  <2>2. todo[c] = << >> /\ todo'[c] = << >>
    BY <2>1 DEF TypeOK
  <2>3. TodoDistinct'
    BY <1>0, <2>1 DEF TodoDistinct
  <2>4. pc'[c] \in {"waiting", "refused", "cancelled", "rpm"}
    BY <2>1 DEF TypeOK
  <2>5. ASSUME NEW k \in Counter PROVE ~Owes(k, c)' /\ ~Paid(k, c)' /\ ~Owes(k, c)
    BY <2>1, <2>2, <2>4, OwesAt, OwesThen
  <2>6. \A k \in Counter : \A d \in Calls \ {c} : (Owes(k, d)' <=> Owes(k, d)) /\ (Paid(k, d)' <=> Paid(k, d))
    BY <2>1, SameTodo, OthersSame
  <2>7. disruptions' = 0 => disruptions = 0
    BY <2>1 DEF TypeOK
  <2>8. OwedIsCounted'
    BY <1>0, <2>1, <2>5, <2>6, <2>7, OwedStill
  <2>9. TokensFit'
    BY <1>0, <2>1, <2>5, <2>6, <2>8, TokensStill DEF Counter
  <2>10. QED
    BY <2>3, <2>8, <2>9 DEF KeptInv
<1>3. ASSUME NEW c \in Calls, Count(c) PROVE KeptInv'
  <2>1. PICK j \in {"rpm", "tpm"} :
          /\ pc[c] = j /\ Fits(j, c) /\ counter' = Raised(j, c)
          /\ pc' = [pc EXCEPT ![c] = IF j = "rpm" /\ Cost[c] # 0 THEN "tpm" ELSE "rpd"]
          /\ UNCHANGED <<at, todo, disruptions>>
    BY <1>3 DEF Count
  <2>2. todo[c] = << >> /\ todo'[c] = << >> /\ j \in Counter
    BY <2>1 DEF TypeOK, Counter
  <2>3. TodoDistinct'
    BY <1>0, <2>1 DEF TodoDistinct
  <2>4. \A k \in Counter : \A d \in Calls \ {c} : (Owes(k, d)' <=> Owes(k, d)) /\ (Paid(k, d)' <=> Paid(k, d))
    BY <2>1, SameTodo, OthersSame
  <2>5. pc'[c] = IF j = "rpm" /\ Cost[c] # 0 THEN "tpm" ELSE "rpd"
    BY <2>1 DEF TypeOK
  <2>6. ASSUME NEW k \in Counter
        PROVE  Own(k, c)' = Own(k, c) + (IF k = j THEN Amount(j, c) ELSE 0)
    <3>0. Amount(k, c) \in Nat /\ Amount(j, c) \in Nat
      BY <2>2, AmountType
    <3>1. CASE j = "rpm" /\ Cost[c] # 0
      <4>1. (Owes(k, c)' <=> k = "rpm") /\ ~Owes(k, c)
        BY <2>1, <2>2, <2>5, <3>1, OwesAt, OwesThen
      <4>2. QED
        BY <3>0, <3>1, <4>1 DEF Own
    <3>2. CASE j = "rpm" /\ Cost[c] = 0
      <4>1. (Owes(k, c)' <=> k # "rpd") /\ ~Owes(k, c)
        BY <2>1, <2>2, <2>5, <3>2, OwesAt, OwesThen
      <4>2. k = "tpm" => Amount(k, c) = 0
        BY <3>2 DEF Amount
      <4>3. QED
        BY <3>0, <3>2, <4>1, <4>2 DEF Own, Counter
    <3>3. CASE j = "tpm"
      <4>1. (Owes(k, c)' <=> k # "rpd") /\ (Owes(k, c) <=> k = "rpm")
        BY <2>1, <2>2, <2>5, <3>3, OwesAt, OwesThen
      <4>2. QED
        BY <3>0, <3>3, <4>1 DEF Own, Counter
    <3>4. QED
      BY <2>1, <3>1, <3>2, <3>3
  <2>7. OwedIsCounted'
    <3>1. \A k \in Counter, t \in Time : counter'[k][t] = counter[k][t] + Gain(k, t, c)
      BY <2>1, <2>2, <2>6, RaiseGains
    <3>2. QED
      BY <1>0, <2>1, <2>4, <3>1, OwedKept
  <2>8. "tpm" \in Counter
    BY DEF Counter
  <2>9. ASSUME NEW t \in Time
        PROVE  \/ PaidTokens(t)' \ {c} \subseteq PaidTokens(t) /\ (c \in PaidTokens(t)' => c \in PaidTokens(t) \/ Amount("tpm", c) = 0)
               \/ counter'["tpm"][t] <= TpmLimit
    <3>1. PaidTokens(t)' \ {c} \subseteq PaidTokens(t)
      BY <2>1, <2>4, <2>8 DEF PaidTokens
    <3>2. ASSUME c \in PaidTokens(t)', Amount("tpm", c) # 0 PROVE counter'["tpm"][t] <= TpmLimit
      <4>1. c \notin Critical /\ t = Period("tpm", at[c]) /\ Paid("tpm", c)'
        BY <2>1, <3>2 DEF PaidTokens
      <4>2. pc'[c] = "rpd"
        BY <2>2, <2>5, <2>8, <4>1, OwesThen
      <4>3. j = "tpm"
        BY <2>1, <2>5, <3>2, <4>2 DEF Amount
      <4>4. counter[j][t] + Amount(j, c) <= Limit(j)
        BY <2>1, <4>1, <4>3 DEF Fits
      <4>5. counter'[j][t] = counter[j][t] + Amount(j, c)
        BY <2>1, <2>2, <4>1, <4>3, CounterOps
      <4>6. Limit(j) = TpmLimit
        BY <4>3 DEF Limit
      <4>7. QED
        BY <4>3, <4>4, <4>5, <4>6
    <3>3. QED
      BY <3>1, <3>2
  <2>10. TokensFit'
    BY <1>0, <2>7, <2>9, TokensStep
  <2>11. QED
    BY <2>3, <2>7, <2>10 DEF KeptInv
<1>4. ASSUME NEW c \in Calls, Grant(c) PROVE KeptInv'
  <2>1. /\ pc[c] = "rpd" /\ counter' = Raised("rpd", c) /\ UNCHANGED <<at, disruptions>>
        /\ pc' = [pc EXCEPT ![c] = "granted"] /\ todo' = [todo EXCEPT ![c] = << >>]
        /\ "rpd" \in Counter /\ "tpm" \in Counter
    BY <1>4 DEF Grant, Leave, Counter
  <2>2. todo[c] = << >> /\ todo'[c] = << >> /\ pc'[c] = "granted"
    BY <2>1, OthersSame DEF TypeOK
  <2>3. TodoDistinct'
    BY <1>0, <2>1, OthersSame, NothingAmong
  <2>4. \A k \in Counter : \A d \in Calls \ {c} : (Owes(k, d)' <=> Owes(k, d)) /\ (Paid(k, d)' <=> Paid(k, d))
    BY <2>1, OthersSame
  <2>5. ASSUME NEW k \in Counter
        PROVE  /\ Own(k, c)' = Own(k, c) + (IF k = "rpd" THEN Amount("rpd", c) ELSE 0)
               /\ k = "tpm" => (Paid(k, c)' <=> Paid(k, c))
    <3>1. Owes(k, c)' /\ Paid(k, c)' /\ (Owes(k, c) <=> k # "rpd") /\ (Paid(k, c) <=> k # "rpd")
      BY <2>1, <2>2, OwesAt, OwesThen
    <3>2. Amount(k, c) \in Nat
      BY AmountType
    <3>3. QED
      BY <3>1, <3>2 DEF Own
  <2>6. OwedIsCounted'
    <3>1. \A k \in Counter, t \in Time : counter'[k][t] = counter[k][t] + Gain(k, t, c)
      BY <2>1, <2>5, RaiseGains
    <3>2. QED
      BY <1>0, <2>1, <2>4, <3>1, OwedKept
  <2>7. TokensFit'
    BY <1>0, <2>1, <2>4, <2>5, <2>6, TokensStill
  <2>8. QED
    BY <2>3, <2>6, <2>7 DEF KeptInv
<1>5. ASSUME NEW c \in Calls, Exceed(c) PROVE KeptInv'
  <2>1. PICK j \in Counter :
          /\ pc[c] = j /\ counter' = Raised(j, c) /\ UNCHANGED <<at, disruptions>>
          /\ pc' = [pc EXCEPT ![c] = "undo"] /\ todo' = [todo EXCEPT ![c] = Undo(j, c)]
    BY <1>5 DEF Exceed
  <2>2. TodoDistinct'
    BY <1>0, <2>1, OthersSame, UndoShape
  <2>3. \A k \in Counter : \A d \in Calls \ {c} : (Owes(k, d)' <=> Owes(k, d)) /\ (Paid(k, d)' <=> Paid(k, d))
    BY <2>1, OthersSame
  <2>4. pc'[c] = "undo" /\ todo'[c] = Undo(j, c) /\ todo[c] = << >>
    BY <2>1, OthersSame DEF TypeOK, Counter
  <2>5. ASSUME NEW k \in Counter
        PROVE  /\ Own(k, c)' = Own(k, c) + (IF k = j THEN Amount(j, c) ELSE 0)
               /\ ~Paid(k, c)'
    <3>0. /\ Amount(k, c) \in Nat /\ Amount(j, c) \in Nat
          /\ k = "tpm" /\ Cost[c] = 0 => Amount(k, c) = 0
      BY AmountType DEF Amount
    <3>1. /\ ~Paid(k, c)'
          /\ Owes(k, c)' <=> \/ k = j
                             \/ k = "rpm" /\ j \in {"tpm", "rpd"}
                             \/ k = "tpm" /\ j = "rpd" /\ Cost[c] # 0
      BY <2>4, UndoNames, OwesThen
    <3>2. /\ j = "rpm" => ~Owes(k, c)
          /\ j = "tpm" => (Owes(k, c) <=> k = "rpm")
          /\ j = "rpd" => (Owes(k, c) <=> k # "rpd")
      BY <2>1, <2>4, OwesAt
    <3>3. QED
      BY <3>0, <3>1, <3>2 DEF Own, Counter
  <2>6. OwedIsCounted'
    <3>1. \A k \in Counter, t \in Time : counter'[k][t] = counter[k][t] + Gain(k, t, c)
      BY <2>1, <2>5, RaiseGains
    <3>2. QED
      BY <1>0, <2>1, <2>3, <3>1, OwedKept
  <2>7. TokensFit'
    BY <1>0, <2>1, <2>3, <2>5, <2>6, TokensStill DEF Counter
  <2>8. QED
    BY <2>2, <2>6, <2>7 DEF KeptInv
<1>6. ASSUME NEW c \in Calls, TakeBack(c) \/ Refuse(c) PROVE KeptInv'
  <2> DEFINE h == Head(todo[c])
             r == IF Len(todo[c]) > 1 THEN Tail(todo[c]) ELSE << >>
             to == IF Len(todo[c]) > 1 THEN "undo" ELSE "refused"
  <2>1. /\ pc[c] = "undo" /\ counter' = Lowered(h, c) /\ UNCHANGED <<at, disruptions>>
        /\ todo' = [todo EXCEPT ![c] = r] /\ pc' = [pc EXCEPT ![c] = to]
        /\ todo[c] \in Seq(Counter) /\ todo[c] # << >> /\ Distinct(todo[c])
    <3>1. pc[c] = "undo" /\ todo[c] \in Seq(Counter) /\ todo[c] # << >> /\ Distinct(todo[c])
      BY <1>0, <1>6 DEF TakeBack, Refuse, TypeOK, TodoDistinct
    <3>2. CASE TakeBack(c)
      BY <3>1, <3>2 DEF TakeBack, TypeOK
    <3>3. CASE Refuse(c)
      BY <3>1, <3>3 DEF Refuse, Leave
    <3>4. QED
      BY <1>6, <3>1, <3>2, <3>3
  <2>2. /\ h \in Counter /\ Among(h, todo[c]) /\ Distinct(Tail(todo[c])) /\ Distinct(<< >>)
        /\ ~Among(h, Tail(todo[c])) /\ \A k : ~Among(k, << >>)
        /\ \A k \in Counter : k # h => (Among(k, r) <=> Among(k, todo[c]))
    <3>1. /\ h \in Counter /\ Tail(todo[c]) \in Seq(Counter) /\ h = todo[c][1]
          /\ Len(todo[c]) \in Nat \ {0} /\ Len(Tail(todo[c])) = Len(todo[c]) - 1
          /\ \A i \in 1 .. Len(Tail(todo[c])) : Tail(todo[c])[i] = todo[c][i + 1]
      BY <2>1, HeadTailProperties, LenProperties
    <3>2. DOMAIN todo[c] = 1 .. Len(todo[c]) /\ DOMAIN Tail(todo[c]) = 1 .. Len(Tail(todo[c]))
      BY <2>1, <3>1, LenProperties
    <3>3. ASSUME NEW k \in Counter, k # h, Among(k, todo[c]) PROVE Among(k, r)
      <4>1. PICK i \in 1 .. Len(todo[c]) : todo[c][i] = k
        BY <3>2, <3>3 DEF Among
      <4>2. i # 1 /\ i - 1 \in 1 .. Len(Tail(todo[c])) /\ Len(todo[c]) > 1
        BY <3>1, <3>3, <4>1
      <4>3. Tail(todo[c])[i - 1] = k
        BY <3>1, <4>1, <4>2
      <4>4. QED
        BY <3>2, <4>2, <4>3 DEF Among
    <3>4. QED
      BY <2>1, <3>3, TailShape, NothingAmong
  <2> HIDE DEF h
  <2>3. Distinct(r) /\ ~Among(h, r)
    BY <2>2
  <2> HIDE DEF r
  <2>4. TodoDistinct'
    BY <1>0, <2>1, <2>3, OthersSame
  <2>5. \A k \in Counter : \A d \in Calls \ {c} : (Owes(k, d)' <=> Owes(k, d)) /\ (Paid(k, d)' <=> Paid(k, d))
    BY <2>1, OthersSame
  <2>6. todo'[c] = r /\ pc'[c] = to /\ (pc'[c] = "refused" => r = << >>)
    BY <2>1, OthersSame DEF r
  <2>7. ASSUME NEW k \in Counter
        PROVE  /\ Own(k, c)' = Own(k, c) - (IF k = h THEN Amount(h, c) ELSE 0)
               /\ ~Paid(k, c)'
    <3>0. Amount(k, c) \in Nat /\ Amount(h, c) \in Nat
      BY <2>2, AmountType
    <3>1. Owes(k, c) <=> Among(k, todo[c])
      BY <2>1, OwesAt
    <3>2. ~Paid(k, c)' /\ (Owes(k, c)' <=> Among(k, r))
      <4>1. CASE pc'[c] = "undo"
        BY <2>6, <4>1, OwesThen
      <4>2. CASE pc'[c] = "refused"
        BY <2>2, <2>6, <4>2, OwesThen
      <4>3. QED
        BY <2>6, <4>1, <4>2
    <3>3. QED
      BY <2>2, <2>3, <3>0, <3>1, <3>2 DEF Own
  <2> HIDE DEF to
  <2>8. OwedIsCounted'
    <3>1. \A k \in Counter, t \in Time : counter'[k][t] = counter[k][t] + Gain(k, t, c)
      BY <2>1, <2>2, <2>7, LowerGains
    <3>2. QED
      BY <1>0, <2>1, <2>5, <3>1, OwedKept
  <2>9. TokensFit'
    BY <1>0, <2>1, <2>5, <2>7, <2>8, TokensStill DEF Counter
  <2>10. QED
    BY <2>4, <2>8, <2>9 DEF KeptInv
<1>7. ASSUME NEW c \in Calls, RedisFails(c) \/ Cancel(c) PROVE KeptInv'
  <2>1. /\ pc[c] \in Holding /\ UNCHANGED at /\ counter' \in {counter, AfterCommand(c)}
        /\ disruptions' = disruptions + 1
        /\ \E end \in {"local", "cancelled"} :
             pc' = [pc EXCEPT ![c] = end] /\ todo' = [todo EXCEPT ![c] = << >>]
    BY <1>7 DEF RedisFails, Cancel, Leave, Disturb
  <2>2. TodoDistinct'
    BY <1>0, <2>1, OthersSame, NothingAmong
  <2>3. \A k \in Counter : \A d \in Calls \ {c} : (Owes(k, d)' <=> Owes(k, d)) /\ (Paid(k, d)' <=> Paid(k, d))
    BY <2>1, OthersSame
  <2>4. todo'[c] = << >> /\ pc'[c] \in {"local", "cancelled"}
    BY <2>1, OthersSame
  <2>5. \A k \in Counter : ~Owes(k, c)' /\ ~Paid(k, c)'
    BY <2>4, OwesThen
  <2>6. disruptions' # 0
    BY <2>1 DEF TypeOK
  <2>7. OwedIsCounted'
    <3>1. \A k \in Counter, t \in Time : counter'[k][t] >= counter[k][t] + Gain(k, t, c)
      BY <2>1, <2>5, CutGains
    <3>2. QED
      BY <1>0, <2>1, <2>3, <2>6, <3>1, OwedDisturbed
  <2>8. TokensFit'
    BY <1>0, <2>1, <2>3, <2>5, <2>7, TokensStill DEF Counter
  <2>9. QED
    BY <2>2, <2>7, <2>8 DEF KeptInv
<1>8. ASSUME NEW p \in Processes, Restart(p) PROVE KeptInv'
  <2>1. /\ UNCHANGED at /\ disruptions' = disruptions + 1
        /\ \A d \in Calls : pc'[d] = "cancelled" \/ pc'[d] = pc[d]
        /\ \A d \in Calls : todo'[d] = << >> \/ todo'[d] = todo[d]
    BY <1>8 DEF Restart, Disturb
  <2>2. TodoDistinct'
    BY <1>0, <2>1, NothingAmong DEF TodoDistinct
  <2>3. \A k \in Counter, d \in Calls : (Owes(k, d)' => Owes(k, d)) /\ (Paid(k, d)' => Paid(k, d))
    BY <2>1, NothingAmong DEF Owes, Paid
  <2>4. disruptions' # 0
    BY <2>1 DEF TypeOK
  <2>5. CASE counter' = counter
    <3>1. ASSUME NEW k \in Counter, NEW t \in Time PROVE OwedIn(k, t)' <= counter'[k][t]
      <4>1. OwersIn(k, t)' \in SUBSET OwersIn(k, t) /\ OwersIn(k, t) \in SUBSET Calls
        BY <2>1, <2>3 DEF OwersIn
      <4>2. OwedIn(k, t)' <= OwedIn(k, t) /\ OwedIn(k, t)' \in Nat /\ OwedIn(k, t) \in Nat
        BY <4>1, TotalGrows DEF OwedIn
      <4>3. OwedIn(k, t) <= counter[k][t] /\ counter[k][t] \in Int
        BY <1>0 DEF OwedIsCounted, TypeOK
      <4>4. QED
        BY <2>5, <4>2, <4>3
    <3>2. OwedIsCounted'
      BY <2>4, <3>1 DEF OwedIsCounted
    <3>3. TokensFit'
      <4>1. \A t \in Time : PaidTokens(t)' \in SUBSET PaidTokens(t) /\ PaidTokens(t) \in SUBSET Calls
        BY <2>1, <2>3 DEF PaidTokens, Counter
      <4>2. ASSUME NEW t \in Time PROVE Total("tpm")[PaidTokens(t)'] <= TpmLimit
        <5>1. "tpm" \in Counter /\ TpmLimit \in Nat /\ Total("tpm")[PaidTokens(t)] <= TpmLimit
          BY <1>0, QuotaAssumption DEF Counter, TokensFit
        <5>2. /\ Total("tpm")[PaidTokens(t)'] \in Nat /\ Total("tpm")[PaidTokens(t)] \in Nat
              /\ Total("tpm")[PaidTokens(t)'] <= Total("tpm")[PaidTokens(t)]
          BY <4>1, <5>1, TotalGrows
        <5>3. QED
          BY <5>1, <5>2
      <4>3. QED
        BY <4>2 DEF TokensFit
    <3>4. QED
      BY <2>2, <3>2, <3>3 DEF KeptInv
  <2>6. CASE lock[p] # NoCall /\ counter' = AfterCommand(lock[p])
    <3>1. lock[p] \in Calls /\ Home[lock[p]] = p /\ pc[lock[p]] \in Holding
      BY <2>6, QuotaAssumption DEF TypeOK
    <3>2. pc'[lock[p]] = "cancelled" /\ todo'[lock[p]] = << >>
      BY <1>8, <3>1 DEF Restart
    <3>3. ASSUME NEW c \in Calls, c = lock[p] PROVE KeptInv'
      <4>1. pc[c] \in Holding /\ counter' = AfterCommand(c) /\ pc'[c] = "cancelled" /\ todo'[c] = << >>
        BY <2>6, <3>1, <3>2, <3>3
      <4>2. \A k \in Counter : ~Owes(k, c)' /\ ~Paid(k, c)'
        BY <4>1, OwesThen
      <4>3. OwedIsCounted'
        <5>1. \A k \in Counter, t \in Time : counter'[k][t] >= counter[k][t] + Gain(k, t, c)
          BY <4>1, <4>2, CutGains
        <5>2. QED
          BY <1>0, <2>1, <2>3, <2>4, <5>1, OwedDisturbed
      <4>4. TokensFit'
        BY <1>0, <2>1, <2>3, <4>3, TokensStill DEF Counter
      <4>5. QED
        BY <2>2, <4>3, <4>4 DEF KeptInv
    <3>4. QED
      BY <3>1, <3>3
  <2>7. QED
    BY <1>8, <2>5, <2>6 DEF Restart
<1>9. QED
  BY <1>1, <1>2, <1>3, <1>4, <1>5, <1>6, <1>7, <1>8, NextCases DEF Moves, Leaves

(* The shared counters keep their promise both ways, however the calls of  *)
(* the processes interleave (_redis_check_and_record): never too many      *)
(* tokens granted to calls that are held to the limit, and no trace left   *)
(* by a call that was refused.                                             *)
THEOREM SharedCountersKept == Spec => []CountersKept
<1>1. Init => KeptInv
  <2> SUFFICES ASSUME Init PROVE KeptInv
    OBVIOUS
  <2>1. \A k \in Counter, c \in Calls : ~Owes(k, c) /\ ~Paid(k, c)
    BY NothingAmong DEF Init, Owes, Paid
  <2>2. \A k \in Counter, t \in Time : OwersIn(k, t) = {} /\ PaidTokens(t) = {}
    BY <2>1 DEF OwersIn, PaidTokens, Counter
  <2>3. \A k \in Counter, t \in Time : counter[k][t] = 0 /\ OwedIn(k, t) = 0
    BY <2>2, TotalAdds DEF Init, OwedIn
  <2>4. \A t \in Time : Total("tpm")[PaidTokens(t)] = 0
    BY <2>2, TotalAdds DEF Counter
  <2>5. OwedIsCounted /\ TokensFit
    BY <2>3, <2>4, QuotaAssumption DEF OwedIsCounted, TokensFit
  <2>6. TodoDistinct
    BY NothingAmong DEF Init, TodoDistinct
  <2>7. QED
    BY <2>5, <2>6 DEF KeptInv
<1>2. TypeOK /\ TypeOK' /\ KeptInv /\ [Next]_vars => KeptInv'
  BY KeptStep
<1>3. TypeOK /\ KeptInv => CountersKept
  <2> SUFFICES ASSUME TypeOK, KeptInv PROVE CountersKept
    OBVIOUS
  <2>1. ASSUME NEW t \in Time PROVE Tokens(Granted("tpm", t) \ Critical) <= TpmLimit
    <3>1. /\ Granted("tpm", t) \ Critical \in SUBSET PaidTokens(t)
          /\ PaidTokens(t) \in SUBSET Calls /\ Granted("tpm", t) \ Critical \in SUBSET Calls
      BY DEF Granted, PaidTokens, Paid
    <3>2. "tpm" \in Counter /\ TpmLimit \in Nat /\ Total("tpm")[PaidTokens(t)] <= TpmLimit
      BY QuotaAssumption DEF Counter, KeptInv, TokensFit
    <3>3. /\ Total("tpm")[Granted("tpm", t) \ Critical] \in Nat /\ Total("tpm")[PaidTokens(t)] \in Nat
          /\ Total("tpm")[Granted("tpm", t) \ Critical] <= Total("tpm")[PaidTokens(t)]
      BY <3>1, <3>2, TotalGrows
    <3>4. Tokens(Granted("tpm", t) \ Critical) = Total("tpm")[Granted("tpm", t) \ Critical]
      BY <3>1, TokensAre
    <3>5. QED
      BY <3>2, <3>3, <3>4
  <2>2. ASSUME disruptions = 0, \A c \in Calls : pc[c] \notin Holding, NEW k \in Counter, NEW t \in Time
        PROVE  counter[k][t] = MapThenSumSet(LAMBDA c : Amount(k, c), Granted(k, t))
    <3>1. ASSUME NEW c \in Calls PROVE Owes(k, c) <=> pc[c] = "granted"
      <4>1. pc[c] \notin Holding /\ todo[c] = << >>
        BY <2>2 DEF TypeOK, Holding
      <4>2. QED
        BY <4>1, OwesAt DEF Holding, Counter
    <3>2. OwersIn(k, t) = Granted(k, t) /\ Granted(k, t) \in SUBSET Calls
      BY <3>1 DEF OwersIn, Granted
    <3>3. counter[k][t] = OwedIn(k, t)
      BY <2>2 DEF KeptInv, OwedIsCounted
    <3>4. MapThenSumSet(LAMBDA c : Amount(k, c), Granted(k, t)) = Total(k)[Granted(k, t)]
      BY <3>2, LibrarySum
    <3>5. QED
      BY <3>2, <3>3, <3>4 DEF OwedIn
  <2>3. QED
    BY <2>1, <2>2 DEF CountersKept, TokensRespected, CountersSettle
<1>4. QED
  BY <1>1, <1>2, <1>3, TypeCorrect, PTL DEF Spec

-----------------------------------------------------------------------------
(* Calls of language models *)

Busy == {"guard", "wait", "post"}

(* A call that is about to ask a model has one to ask. *)
HasCandidate == \A c \in Callers : stage[c] \in Busy => pick[c] <= Len(Candidates)

ModelInv == ModelTypeOK /\ HasCandidate

LEMMA ModelConstants ==
  /\ Len(Candidates) \in Nat \ {0} /\ DOMAIN Candidates = 1 .. Len(Candidates)
  /\ Threshold \in Nat \ {0} /\ Probes \in Nat \ {0} /\ Recovery \in Nat \ {0} /\ Share \in Nat \ {0}
  /\ Span \in Nat \ {0} /\ Tries \in Nat \ {0} /\ Requests \in Nat \ {0}
BY ModelAssumption DEF ModelAssumption

BreakerType == [state : {"CLOSED", "OPEN", "HALF_OPEN"}, failures : 0 .. Threshold - 1,
                successes : 0 .. Probes - 1, cooling : 0 .. Recovery]

LEMMA BreakerStays ==
  ASSUME NEW b \in BreakerType
  PROVE  Seen(b) \in BreakerType /\ Success(b) \in BreakerType /\ Failure(b) \in BreakerType
<1>1. Seen(b) \in BreakerType
  BY DEF Seen, BreakerType
<1>2. Success(b) \in BreakerType
  <2>1. CASE b.state # "HALF_OPEN"
    <3>1. 0 \in 0 .. Threshold - 1
      BY ModelConstants
    <3>2. Success(b) = [b EXCEPT !.failures = 0]
      BY <2>1 DEF Success
    <3>3. QED
      BY <3>1, <3>2 DEF BreakerType
  <2>2. CASE b.state = "HALF_OPEN" /\ b.successes + 1 < Probes
    <3>1. b.successes + 1 \in 0 .. Probes - 1 /\ 0 \in 0 .. Threshold - 1
      BY <2>2, ModelConstants DEF BreakerType
    <3>2. Success(b) = [b EXCEPT !.failures = 0, !.successes = b.successes + 1]
      BY <2>2 DEF Success
    <3>3. QED
      BY <3>1, <3>2 DEF BreakerType
  <2>3. CASE b.state = "HALF_OPEN" /\ ~(b.successes + 1 < Probes)
    <3>1. 0 \in 0 .. Probes - 1 /\ 0 \in 0 .. Threshold - 1
      BY ModelConstants
    <3>2. Success(b) = [b EXCEPT !.state = "CLOSED", !.failures = 0, !.successes = 0]
      BY <2>3 DEF Success
    <3>3. QED
      BY <3>1, <3>2 DEF BreakerType
  <2>4. QED
    BY <2>1, <2>2, <2>3
<1>3. Failure(b) \in BreakerType
  <2>1. CASE b.state = "CLOSED" /\ b.failures + 1 < Threshold
    <3>1. b.failures + 1 \in 0 .. Threshold - 1
      BY <2>1, ModelConstants DEF BreakerType
    <3>2. Failure(b) = [b EXCEPT !.failures = b.failures + 1]
      BY <2>1 DEF Failure
    <3>3. QED
      BY <3>1, <3>2 DEF BreakerType
  <2>2. CASE ~(b.state = "CLOSED" /\ b.failures + 1 < Threshold)
    <3>1. Recovery \in 0 .. Recovery /\ 0 \in 0 .. Threshold - 1
      BY ModelConstants
    <3>2. Failure(b) = [b EXCEPT !.state = "OPEN", !.failures = 0, !.cooling = Recovery]
      BY <2>2 DEF Failure
    <3>3. QED
      BY <3>1, <3>2 DEF BreakerType
  <2>3. QED
    BY <2>1, <2>2
<1>4. QED
  BY <1>1, <1>2, <1>3

LEMMA ModelIsCandidate ==
  ASSUME ModelInv, NEW c \in Callers, pick[c] <= Len(Candidates)
  PROVE  Model(c) \in Models
BY ModelConstants DEF ModelInv, ModelTypeOK, Model, Models

LEMMA AgeTypes ==
  ASSUME ModelTypeOK, Age
  PROVE  spent' \in Seq(Ages) /\ Len(spent') <= Len(spent)
<1>1. PICK gone \in 0 .. Used :
        /\ \A i \in 1 .. Used : i <= gone <=> spent[i] = Span - 1
        /\ spent' = [i \in 1 .. Used - gone |-> spent[i + gone] + 1]
  BY DEF Age
<1>2. Used = Len(spent) /\ Used \in Nat /\ Used - gone \in Nat
  BY DEF Used, ModelTypeOK
<1>3. ASSUME NEW i \in 1 .. Used - gone PROVE spent[i + gone] + 1 \in Ages
  <2>1. i + gone \in 1 .. Used /\ ~(i + gone <= gone)
    BY <1>2
  <2>2. spent[i + gone] \in Ages /\ spent[i + gone] # Span - 1
    BY <1>1, <1>2, <2>1 DEF ModelTypeOK
  <2>3. QED
    BY <2>2, ModelConstants DEF Ages
<1>4. spent' \in Seq(Ages)
  <2>1. spent' \in [1 .. Used - gone -> Ages]
    BY <1>1, <1>3
  <2>2. QED
    BY <1>2, <2>1
<1>5. Len(spent') = Used - gone
  BY <1>1, <1>2
<1>6. QED
  BY <1>2, <1>4, <1>5

LEMMA RecordTypes ==
  ASSUME ModelTypeOK, RecordCall
  PROVE  spent' \in Seq(Ages) /\ Len(spent') = Len(spent) + 1
<1>1. 0 \in Ages
  BY ModelConstants DEF Ages
<1>2. QED
  BY <1>1 DEF ModelTypeOK, RecordCall

LEMMA TwoRecords ==
  ASSUME ModelTypeOK, spent' = spent \o <<0, 0>>
  PROVE  spent' \in Seq(Ages) /\ Len(spent') = Len(spent) + 2 /\ spent'[Len(spent')] = 0
<1>1. 0 \in Ages /\ spent \in Seq(Ages)
  BY ModelConstants DEF Ages, ModelTypeOK
<1>2. <<0, 0>> \in Seq(Ages) /\ Len(<<0, 0>>) = 2
  BY <1>1
<1>3. QED
  BY <1>1, <1>2

LEMMA ModelInvInit == ModelInit => ModelInv
<1> SUFFICES ASSUME ModelInit PROVE ModelInv
  OBVIOUS
<1>1. 0 \in 0 .. Threshold - 1 /\ 0 \in 0 .. Probes - 1 /\ 0 \in 0 .. Recovery /\ 0 \in 0 .. Tries - 1
      /\ 0 \in 0 .. Probes /\ 1 \in 1 .. Len(Candidates) + 1
  BY ModelConstants
<1>2. spent \in Seq(Ages)
  BY DEF ModelInit
<1>3. QED
  BY <1>1, <1>2, ModelConstants DEF ModelInit, ModelInv, ModelTypeOK, HasCandidate, Busy

-----------------------------------------------------------------------------
(* The three ways in which a call goes on *)

LEMMA FinishInv ==
  ASSUME ModelInv, NEW c \in Callers, Finish(c),
         breaker' \in [Models -> BreakerType], proofs' \in [Models -> 0 .. Probes], spent' \in Seq(Ages),
         echo' \in 0 .. Span
  PROVE  ModelInv'
BY ModelConstants DEF ModelInv, ModelTypeOK, HasCandidate, Busy, Finish, To, BreakerType

LEMMA PassInv ==
  ASSUME ModelInv, NEW c \in Callers, Pass(c), pick[c] <= Len(Candidates),
         breaker' \in [Models -> BreakerType], proofs' \in [Models -> 0 .. Probes], spent' \in Seq(Ages),
         echo' \in 0 .. Span
  PROVE  ModelInv'
<1>1. pick[c] + 1 \in 1 .. Len(Candidates) + 1
  BY ModelConstants DEF ModelInv, ModelTypeOK
<1>2. QED
  BY <1>1, ModelConstants DEF ModelInv, ModelTypeOK, HasCandidate, Busy, Pass, To, BreakerType

LEMMA ToInv ==
  ASSUME ModelInv, NEW c \in Callers, NEW s \in {"turn", "consider", "light", "lightPost"} \cup Busy, To(c, s),
         s \in Busy => pick[c] <= Len(Candidates), UNCHANGED <<pick, proofs, spent, echo>>,
         tries' \in [Callers -> 0 .. Tries - 1], breaker' \in [Models -> BreakerType]
  PROVE  ModelInv'
BY DEF ModelInv, ModelTypeOK, HasCandidate, Busy, To, BreakerType

LEMMA Unchanged ==
  ASSUME ModelInv
  PROVE  /\ breaker \in [Models -> BreakerType] /\ proofs \in [Models -> 0 .. Probes]
         /\ spent \in Seq(Ages) /\ tries \in [Callers -> 0 .. Tries - 1] /\ echo \in 0 .. Span
BY DEF ModelInv, ModelTypeOK, BreakerType

LEMMA ModelCallInv ==
  ASSUME ModelInv, NEW c \in Callers, Begin(c) \/ ModelStep(c) \/ Post(c) \/ TakeTurn(c) \/ CancelCall(c),
         proofs' \in [Models -> 0 .. Probes]
  PROVE  ModelInv'
<1>1. CASE Begin(c) \/ Post(c) \/ TakeTurn(c) \/ LightRetry(c)
  <2>1. PICK s \in {"turn", "consider", "post", "light", "lightPost"} :
          To(c, s) /\ (s = "post" => stage[c] = "wait")
    BY <1>1 DEF Begin, Post, TakeTurn, LightRetry
  <2>2. UNCHANGED <<pick, tries, breaker, proofs, spent, echo>>
    BY <1>1 DEF Begin, Post, TakeTurn, LightRetry
  <2>3. s \in Busy => pick[c] <= Len(Candidates)
    BY <2>1 DEF ModelInv, HasCandidate, Busy
  <2>4. QED
    BY <2>1, <2>2, <2>3, ToInv, Unchanged DEF Busy
<1>2. CASE RunOut(c) \/ CancelCall(c) \/ LightEnds(c)
  BY <1>2, FinishInv, Unchanged DEF RunOut, CancelCall, LightEnds
<1>3. CASE AskGuard(c)
  <2>1. pick[c] <= Len(Candidates)
    BY <1>3 DEF AskGuard, ModelInv, HasCandidate, Busy
  <2>2. CASE Pass(c)
    BY <1>3, <2>1, <2>2, PassInv, Unchanged DEF AskGuard
  <2>3. CASE To(c, "wait") /\ UNCHANGED <<pick, tries>>
    BY <1>3, <2>1, <2>3, ToInv, Unchanged DEF AskGuard, Busy
  <2>4. QED
    BY <1>3, <2>2, <2>3 DEF AskGuard
<1>4. CASE Consider(c)
  <2>1. pick[c] <= Len(Candidates) /\ UNCHANGED <<proofs, spent, echo>>
    BY <1>4 DEF Consider
  <2>2. breaker' \in [Models -> BreakerType]
    BY <1>4, <2>1, ModelIsCandidate, BreakerStays, Unchanged DEF Consider
  <2>3. Pass(c) \/ (To(c, "guard") /\ UNCHANGED <<pick, tries>>)
    BY <1>4 DEF Consider
  <2>4. QED
    BY <2>1, <2>2, <2>3, PassInv, ToInv, Unchanged DEF Busy
<1>5. CASE Answered(c)
  <2>1. pick[c] <= Len(Candidates)
    BY <1>5 DEF Answered, ModelInv, HasCandidate, Busy
  <2>2. breaker' \in [Models -> BreakerType]
    BY <1>5, <2>1, ModelIsCandidate, BreakerStays, Unchanged DEF Answered
  <2>3. QED
    BY <1>5, <2>2, FinishInv, Unchanged DEF Answered
<1>6. CASE TryAgain(c)
  <2>1. tries[c] + 1 \in 0 .. Tries - 1
    BY <1>6, ModelConstants DEF TryAgain, ModelInv, ModelTypeOK
  <2>2. tries' \in [Callers -> 0 .. Tries - 1]
    BY <1>6, <2>1, Unchanged DEF TryAgain
  <2>3. pick[c] <= Len(Candidates)
    BY <1>6 DEF TryAgain, ModelInv, HasCandidate, Busy
  <2>4. QED
    BY <1>6, <2>2, <2>3, ToInv, Unchanged DEF TryAgain, Busy
<1>7. CASE CallFails(c)
  <2>1. pick[c] <= Len(Candidates)
    BY <1>7 DEF CallFails, ModelInv, HasCandidate, Busy
  <2>2. breaker' \in [Models -> BreakerType]
    BY <1>7, <2>1, ModelIsCandidate, BreakerStays, Unchanged DEF CallFails
  <2>3. QED
    BY <1>7, <2>1, <2>2, PassInv, Unchanged DEF CallFails
<1>8. CASE CheckShare(c)
  <2>1. Pass(c) \/ (To(c, "guard") /\ UNCHANGED <<pick, tries>>)
    BY <1>8 DEF CheckShare
  <2>2. QED
    BY <1>8, <2>1, PassInv, ToInv, Unchanged DEF CheckShare, Busy
<1>9. CASE Written(c) \/ WriteFails(c)
  <2>1. pick[c] <= Len(Candidates)
    BY <1>9 DEF Written, WriteFails, ModelInv, HasCandidate, Busy
  <2>2. spent' \in Seq(Ages) /\ echo' \in 0 .. Span
    <3>1. ModelTypeOK /\ echo \in 0 .. Span /\ Span \in 0 .. Span
      BY Unchanged, ModelConstants DEF ModelInv
    <3>2. \/ RecordCall /\ echo' = echo
          \/ spent' = spent \o <<0, 0>> /\ echo' = Span
      BY <1>9 DEF Written, WriteFails
    <3>3. QED
      BY <3>1, <3>2, RecordTypes, TwoRecords
  <2>3. QED
    BY <1>9, <2>1, <2>2, FinishInv, PassInv, Unchanged DEF Written, WriteFails
<1>10. CASE NotRecorded(c)
  <2>1. pick[c] <= Len(Candidates)
    BY <1>10 DEF NotRecorded, ModelInv, HasCandidate, Busy
  <2>2. QED
    BY <1>10, <2>1, FinishInv, PassInv, Unchanged DEF NotRecorded
<1>11. QED
  BY <1>1, <1>2, <1>3, <1>4, <1>5, <1>6, <1>7, <1>8, <1>9, <1>10 DEF ModelStep

LEMMA ModelTickInv == ModelInv /\ ModelTick => ModelInv'
<1> SUFFICES ASSUME ModelInv, ModelTick PROVE ModelInv'
  OBVIOUS
<1>1. spent' \in Seq(Ages)
  BY AgeTypes DEF ModelTick, ModelInv
<1>2. breaker' \in [Models -> BreakerType]
  <2>1. ASSUME NEW m \in Models
        PROVE  [breaker[m] EXCEPT !.cooling = IF @ > 0 THEN @ - 1 ELSE 0] \in BreakerType
    <3>1. breaker[m] \in BreakerType
      BY Unchanged
    <3>2. (IF breaker[m].cooling > 0 THEN breaker[m].cooling - 1 ELSE 0) \in 0 .. Recovery
      BY <3>1, ModelConstants DEF BreakerType
    <3>3. QED
      BY <3>1, <3>2 DEF BreakerType
  <2>2. QED
    BY <2>1 DEF ModelTick
<1>3. echo' \in 0 .. Span
  BY Unchanged, ModelConstants DEF ModelTick
<1>4. QED
  BY <1>1, <1>2, <1>3 DEF ModelTick, ModelInv, ModelTypeOK, HasCandidate, BreakerType

-----------------------------------------------------------------------------
(* The breaker *)

(* The breaker's own count is that of the half-open successes, and a       *)
(* closed one starts from none.                                            *)
CountIsKept ==
  \A m \in Models :
    /\ proofs[m] = breaker[m].successes
    /\ breaker[m].state = "CLOSED" => proofs[m] = 0

BreakerInv == ModelInv /\ CountIsKept

(* What the three operations do to a breaker. *)
LEMMA SeenKeeps ==
  ASSUME NEW b \in BreakerType
  PROVE  /\ Seen(b).successes = b.successes
         /\ Seen(b).state = "CLOSED" <=> b.state = "CLOSED"
         /\ b.state = "HALF_OPEN" => Seen(b) = b
BY DEF Seen, BreakerType

LEMMA FailureKeeps ==
  ASSUME NEW b \in BreakerType
  PROVE  /\ Failure(b).successes = b.successes
         /\ Failure(b).state = "CLOSED" => b.state = "CLOSED"
BY DEF Failure, BreakerType

LEMMA SuccessCounts ==
  ASSUME NEW b \in BreakerType
  PROVE  /\ b.state # "HALF_OPEN" => Success(b).state = b.state /\ Success(b).successes = b.successes
         /\ b.state = "HALF_OPEN" /\ Success(b).state # "CLOSED" =>
              Success(b).state = "HALF_OPEN" /\ Success(b).successes = b.successes + 1
         /\ b.state = "HALF_OPEN" /\ Success(b).state = "CLOSED" =>
              Success(b).successes = 0 /\ b.successes + 1 >= Probes
<1>1. CASE b.state # "HALF_OPEN"
  BY <1>1 DEF Success, BreakerType
<1>2. CASE b.state = "HALF_OPEN" /\ b.successes + 1 < Probes
  BY <1>2 DEF Success, BreakerType
<1>3. CASE b.state = "HALF_OPEN" /\ ~(b.successes + 1 < Probes)
  BY <1>3, ModelConstants DEF Success, BreakerType
<1>4. QED
  BY <1>1, <1>2, <1>3

(* The history counts a success in the state it finds. *)
LEMMA AnsweredCounts ==
  ASSUME BreakerInv, NEW c \in Callers, Answered(c)
  PROVE  /\ proofs' \in [Models -> 0 .. Probes]
         /\ CountIsKept'
         /\ \A m \in Models : breaker[m].state = "HALF_OPEN" /\ breaker'[m].state = "CLOSED"
                                => proofs[m] + 1 >= Probes
<1> DEFINE m == Model(c)
<1>1. m \in Models
  BY ModelIsCandidate DEF Answered, BreakerInv, ModelInv, HasCandidate, Busy
<1>2. breaker \in [Models -> BreakerType] /\ proofs \in [Models -> 0 .. Probes]
  BY Unchanged DEF BreakerInv
<1>3. breaker'[m] = Success(breaker[m]) /\ \A k \in Models : k # m => breaker'[k] = breaker[k]
  BY <1>1, <1>2 DEF Answered
<1>4. proofs' = [proofs EXCEPT ![m] = IF breaker'[m].state = "CLOSED" THEN 0
                                      ELSE IF breaker[m].state = "HALF_OPEN" THEN proofs[m] + 1
                                      ELSE proofs[m]]
  BY DEF Answered
<1> HIDE DEF m
<1>5. breaker[m] \in BreakerType /\ proofs[m] = breaker[m].successes /\ proofs[m] \in 0 .. Probes - 1
      /\ (breaker[m].state = "CLOSED" => proofs[m] = 0)
  BY <1>1, <1>2 DEF BreakerInv, CountIsKept, BreakerType
<1>6. proofs'[m] \in 0 .. Probes /\ proofs'[m] = breaker'[m].successes
      /\ (breaker'[m].state = "CLOSED" => proofs'[m] = 0)
  <2>1. CASE breaker'[m].state = "CLOSED"
    BY <1>1, <1>2, <1>3, <1>4, <1>5, <2>1, SuccessCounts, ModelConstants
  <2>2. CASE breaker'[m].state # "CLOSED" /\ breaker[m].state = "HALF_OPEN"
    BY <1>1, <1>2, <1>3, <1>4, <1>5, <2>2, SuccessCounts, ModelConstants
  <2>3. CASE breaker'[m].state # "CLOSED" /\ breaker[m].state # "HALF_OPEN"
    BY <1>1, <1>2, <1>3, <1>4, <1>5, <2>3, SuccessCounts, ModelConstants
  <2>4. QED
    BY <2>1, <2>2, <2>3
<1>7. \A k \in Models : k # m => proofs'[k] = proofs[k]
  BY <1>2, <1>4
<1>8. proofs' \in [Models -> 0 .. Probes]
  BY <1>1, <1>2, <1>4, <1>6
<1>9. CountIsKept'
  BY <1>3, <1>6, <1>7 DEF BreakerInv, CountIsKept
<1>10. \A k \in Models : breaker[k].state = "HALF_OPEN" /\ breaker'[k].state = "CLOSED"
                           => proofs[k] + 1 >= Probes
  BY <1>3, <1>5, SuccessCounts
<1>11. QED
  BY <1>8, <1>9, <1>10

(* No other step closes a breaker, or touches the counts. *)
LEMMA OthersDoNotClose ==
  ASSUME BreakerInv, [ModelNext]_modelVars, ~ \E c \in Callers : Answered(c)
  PROVE  /\ proofs' = proofs
         /\ \A m \in Models : /\ breaker'[m].successes = breaker[m].successes
                              /\ breaker'[m].state = "CLOSED" => breaker[m].state = "CLOSED"
<1>0. breaker \in [Models -> BreakerType]
  BY Unchanged DEF BreakerInv
<1>1. ASSUME NEW c \in Callers, Consider(c) \/ CallFails(c)
      PROVE  /\ proofs' = proofs
             /\ \A m \in Models : /\ breaker'[m].successes = breaker[m].successes
                                  /\ breaker'[m].state = "CLOSED" => breaker[m].state = "CLOSED"
  <2>1. CASE Consider(c)
    BY <1>0, <2>1, SeenKeeps DEF Consider
  <2>2. CASE CallFails(c)
    BY <1>0, <2>2, FailureKeeps DEF CallFails
  <2>3. QED
    BY <1>1, <2>1, <2>2
<1>2. ASSUME NEW c \in Callers,
             Begin(c) \/ RunOut(c) \/ AskGuard(c) \/ TryAgain(c) \/ CheckShare(c) \/ Written(c)
               \/ WriteFails(c) \/ NotRecorded(c) \/ Post(c) \/ TakeTurn(c) \/ CancelCall(c)
               \/ LightRetry(c) \/ LightEnds(c)
      PROVE  proofs' = proofs /\ breaker' = breaker
  BY <1>2 DEF Begin, RunOut, AskGuard, TryAgain, CheckShare, Written, WriteFails, NotRecorded, Post,
              TakeTurn, CancelCall, LightRetry, LightEnds
<1>3. CASE ModelTick
  <2>1. ASSUME NEW m \in Models
        PROVE  breaker'[m].successes = breaker[m].successes /\ breaker'[m].state = breaker[m].state
    <3>1. breaker[m] \in BreakerType
      BY <1>0
    <3>2. QED
      BY <1>3, <3>1 DEF ModelTick, BreakerType
  <2>2. QED
    BY <1>3, <2>1 DEF ModelTick
<1>4. CASE UNCHANGED modelVars
  BY <1>4 DEF modelVars
<1>5. QED
  BY <1>1, <1>2, <1>3, <1>4 DEF ModelNext, ModelStep

LEMMA BreakerStep ==
  ASSUME BreakerInv, [ModelNext]_modelVars
  PROVE  /\ BreakerInv'
         /\ \A m \in Models : breaker[m].state = "HALF_OPEN" /\ breaker'[m].state = "CLOSED"
                                => proofs[m] + 1 >= Probes
<1>1. proofs' \in [Models -> 0 .. Probes]
  BY AnsweredCounts, OthersDoNotClose, Unchanged DEF BreakerInv
<1>2. ModelInv'
  <2>1. CASE UNCHANGED modelVars
    BY <2>1 DEF BreakerInv, ModelInv, ModelTypeOK, HasCandidate, modelVars
  <2>2. QED
    BY <1>1, <2>1, ModelCallInv, ModelTickInv DEF BreakerInv, ModelNext
<1>3. CASE \E c \in Callers : Answered(c)
  BY <1>2, <1>3, AnsweredCounts DEF BreakerInv
<1>4. CASE ~ \E c \in Callers : Answered(c)
  BY <1>2, <1>4, OthersDoNotClose DEF BreakerInv, CountIsKept
<1>5. QED
  BY <1>3, <1>4

LEMMA BreakerInvInit == ModelInit => BreakerInv
BY ModelInvInit DEF ModelInit, BreakerInv, CountIsKept

-----------------------------------------------------------------------------
(* The shares *)

Aside == {"idle", "turn"}

(* One synthesis at a time is past its turn, and once it has passed the    *)
(* check there is room for its call.                                       *)
OneAtATime ==
  \A c, d \in Writers : stage[c] \notin Aside /\ stage[d] \notin Aside => c = d
RoomForCall ==
  \A c \in Writers : stage[c] \in Busy => Len(spent) < Share

(* The record too many is the newest one: nothing has been recorded since, *)
(* so that it leaves when its echo ends.                                   *)
SurplusIsNew == Len(spent) > Share => echo > 0 /\ spent[Len(spent)] = Span - echo

ShareInv == OneAtATime /\ RoomForCall /\ ShareRespected /\ SurplusIsNew

LEMMA WriterGoesOn ==
  ASSUME BreakerInv, ShareInv, NEW c \in Callers, spent' = spent, echo' = echo,
         NEW s \in {"idle", "turn", "consider", "light", "lightPost"} \cup Busy, To(c, s),
         s \notin Aside => stage[c] \notin Aside \/ c \notin Writers \/ \A d \in Writers : stage[d] \in Aside,
         s \in Busy => stage[c] \in Busy \/ c \notin Writers \/ Len(spent) < Share
  PROVE  ShareInv'
<1>1. \A d \in Callers : stage'[d] = IF d = c THEN s ELSE stage[d]
  BY DEF To, BreakerInv, ModelInv, ModelTypeOK
<1>2. Writers \subseteq Callers
  BY DEF Callers
<1>3. OneAtATime'
  BY <1>1, <1>2 DEF OneAtATime, ShareInv
<1>4. RoomForCall'
  BY <1>1, <1>2 DEF RoomForCall, ShareInv
<1>5. ShareRespected' /\ SurplusIsNew'
  BY DEF ShareRespected, SurplusIsNew, Used, ShareInv
<1>6. QED
  BY <1>3, <1>4, <1>5 DEF ShareInv

LEMMA RecordFits ==
  ASSUME BreakerInv, ShareInv, NEW c \in Writers, stage[c] = "post",
         \/ RecordCall /\ echo' = echo
         \/ spent' = spent \o <<0, 0>> /\ echo' = Span,
         NEW s \in {"idle", "consider"}, To(c, s)
  PROVE  ShareInv'
<1>1. \A d \in Callers : stage'[d] = IF d = c THEN s ELSE stage[d]
  BY DEF To, BreakerInv, ModelInv, ModelTypeOK
<1>2. Writers \subseteq Callers
  BY DEF Callers
<1>3. OneAtATime'
  BY <1>1, <1>2 DEF OneAtATime, ShareInv, Aside
<1>4. \A d \in Writers : stage'[d] \notin Busy
  BY <1>1, <1>2 DEF OneAtATime, ShareInv, Aside, Busy
<1>5. Len(spent) < Share /\ Len(spent) \in Nat /\ echo \in Nat
  BY Unchanged, ModelConstants DEF ShareInv, RoomForCall, Busy, BreakerInv, ModelInv, ModelTypeOK
<1>6. ShareRespected' /\ SurplusIsNew'
  <2>1. CASE RecordCall /\ echo' = echo
    <3>1. Len(spent') = Len(spent) + 1
      BY <2>1, RecordTypes DEF BreakerInv, ModelInv
    <3>2. QED
      BY <1>5, <2>1, <3>1, ModelConstants DEF ShareRespected, SurplusIsNew, Used
  <2>2. CASE spent' = spent \o <<0, 0>> /\ echo' = Span
    <3>1. Len(spent') = Len(spent) + 2 /\ spent'[Len(spent')] = 0
      BY <2>2, TwoRecords DEF BreakerInv, ModelInv
    <3>2. QED
      BY <1>5, <2>2, <3>1, ModelConstants DEF ShareRespected, SurplusIsNew, Used
  <2>3. QED
    BY <2>1, <2>2
<1>7. QED
  BY <1>3, <1>4, <1>6 DEF ShareInv, RoomForCall

(* A tick: either the newest record leaves and all with it, or it is one   *)
(* tick older, as its echo is one tick shorter.                            *)
LEMMA ShareTick ==
  ASSUME BreakerInv, ShareInv, ModelTick
  PROVE  ShareInv'
<1>1. PICK gone \in 0 .. Used :
        /\ \A i \in 1 .. Used : i <= gone <=> spent[i] = Span - 1
        /\ spent' = [i \in 1 .. Used - gone |-> spent[i + gone] + 1]
  BY DEF ModelTick, Age
<1>2. /\ Used \in Nat /\ Used = Len(spent) /\ gone \in Nat /\ Used - gone \in Nat
      /\ echo \in 0 .. Span /\ spent \in Seq(Ages)
  BY Unchanged DEF Used, BreakerInv, ModelInv, ModelTypeOK
<1>3. Len(spent') = Used - gone
  BY <1>1, <1>2
<1>4. OneAtATime'
  BY DEF ModelTick, OneAtATime, ShareInv
<1>5. RoomForCall'
  BY <1>2, <1>3, ModelConstants DEF ModelTick, RoomForCall, ShareInv
<1>6. echo' = IF echo > 0 THEN echo - 1 ELSE 0
  BY DEF ModelTick
<1>7. ShareRespected' /\ SurplusIsNew'
  <2>1. CASE Len(spent') <= Share
    BY <1>2, <1>3, <1>6, <2>1, ModelConstants DEF ShareRespected, SurplusIsNew, Used
  <2>2. CASE Len(spent') > Share
    <3>1. Used > Share /\ Used \in 1 .. Used
      BY <1>2, <1>3, <2>2, ModelConstants
    <3>2. echo > 0 /\ spent[Used] = Span - echo /\ Used <= Share + 1
      BY <1>2, <3>1 DEF ShareInv, SurplusIsNew, ShareRespected, Used
    <3>3. gone = 0
      BY <1>2, <1>3, <2>2, <3>2, ModelConstants
    <3>4. spent[Used] # Span - 1
      BY <1>1, <3>1, <3>3
    <3>5. echo > 1 /\ echo' = echo - 1 /\ echo' > 0
      BY <1>2, <1>6, <3>2, <3>4, ModelConstants
    <3>6. spent'[Used] = spent[Used] + 1 /\ Len(spent') = Used
      BY <1>1, <1>2, <1>3, <3>1, <3>3
    <3>7. spent'[Len(spent')] = Span - echo'
      BY <1>2, <3>2, <3>5, <3>6, ModelConstants
    <3>8. QED
      BY <1>2, <3>2, <3>5, <3>6, <3>7, ModelConstants DEF ShareRespected, SurplusIsNew, Used
  <2>3. QED
    BY <1>2, <1>3, <2>1, <2>2, ModelConstants
<1>8. QED
  BY <1>4, <1>5, <1>7 DEF ShareInv

LEMMA ShareStep == BreakerInv /\ ShareInv /\ [ModelNext]_modelVars => ShareInv'
<1> SUFFICES ASSUME BreakerInv, ShareInv, [ModelNext]_modelVars PROVE ShareInv'
  OBVIOUS
<1> USE DEF Aside, Busy
<1>1. ASSUME NEW c \in Callers, Begin(c) \/ ModelStep(c) \/ Post(c) \/ TakeTurn(c) \/ CancelCall(c)
      PROVE  ShareInv'
  <2>0. c \in Reasoners => c \notin Writers
    BY ModelAssumption DEF ModelAssumption
  <2>1. CASE Begin(c)
    <3>1. PICK s \in {"turn", "consider"} : To(c, s) /\ (s = "consider" => c \notin Writers)
      BY <2>1 DEF Begin
    <3>2. QED
      BY <2>1, <3>1, WriterGoesOn DEF Begin
  <2>2. CASE TakeTurn(c)
    BY <2>2, WriterGoesOn DEF TakeTurn
  <2>3. CASE Post(c)
    BY <2>3, WriterGoesOn DEF Post
  <2>4. CASE RunOut(c) \/ CancelCall(c) \/ LightEnds(c)
    BY <2>4, WriterGoesOn DEF RunOut, CancelCall, LightEnds, Finish
  <2>5. CASE AskGuard(c)
    <3>1. PICK s \in {"wait", "consider"} : To(c, s)
      BY <2>5 DEF AskGuard, Pass
    <3>2. QED
      BY <2>5, <3>1, WriterGoesOn DEF AskGuard
  <2>6. CASE Consider(c) \/ Answered(c) \/ TryAgain(c) \/ CallFails(c)
    <3>1. PICK s \in {"idle", "consider", "guard", "wait"} : To(c, s)
      BY <2>6 DEF Consider, Answered, TryAgain, CallFails, Pass, Finish
    <3>2. c \in Reasoners /\ spent' = spent /\ echo' = echo
      BY <2>6 DEF Consider, Answered, TryAgain, CallFails
    <3>3. QED
      BY <2>0, <3>1, <3>2, WriterGoesOn
  <2>7. CASE CheckShare(c)
    <3>1. PICK s \in {"guard", "consider"} : To(c, s) /\ (s = "guard" => Len(spent) < Share)
      BY <2>7 DEF CheckShare, Pass, Used
    <3>2. QED
      BY <2>7, <3>1, WriterGoesOn DEF CheckShare
  <2>8. CASE Written(c) \/ WriteFails(c)
    BY <2>8, RecordFits DEF Written, WriteFails, Finish, Pass
  <2>9. CASE NotRecorded(c)
    <3>1. PICK s \in {"idle", "consider"} : To(c, s)
      BY <2>9 DEF NotRecorded, Pass, Finish
    <3>2. QED
      BY <2>9, <3>1, WriterGoesOn DEF NotRecorded
  <2>10. CASE LightRetry(c)
    BY <2>10, WriterGoesOn DEF LightRetry
  <2>11. QED
    BY <1>1, <2>1, <2>2, <2>3, <2>4, <2>5, <2>6, <2>7, <2>8, <2>9, <2>10 DEF ModelStep
<1>2. CASE UNCHANGED modelVars
  BY <1>2 DEF modelVars, ShareInv, OneAtATime, RoomForCall, ShareRespected, SurplusIsNew, Used
<1>3. QED
  BY <1>1, <1>2, ShareTick DEF ModelNext

(* Every reachable state of the calls of models is well typed: no breaker  *)
(* counts beyond its limits, no call asks a candidate that is not there.   *)
THEOREM ModelTypeCorrect == ModelSpec => []ModelTypeOK
<1>1. BreakerInv => ModelTypeOK
  BY DEF BreakerInv, ModelInv
<1>2. BreakerInv /\ [ModelNext]_modelVars => BreakerInv'
  BY BreakerStep
<1>3. QED
  BY <1>1, <1>2, BreakerInvInit, PTL DEF ModelSpec

(* For any number of callers, candidates and half-open calls in flight: a  *)
(* breaker closes only after Probes successes found it half-open.          *)
THEOREM ClosingsAreEarned == ModelSpec => ClosingIsEarned
<1>1. BreakerInv /\ [ModelNext]_modelVars => BreakerInv'
  BY BreakerStep
<1>2. BreakerInv /\ [ModelNext]_modelVars =>
        [\A m \in Models : breaker[m].state = "HALF_OPEN" /\ breaker'[m].state = "CLOSED"
                             => proofs[m] + 1 >= Probes]_modelVars
  BY BreakerStep
<1>3. QED
  BY <1>1, <1>2, BreakerInvInit, PTL DEF ModelSpec, ClosingIsEarned

(* For any number of syntheses and any share: check and record are two     *)
(* sections, and yet no more is recorded in a minute than the share and,   *)
(* while a call that was recorded twice stands in the window, one.         *)
THEOREM SharesAreRespected == ModelSpec => []ShareRespected
<1>1. ModelInit => ShareInv
  BY ModelConstants DEF ModelInit, ShareInv, OneAtATime, RoomForCall, ShareRespected, SurplusIsNew,
                        Used, Callers, Aside, Busy
<1>2. BreakerInv /\ [ModelNext]_modelVars => BreakerInv'
  BY BreakerStep
<1>3. ShareInv => ShareRespected
  BY DEF ShareInv
<1>4. QED
  BY <1>1, <1>2, <1>3, BreakerInvInit, ShareStep, PTL DEF ModelSpec
=============================================================================
