--------------------------- MODULE Custody_proofs ----------------------------
(***************************************************************************)
(* Proofs about the chain of custody, for any agents, calls and poison,    *)
(* any bounds on the WAL, and any number of failures.                      *)
(***************************************************************************)
EXTENDS CustodyChain, FiniteSetTheorems, SequenceTheorems, TLAPS

-----------------------------------------------------------------------------
(* What the sequence operations on the WAL return.                         *)
LEMMA WalOps ==
  ASSUME NEW S, NEW w \in Seq(S)
  PROVE  /\ \A x \in S : Append(w, x) \in Seq(S) /\ <<x>> \o w \in Seq(S)
         /\ w # <<>> => Head(w) \in S /\ Tail(w) \in Seq(S)
         /\ \A n \in Nat : n <= Len(w) => SubSeq(w, 1, n) \in Seq(S)
<1>1. \A x \in S : Append(w, x) \in Seq(S) /\ <<x>> \o w \in Seq(S)
  OBVIOUS
<1>2. w # <<>> => Head(w) \in S /\ Tail(w) \in Seq(S)
  BY HeadTailProperties
<1>3. \A n \in Nat : n <= Len(w) => SubSeq(w, 1, n) \in Seq(S)
  OBVIOUS
<1>4. QED
  BY <1>1, <1>2, <1>3

(* The push of an entry and the cut by the cap leave a sequence.           *)
LEMMA PushedType ==
  ASSUME CustodyAssumption, CustodyTypeOK, NEW c \in Entries, Pushed(c)
  PROVE  wal' \in Seq(Entries) /\ overflow' \in Nat
<1> DEFINE w == Append(wal, c)
<1>1. w \in Seq(Entries) /\ Len(w) \in Nat
  BY WalOps DEF CustodyTypeOK
<1>2. CASE wal' = w /\ UNCHANGED overflow
  BY <1>1, <1>2 DEF CustodyTypeOK
<1>3. CASE Len(w) > WalCap /\ wal' = SubSeq(w, 1, WalCap) /\ overflow' = overflow + (Len(w) - WalCap)
  <2>1. WalCap \in Nat /\ WalCap <= Len(w)
    BY <1>1, <1>3 DEF CustodyAssumption
  <2>2. SubSeq(w, 1, WalCap) \in Seq(Entries)
    BY <1>1, <2>1, WalOps
  <2>3. overflow' \in Nat
    BY <1>1, <1>3, <2>1 DEF CustodyTypeOK
  <2>4. QED
    BY <1>3, <2>2, <2>3
<1>4. QED
  BY <1>2, <1>3 DEF Pushed

-----------------------------------------------------------------------------
(* CustodyTypeOK in three parts: the locks, what the flushes hold, and     *)
(* the rest.                                                               *)
LockPart ==
  /\ step \in [Entries -> {"new"} \cup Active \cup Closed]
  /\ chainLock \in [Agents -> Entries \cup {None}]
  /\ \A c \in Entries : step[c] \in Active <=> chainLock[AgentOf[c]] = c

HeldPart ==
  /\ held \in [Entries -> Entries \cup {None}]
  /\ \A c \in Entries : step[c] \in {"replaying", "restoring"} <=> held[c] # None

DataPart ==
  /\ logClock \in Nat /\ stamp \in [Entries -> 0 .. logClock]
  /\ prior \in [Entries -> Entries \cup {None}]
  /\ table \subseteq Entries /\ dead \subseteq Entries
  /\ wal \in Seq(Entries)
  /\ popped \in [Entries -> 0 .. FlushBatch]
  /\ dbFaults \in 0 .. MaxDbFaults /\ failures \in 0 .. MaxFailures
  /\ overflow \in Nat

LEMMA TypeParts == CustodyTypeOK <=> LockPart /\ HeldPart /\ DataPart
  BY DEF CustodyTypeOK, LockPart, HeldPart, DataPart

(* A call that goes on keeps its lock, one that starts takes a free one,   *)
(* and one that ends leaves it.                                            *)
LEMMA MoveKeepsLocks ==
  ASSUME CustodyAssumption, LockPart, NEW c \in Entries,
         NEW from \in Active, NEW to \in Active, Move(c, from, to), UNCHANGED chainLock
  PROVE  LockPart'
  BY DEF LockPart, Move, Active, CustodyAssumption

LEMMA StartKeepsLocks ==
  ASSUME CustodyAssumption, LockPart, NEW c \in Entries, Start(c)
  PROVE  LockPart'
<1>1. AgentOf[c] \in Agents /\ c # None /\ chainLock[AgentOf[c]] = None /\ step[c] = "new"
  BY DEF CustodyAssumption, Start, Move
<1>2. step' \in [Entries -> {"new"} \cup Active \cup Closed] /\ chainLock' \in [Agents -> Entries \cup {None}]
  BY <1>1 DEF LockPart, Start, Move, Active
<1>3. ASSUME NEW d \in Entries PROVE step'[d] \in Active <=> chainLock'[AgentOf[d]] = d
  <2>1. CASE d = c
    BY <1>1, <2>1 DEF LockPart, Start, Move, Active
  <2>2. CASE d # c /\ AgentOf[d] = AgentOf[c]
    BY <1>1, <2>2 DEF LockPart, Start, Move, CustodyAssumption
  <2>3. CASE AgentOf[d] # AgentOf[c]
    BY <1>1, <2>3 DEF LockPart, Start, Move, CustodyAssumption
  <2>4. QED
    BY <2>1, <2>2, <2>3
<1>4. QED
  BY <1>2, <1>3 DEF LockPart

LEMMA EndKeepsLocks ==
  ASSUME CustodyAssumption, LockPart, NEW c \in Entries,
         NEW from \in Active, NEW to \in Closed, End(c, from, to)
  PROVE  LockPart'
<1>1. AgentOf[c] \in Agents /\ c # None /\ chainLock[AgentOf[c]] = c /\ step[c] = from
  BY DEF CustodyAssumption, LockPart, End, Move
<1>2. step' \in [Entries -> {"new"} \cup Active \cup Closed] /\ chainLock' \in [Agents -> Entries \cup {None}]
  BY <1>1 DEF LockPart, End, Move
<1>3. ASSUME NEW d \in Entries PROVE step'[d] \in Active <=> chainLock'[AgentOf[d]] = d
  <2>1. CASE d = c
    BY <1>1, <2>1 DEF LockPart, End, Move, Active, Closed
  <2>2. CASE d # c /\ AgentOf[d] = AgentOf[c]
    BY <1>1, <2>2 DEF LockPart, End, Move, CustodyAssumption
  <2>3. CASE AgentOf[d] # AgentOf[c]
    BY <1>1, <2>3 DEF LockPart, End, Move, CustodyAssumption
  <2>4. QED
    BY <2>1, <2>2, <2>3
<1>4. QED
  BY <1>2, <1>3 DEF LockPart

(* The hand of a flush is full exactly between its pop and its settling.   *)
Hands == {"replaying", "restoring"}

LEMMA SameHands ==
  ASSUME CustodyAssumption, HeldPart, NEW c \in Entries, NEW from, NEW to,
         step \in [Entries -> {"new"} \cup Active \cup Closed],
         from \in Hands <=> to \in Hands, Move(c, from, to), UNCHANGED held
  PROVE  HeldPart'
  BY DEF HeldPart, Move, Hands

LEMMA HandsEmptied ==
  ASSUME CustodyAssumption, HeldPart, NEW c \in Entries, NEW from, NEW to,
         step \in [Entries -> {"new"} \cup Active \cup Closed],
         to \notin Hands, Move(c, from, to), Settled(c)
  PROVE  HeldPart'
  BY DEF HeldPart, Move, Settled, Hands

-----------------------------------------------------------------------------
(* Every step keeps each of the three parts.                               *)
LEMMA LocksKept ==
  ASSUME CustodyAssumption, LockPart, NEW c \in Entries, Start(c) \/ AdvanceEntry(c) \/ Fail(c)
  PROVE  LockPart'
<1>1. CASE Start(c)
  BY <1>1, StartKeepsLocks
<1>2. CASE AskToLog(c) \/ AskNobody(c) \/ Insert(c) \/ InsertFails(c) \/ Pop(c) \/ Replay(c) \/ Bury(c) \/ ReplayFails(c)
  <2>1. UNCHANGED chainLock /\ \E from, to \in Active : Move(c, from, to)
    BY <1>2 DEF Active, AskToLog, AskNobody, Insert, InsertFails, Pop, Replay, Bury, ReplayFails
  <2>2. QED
    BY <2>1, MoveKeepsLocks
<1>3. CASE AskRaises(c) \/ Queue(c) \/ QueueFails(c) \/ Flushed(c) \/ PopFails(c) \/ BuryFails(c) \/ Restore(c) \/ RestoreFails(c) \/ CancelEntry(c)
  <2>1. \E from \in Active, to \in Closed : End(c, from, to)
    BY <1>3 DEF Active, Closed, AskRaises, Queue, QueueFails, Flushed, PopFails, BuryFails, Restore, RestoreFails, CancelEntry, CutOff
  <2>2. QED
    BY <2>1, EndKeepsLocks
<1>4. QED
  BY <1>1, <1>2, <1>3 DEF AdvanceEntry, Fail

LEMMA HandsKept ==
  ASSUME CustodyAssumption, CustodyTypeOK, NEW c \in Entries, Start(c) \/ AdvanceEntry(c) \/ Fail(c)
  PROVE  HeldPart'
<1> USE DEF Hands
<1>a. HeldPart /\ step \in [Entries -> {"new"} \cup Active \cup Closed]
  BY DEF CustodyTypeOK, HeldPart
<1>1. CASE Start(c) \/ AskToLog(c) \/ AskRaises(c) \/ AskNobody(c) \/ Insert(c) \/ InsertFails(c) \/ Queue(c) \/ QueueFails(c)
            \/ Flushed(c) \/ PopFails(c) \/ ReplayFails(c)
  <2>1. UNCHANGED held /\ \E from, to : (from \in Hands <=> to \in Hands) /\ Move(c, from, to)
    BY <1>1 DEF End, Start, AskToLog, AskRaises, AskNobody, Insert, InsertFails, Queue, QueueFails, Flushed, PopFails, ReplayFails
  <2>2. QED
    BY <1>a, <2>1, SameHands
<1>2. CASE Pop(c)
  <2>1. wal # <<>> /\ Head(wal) \in Entries /\ Head(wal) # None
    BY <1>2, WalOps DEF Pop, CustodyTypeOK, CustodyAssumption
  <2>2. QED
    BY <1>a, <1>2, <2>1 DEF Pop, HeldPart, Move
<1>3. CASE Replay(c) \/ Bury(c) \/ BuryFails(c) \/ Restore(c) \/ RestoreFails(c) \/ CancelEntry(c)
  <2>1. Settled(c) /\ \E from, to : to \notin Hands /\ Move(c, from, to)
    BY <1>3 DEF End, Replay, Bury, BuryFails, Restore, RestoreFails, CancelEntry, CutOff
  <2>2. QED
    BY <1>a, <2>1, HandsEmptied
<1>4. QED
  BY <1>1, <1>2, <1>3 DEF AdvanceEntry, Fail

(* The entry a call holds while it replays or restores it.                 *)
LEMMA HandFull ==
  ASSUME CustodyTypeOK, NEW c \in Entries, step[c] \in {"replaying", "restoring"}
  PROVE  held[c] \in Entries
  BY DEF CustodyTypeOK

(* Signing takes the next tick of the clock.                               *)
LEMMA SignType ==
  ASSUME DataPart, NEW c \in Entries, NEW p \in Entries \cup {None}, Sign(c, p)
  PROVE  /\ logClock' \in Nat /\ stamp' \in [Entries -> 0 .. logClock']
         /\ prior' \in [Entries -> Entries \cup {None}]
<1>1. logClock' = logClock + 1 /\ logClock \in Nat
  BY DEF Sign, DataPart
<1>2. \A d \in Entries : stamp[d] \in 0 .. logClock'
  BY <1>1 DEF DataPart
<1>3. stamp' \in [Entries -> 0 .. logClock']
  BY <1>1, <1>2 DEF Sign, DataPart
<1>4. QED
  BY <1>1, <1>3 DEF Sign, DataPart

LEMMA FaultTypes ==
  ASSUME CustodyAssumption, DataPart
  PROVE  /\ DbFault => dbFaults' \in 0 .. MaxDbFaults /\ failures' \in 0 .. MaxFailures
         /\ Mishap => dbFaults' \in 0 .. MaxDbFaults /\ failures' \in 0 .. MaxFailures
  BY DEF CustodyAssumption, DataPart, DbFault, Mishap

LEMMA DataKept ==
  ASSUME CustodyAssumption, CustodyTypeOK, NEW c \in Entries, Start(c) \/ AdvanceEntry(c) \/ Fail(c)
  PROVE  DataPart'
<1>a. DataPart
  BY TypeParts
<1>b. /\ \A x \in Entries : Append(wal, x) \in Seq(Entries) /\ <<x>> \o wal \in Seq(Entries)
      /\ wal # <<>> => Head(wal) \in Entries /\ Tail(wal) \in Seq(Entries)
  BY <1>a, WalOps DEF DataPart
<1>1. CASE Start(c) \/ Flushed(c)
  BY <1>a, <1>1 DEF DataPart, Start, Flushed, faults
<1>2. CASE AskToLog(c)
  <2>1. \E p \in Entries \cup {None} : Sign(c, p)
    BY <1>2 DEF AskToLog
  <2>2. logClock' \in Nat /\ stamp' \in [Entries -> 0 .. logClock'] /\ prior' \in [Entries -> Entries \cup {None}]
    BY <1>a, <2>1, SignType
  <2>3. QED
    BY <1>a, <1>2, <2>2 DEF DataPart, AskToLog, faults
<1>3. CASE AskNobody(c)
  <2>1. logClock' \in Nat /\ stamp' \in [Entries -> 0 .. logClock'] /\ prior' \in [Entries -> Entries \cup {None}]
    BY <1>a, <1>3, SignType DEF AskNobody
  <2>2. QED
    BY <1>a, <1>3, <2>1, FaultTypes DEF DataPart, AskNobody
<1>4. CASE AskRaises(c)
  BY <1>a, <1>4, FaultTypes DEF DataPart, AskRaises
<1>5. CASE Insert(c)
  BY <1>a, <1>5 DEF DataPart, Insert, faults
<1>6. CASE InsertFails(c)
  <2>1. table' \subseteq Entries
    BY <1>a, <1>6 DEF DataPart, InsertFails, MaybeInserted
  <2>2. dbFaults' \in 0 .. MaxDbFaults /\ failures' \in 0 .. MaxFailures
    BY <1>a, <1>6, FaultTypes DEF DataPart, InsertFails
  <2>3. QED
    BY <1>a, <1>6, <2>1, <2>2 DEF DataPart, InsertFails
<1>7. CASE Queue(c)
  BY <1>a, <1>7, PushedType DEF DataPart, Queue
<1>8. CASE QueueFails(c)
  BY <1>a, <1>b, <1>8, FaultTypes DEF DataPart, QueueFails
<1>9. CASE Pop(c)
  <2>1. popped' \in [Entries -> 0 .. FlushBatch]
    BY <1>a, <1>9 DEF DataPart, Pop, CustodyAssumption
  <2>2. QED
    BY <1>a, <1>b, <1>9, <2>1 DEF DataPart, Pop, faults
<1>10. CASE PopFails(c)
  BY <1>a, <1>b, <1>10, FaultTypes DEF DataPart, PopFails
<1>11. CASE Replay(c)
  <2>1. held[c] \in Entries
    BY <1>11, HandFull DEF Replay, Move
  <2>2. QED
    BY <1>a, <1>11, <2>1 DEF DataPart, Replay, faults
<1>12. CASE Bury(c) \/ BuryFails(c) \/ ReplayFails(c)
  <2>1. held[c] \in Entries
    BY <1>12, HandFull DEF Bury, BuryFails, ReplayFails, Move, End
  <2>2. dbFaults' \in 0 .. MaxDbFaults /\ failures' \in 0 .. MaxFailures
    BY <1>a, <1>12, FaultTypes DEF DataPart, Bury, BuryFails, ReplayFails, faults
  <2>3. dead' \subseteq Entries /\ table' \subseteq Entries
    BY <1>a, <1>12, <2>1 DEF DataPart, Bury, BuryFails, ReplayFails, MaybeInserted
  <2>4. QED
    BY <1>a, <1>12, <2>2, <2>3 DEF DataPart, Bury, BuryFails, ReplayFails, faults
<1>13. CASE Restore(c) \/ RestoreFails(c)
  <2>1. held[c] \in Entries
    BY <1>13, HandFull DEF Restore, RestoreFails, Move, End
  <2>2. dbFaults' \in 0 .. MaxDbFaults /\ failures' \in 0 .. MaxFailures
    BY <1>a, <1>13, FaultTypes DEF DataPart, Restore, RestoreFails, faults
  <2>3. QED
    BY <1>a, <1>b, <1>13, <2>1, <2>2 DEF DataPart, Restore, RestoreFails, faults
<1>14. CASE CancelEntry(c)
  <2>1. dbFaults' \in 0 .. MaxDbFaults /\ failures' \in 0 .. MaxFailures
    BY <1>a, <1>14, FaultTypes DEF CancelEntry
  <2>2. step[c] \in {"replaying", "restoring"} => held[c] \in Entries
    BY HandFull
  <2>3. CutOff(c)
    BY <1>14 DEF CancelEntry
  <2>4. wal' \in Seq(Entries) /\ table' \subseteq Entries /\ dead' \subseteq Entries
    BY <1>a, <1>b, <2>2, <2>3 DEF DataPart, CutOff, MaybeInserted, End, Move
  <2>5. QED
    BY <1>a, <1>14, <2>1, <2>4 DEF DataPart, CancelEntry
<1>15. QED
  BY <1>1, <1>2, <1>3, <1>4, <1>5, <1>6, <1>7, <1>8, <1>9, <1>10, <1>11, <1>12, <1>13, <1>14
     DEF AdvanceEntry, Fail

-----------------------------------------------------------------------------
(* The chain of custody is well typed; every lock is held by the one call  *)
(* of its chain that is under way; a flush has something in its hands      *)
(* exactly while it replays or restores it.                                *)
THEOREM TypeCorrect == CustodySpec => []CustodyTypeOK
<1>1. CustodyInit => CustodyTypeOK
  BY CustodyAssumption DEF CustodyInit, CustodyTypeOK, Active, Closed, CustodyAssumption
<1>2. CustodyTypeOK /\ [CustodyNext]_custodyVars => CustodyTypeOK'
  <2>1. ASSUME CustodyTypeOK, NEW c \in Entries, Start(c) \/ AdvanceEntry(c) \/ Fail(c)
        PROVE  CustodyTypeOK'
    <3>1. LockPart' /\ HeldPart' /\ DataPart'
      BY <2>1, CustodyAssumption, TypeParts, LocksKept, HandsKept, DataKept
    <3>2. QED
      BY <3>1 DEF CustodyTypeOK, LockPart, HeldPart, DataPart
  <2>2. ASSUME CustodyTypeOK, UNCHANGED custodyVars PROVE CustodyTypeOK'
    BY <2>2 DEF CustodyTypeOK, custodyVars, faults
  <2>3. QED
    BY <2>1, <2>2 DEF CustodyNext
<1>3. QED
  BY <1>1, <1>2, PTL DEF CustodySpec

-----------------------------------------------------------------------------
(* A dead letter is stored already or never can be: rows are never         *)
(* deleted, and only un-insertable entries are buried.                     *)
THEOREM DeadLettersSettled == CustodySpec => []DeadAreSettled
<1>1. CustodyInit => DeadAreSettled
  BY DEF CustodyInit, DeadAreSettled
<1>2. DeadAreSettled /\ [CustodyNext]_custodyVars => DeadAreSettled'
  <2>1. ASSUME DeadAreSettled, NEW c \in Entries, Start(c) \/ AdvanceEntry(c) \/ Fail(c)
        PROVE  DeadAreSettled'
    <3>1. table \subseteq table'
      <4>1. CASE Start(c)
        BY <4>1 DEF Start
      <4>2. CASE AdvanceEntry(c)
        BY <4>2 DEF AdvanceEntry, AskToLog, Insert, InsertFails, MaybeInserted, Queue, Pop, Flushed, Replay, Bury, Restore
      <4>3. CASE Fail(c)
        BY <4>3 DEF Fail, AskRaises, AskNobody, InsertFails, MaybeInserted, QueueFails, PopFails, BuryFails,
                    ReplayFails, RestoreFails, CancelEntry, CutOff
      <4>4. QED
        BY <2>1, <4>1, <4>2, <4>3
    <3>2. dead' \subseteq dead \cup table \cup Poison
      <4>1. CASE Start(c)
        BY <4>1 DEF Start
      <4>2. CASE AdvanceEntry(c)
        BY <4>2 DEF AdvanceEntry, AskToLog, Insert, InsertFails, Queue, Pop, Flushed, Replay, Bury, Insertable, Restore
      <4>3. CASE Fail(c)
        BY <4>3 DEF Fail, AskRaises, AskNobody, InsertFails, QueueFails, PopFails, BuryFails, Insertable,
                    ReplayFails, RestoreFails, CancelEntry, CutOff
      <4>4. QED
        BY <2>1, <4>1, <4>2, <4>3
    <3>3. QED
      BY <2>1, <3>1, <3>2 DEF DeadAreSettled
  <2>2. ASSUME DeadAreSettled, UNCHANGED custodyVars PROVE DeadAreSettled'
    BY <2>2 DEF DeadAreSettled, custodyVars
  <2>3. QED
    BY <2>1, <2>2 DEF CustodyNext
<1>3. QED
  BY <1>1, <1>2, PTL DEF CustodySpec

-----------------------------------------------------------------------------
(* The inductive invariant behind UndivertedChainsVerify.  An entry is     *)
(* stored only after it is signed; what is in the WAL or in the hands of a *)
(* flush comes from calls that were diverted; and a call about to insert   *)
(* into an undiverted chain knows the last entry of that chain, because it *)
(* has held the lock since it asked.                                       *)
SignedFirst == \A c \in Entries : step[c] \in {"new", "asking"} => c \notin table

DetourSteps == {"queued", "gap"}
OnlyDiverted ==
  /\ \A i \in 1 .. Len(wal) : step[wal[i]] \in DetourSteps
  /\ \A c \in Entries : held[c] # None => step[held[c]] \in DetourSteps

Newest(c) == IsLast(AgentOf[c], prior[c]) /\ \A e \in Chain(AgentOf[c]) : stamp[e] < stamp[c]
KnowsLast == \A c \in Entries : step[c] = "inserting" => Diverted(AgentOf[c]) \/ Newest(c)

ChainInv == CustodyTypeOK /\ SignedFirst /\ OnlyDiverted /\ KnowsLast /\ UndivertedChainsVerify

(* Of the chain of agent a nothing changes that verify_chain looks at.     *)
SameChain(a) ==
  /\ Chain(a)' = Chain(a)
  /\ \A e \in Chain(a) : stamp'[e] = stamp[e] /\ prior'[e] = prior[e]

LEMMA SameChainLinks ==
  ASSUME NEW a, SameChain(a), \A e \in Chain(a) : Linked(e),
         NEW e \in table', AgentOf[e] = a
  PROVE  Linked(e)'
<1>1. e \in Chain(a) /\ Linked(e)
  BY DEF SameChain, Chain
<1>2. \A d \in Chain(a)' : d \in Chain(a) /\ stamp'[d] = stamp[d]
  BY DEF SameChain
<1>3. {d \in Chain(a)' : stamp'[d] < stamp'[e]} = {d \in Chain(a) : stamp[d] < stamp[e]}
  BY <1>1, <1>2 DEF SameChain
<1>4. QED
  BY <1>1, <1>2, <1>3 DEF Linked, SameChain

(* Nobody leaves the state of a diverted call.                             *)
LEMMA DivertedStays ==
  ASSUME NEW c \in Entries, Start(c) \/ AdvanceEntry(c) \/ Fail(c), CustodyTypeOK
  PROVE  /\ \A d \in Entries : step[d] \in DetourSteps => step'[d] = step[d]
         /\ \A a : Diverted(a) => Diverted(a)'
<1>1. \E from \in {"new"} \cup Active : \E to : Move(c, from, to)
  <2>1. CASE Start(c)
    BY <2>1 DEF Start
  <2>2. CASE AdvanceEntry(c)
    BY <2>2 DEF AdvanceEntry, Active, End, AskToLog, Insert, InsertFails, Queue, Pop, Flushed, Replay, Bury, Restore
  <2>3. CASE Fail(c)
    BY <2>3 DEF Fail, Active, End, AskRaises, AskNobody, InsertFails, QueueFails, PopFails, BuryFails,
                ReplayFails, RestoreFails, CancelEntry, CutOff
  <2>4. QED
    BY <2>1, <2>2, <2>3
<1>2. \A d \in Entries : step[d] \in DetourSteps => step'[d] = step[d]
  BY <1>1 DEF Move, DetourSteps, Active, CustodyTypeOK
<1>3. QED
  BY <1>2 DEF Diverted, DetourSteps

(* The elements of the WAL after each operation on it.                     *)
LEMMA WalElements ==
  ASSUME NEW S, NEW w \in Seq(S), NEW x \in S
  PROVE  /\ w # <<>> => Head(w) = w[1] /\ 1 \in 1 .. Len(w)
         /\ w # <<>> => \A i \in 1 .. Len(Tail(w)) : \E j \in 1 .. Len(w) : Tail(w)[i] = w[j]
         /\ \A i \in 1 .. Len(Append(w, x)) : Append(w, x)[i] = x \/ \E j \in 1 .. Len(w) : Append(w, x)[i] = w[j]
         /\ \A i \in 1 .. Len(<<x>> \o w) : (<<x>> \o w)[i] = x \/ \E j \in 1 .. Len(w) : (<<x>> \o w)[i] = w[j]
<1>1. w # <<>> => Head(w) = w[1] /\ 1 \in 1 .. Len(w)
  BY HeadTailProperties, LenProperties, EmptySeq
<1>2. ASSUME w # <<>>, NEW i \in 1 .. Len(Tail(w))
      PROVE  \E j \in 1 .. Len(w) : Tail(w)[i] = w[j]
  <2>1. Tail(w)[i] = w[i + 1] /\ i + 1 \in 1 .. Len(w)
    BY <1>2, HeadTailProperties, LenProperties
  <2>2. QED
    BY <2>1
<1>3. ASSUME NEW i \in 1 .. Len(Append(w, x))
      PROVE  Append(w, x)[i] = x \/ \E j \in 1 .. Len(w) : Append(w, x)[i] = w[j]
  OBVIOUS
<1>4. ASSUME NEW i \in 1 .. Len(<<x>> \o w)
      PROVE  (<<x>> \o w)[i] = x \/ \E j \in 1 .. Len(w) : (<<x>> \o w)[i] = w[j]
  <2>1. Len(w) \in Nat /\ Len(<<x>> \o w) = Len(w) + 1
    OBVIOUS
  <2>2. CASE i = 1
    BY <2>2
  <2>3. CASE i # 1
    <3>1. (<<x>> \o w)[i] = w[i - 1] /\ i - 1 \in 1 .. Len(w)
      BY <2>1, <2>3
    <3>2. QED
      BY <3>1
  <2>4. QED
    BY <2>2, <2>3
<1>5. QED
  BY <1>1, <1>2, <1>3, <1>4

(* What a step may put into the WAL: the entry of a call that is diverted  *)
(* by this step, or what a flush had in its hands.                         *)
LEMMA WalGains ==
  ASSUME CustodyAssumption, CustodyTypeOK, NEW c \in Entries, Start(c) \/ AdvanceEntry(c) \/ Fail(c),
         NEW i \in 1 .. Len(wal')
  PROVE  \/ \E j \in 1 .. Len(wal) : wal'[i] = wal[j]
         \/ wal'[i] = c /\ step'[c] \in DetourSteps
         \/ wal'[i] = held[c] /\ held[c] \in Entries
<1> wal \in Seq(Entries) /\ step \in [Entries -> {"new"} \cup Active \cup Closed]
  BY DEF CustodyTypeOK
<1>1. CASE UNCHANGED wal
  BY <1>1
<1>2. CASE wal # <<>> /\ wal' = Tail(wal)
  BY <1>2, WalElements
<1>3. CASE wal' = Append(wal, c) /\ step'[c] \in DetourSteps
  BY <1>3, WalElements
<1>4. CASE wal' = <<held[c]>> \o wal /\ held[c] \in Entries
  BY <1>4, WalElements
<1>5. CASE Queue(c)
  <2> DEFINE w == Append(wal, c)
  <2>1. step'[c] \in DetourSteps
    BY <1>5 DEF Queue, End, Move, DetourSteps
  <2>2. CASE wal' = w
    BY <1>3, <2>1, <2>2
  <2>3. CASE Len(w) > WalCap /\ wal' = SubSeq(w, 1, WalCap)
    <3>1. w \in Seq(Entries) /\ Len(w) \in Nat /\ WalCap \in Nat
      BY DEF CustodyAssumption
    <3>2. i \in 1 .. Len(w) /\ wal'[i] = w[i]
      BY <2>3, <3>1
    <3>3. QED
      BY <2>1, <3>2, WalElements
  <2>4. QED
    BY <1>5, <2>2, <2>3 DEF Queue, Pushed
<1>6. CASE QueueFails(c)
  BY <1>1, <1>3, <1>6 DEF QueueFails, End, Move, DetourSteps
<1>7. CASE Restore(c) \/ RestoreFails(c)
  <2>1. held[c] \in Entries
    BY <1>7, HandFull DEF Restore, RestoreFails, End, Move
  <2>2. QED
    BY <1>1, <1>4, <1>7, <2>1 DEF Restore, RestoreFails
<1>8. CASE CancelEntry(c)
  <2>1. step[c] = "restoring" => held[c] \in Entries
    BY HandFull
  <2>2. CutOff(c)
    BY <1>8 DEF CancelEntry
  <2>3. QED
    BY <1>1, <1>2, <1>3, <1>4, <2>1, <2>2 DEF CutOff, End, Move, DetourSteps
<1>9. CASE Start(c) \/ AskToLog(c) \/ Insert(c) \/ InsertFails(c) \/ Pop(c) \/ Flushed(c) \/ Replay(c) \/ Bury(c)
            \/ AskRaises(c) \/ AskNobody(c) \/ PopFails(c) \/ BuryFails(c) \/ ReplayFails(c)
  BY <1>1, <1>2, <1>9 DEF Start, AskToLog, Insert, InsertFails, Pop, Flushed, Replay, Bury,
            AskRaises, AskNobody, PopFails, BuryFails, ReplayFails
<1>10. QED
  BY <1>5, <1>6, <1>7, <1>8, <1>9 DEF AdvanceEntry, Fail

LEMMA OnlyDivertedKept ==
  ASSUME CustodyAssumption, CustodyTypeOK, OnlyDiverted, NEW c \in Entries, Start(c) \/ AdvanceEntry(c) \/ Fail(c)
  PROVE  OnlyDiverted'
<1>a. wal \in Seq(Entries) /\ held \in [Entries -> Entries \cup {None}] /\ \A j \in 1 .. Len(wal) : wal[j] \in Entries
  BY ElementOfSeq DEF CustodyTypeOK
<1>b. \A d \in Entries : step[d] \in DetourSteps => step'[d] \in DetourSteps
  BY DivertedStays
<1>1. ASSUME NEW i \in 1 .. Len(wal') PROVE step'[wal'[i]] \in DetourSteps
  <2>1. CASE \E j \in 1 .. Len(wal) : wal'[i] = wal[j]
    BY <1>a, <1>b, <2>1 DEF OnlyDiverted
  <2>2. CASE wal'[i] = held[c] /\ held[c] \in Entries
    BY <1>b, <2>2 DEF OnlyDiverted, CustodyAssumption
  <2>3. QED
    BY <2>1, <2>2, WalGains
<1>2. \A d \in Entries : held'[d] \in {held[d], None} \/ (wal # <<>> /\ held'[d] = Head(wal))
  <2>1. CASE Pop(c)
    BY <1>a, <2>1 DEF Pop
  <2>2. CASE UNCHANGED held \/ Settled(c)
    BY <1>a, <2>2 DEF Settled
  <2>3. QED
    BY <2>1, <2>2 DEF Start, AdvanceEntry, AskToLog, Insert, InsertFails, Queue, Flushed, Replay, Bury, Restore,
       Fail, AskRaises, AskNobody, QueueFails, PopFails, BuryFails, ReplayFails, RestoreFails, CancelEntry
<1>3. ASSUME NEW d \in Entries, held'[d] # None PROVE step'[held'[d]] \in DetourSteps
  <2>1. CASE held'[d] = held[d]
    BY <1>a, <1>b, <1>3, <2>1 DEF OnlyDiverted
  <2>2. CASE wal # <<>> /\ held'[d] = Head(wal)
    <3>1. Head(wal) = wal[1] /\ 1 \in 1 .. Len(wal)
      BY <1>a, <2>2, WalElements
    <3>2. QED
      BY <1>a, <1>b, <2>2, <3>1 DEF OnlyDiverted
  <2>3. QED
    BY <1>2, <1>3, <2>1, <2>2
<1>4. QED
  BY <1>1, <1>3 DEF OnlyDiverted

(* The four things a step may do to what verify_chain looks at.            *)
Looks(c) == UNCHANGED <<table, stamp, prior>>

Signs(c) ==
  /\ step[c] = "asking" /\ UNCHANGED table
  /\ \E p \in Entries \cup {None} :
       Sign(c, p) /\ (step'[c] = "inserting" => IsLast(AgentOf[c], p))

Inserts(c) ==
  /\ step[c] = "inserting" /\ step'[c] # "inserting"
  /\ table' = table \cup {c} /\ UNCHANGED <<stamp, prior>>

Replays(c) ==
  /\ held[c] # None
  /\ table' = table \cup {held[c]} /\ UNCHANGED <<stamp, prior>>

LEMMA StepKinds ==
  ASSUME CustodyTypeOK, NEW c \in Entries, Start(c) \/ AdvanceEntry(c) \/ Fail(c)
  PROVE  Looks(c) \/ Signs(c) \/ Inserts(c) \/ Replays(c)
<1> step \in [Entries -> {"new"} \cup Active \cup Closed]
  BY DEF CustodyTypeOK
<1>1. CASE Start(c) \/ AskRaises(c) \/ Queue(c) \/ QueueFails(c) \/ Pop(c) \/ Flushed(c) \/ PopFails(c)
            \/ Bury(c) \/ BuryFails(c) \/ Restore(c) \/ RestoreFails(c)
  BY <1>1 DEF Looks, Start, AskRaises, Queue, QueueFails, Pop, Flushed, PopFails, Bury, BuryFails,
             Restore, RestoreFails
<1>2. CASE AskToLog(c)
  BY <1>2 DEF Signs, AskToLog, Move
<1>3. CASE AskNobody(c)
  BY <1>3 DEF Signs, AskNobody, Move
<1>4. CASE Insert(c)
  BY <1>4 DEF Inserts, Insert, Move
<1>5. CASE InsertFails(c)
  BY <1>5 DEF Looks, Inserts, InsertFails, MaybeInserted, Move
<1>6. CASE Replay(c) \/ ReplayFails(c)
  <2>1. held[c] # None
    BY <1>6 DEF Replay, ReplayFails, Move, CustodyTypeOK
  <2>2. QED
    BY <1>6, <2>1 DEF Looks, Replays, Replay, ReplayFails, MaybeInserted
<1>7. CASE CancelEntry(c)
  <2>1. CutOff(c) /\ UNCHANGED <<stamp, prior>>
    BY <1>7 DEF CancelEntry
  <2>2. step[c] = "replaying" => held[c] # None
    BY DEF CustodyTypeOK
  <2>3. CASE UNCHANGED table
    BY <2>1, <2>3 DEF Looks
  <2>4. CASE End(c, "inserting", "cancelled") /\ MaybeInserted(c)
    <3>1. step[c] = "inserting" /\ step'[c] # "inserting"
      BY <2>4 DEF End, Move
    <3>2. table' = table \/ table' = table \cup {c}
      BY <2>4 DEF MaybeInserted
    <3>3. QED
      BY <2>1, <3>1, <3>2 DEF Looks, Inserts
  <2>5. CASE End(c, "replaying", "cancelled") /\ MaybeInserted(held[c])
    <3>1. table' = table \/ table' = table \cup {held[c]}
      BY <2>5 DEF MaybeInserted
    <3>2. QED
      BY <2>1, <2>2, <2>5, <3>1 DEF Looks, Replays, End, Move
  <2>6. QED
    BY <2>1, <2>3, <2>4, <2>5 DEF CutOff
<1>8. QED
  BY <1>1, <1>2, <1>3, <1>4, <1>5, <1>6, <1>7 DEF AdvanceEntry, Fail

(* Who may be new, asking or inserting after a step.                       *)
LEMMA Newcomers ==
  ASSUME CustodyTypeOK, NEW c \in Entries, Start(c) \/ AdvanceEntry(c) \/ Fail(c)
  PROVE  \A d \in Entries :
           /\ step'[d] \in {"new", "asking"} => step[d] \in {"new", "asking"}
           /\ d # c => step'[d] = step[d]
           /\ step'[d] = "inserting" /\ step[d] # "inserting" => d = c /\ Signs(c)
<1> step \in [Entries -> {"new"} \cup Active \cup Closed]
  BY DEF CustodyTypeOK
<1>1. CASE Start(c)
  BY <1>1 DEF Start, Move
<1>2. CASE AskToLog(c)
  BY <1>2 DEF AskToLog, Move, Signs
<1>3. CASE AdvanceEntry(c) /\ ~AskToLog(c)
  BY <1>3 DEF AdvanceEntry, End, Move, Insert, InsertFails, Queue, Pop, Flushed, Replay, Bury, Restore
<1>4. CASE Fail(c)
  BY <1>4 DEF Fail, End, Move, AskRaises, AskNobody, InsertFails, QueueFails, PopFails, BuryFails,
              ReplayFails, RestoreFails, CancelEntry, CutOff
<1>5. QED
  BY <1>1, <1>2, <1>3, <1>4

(* The step kinds, chain by chain: all but the chain that gains an entry   *)
(* stay as they are.                                                       *)
LEMMA OtherChains ==
  ASSUME CustodyTypeOK, SignedFirst, NEW c \in Entries, NEW a
  PROVE  /\ Looks(c) => SameChain(a)
         /\ Signs(c) => SameChain(a)
         /\ Inserts(c) /\ a # AgentOf[c] => SameChain(a)
         /\ Replays(c) /\ a # AgentOf[held[c]] => SameChain(a)
<1>1. Looks(c) => SameChain(a)
  BY DEF Looks, SameChain, Chain
<1>2. ASSUME Signs(c) PROVE SameChain(a)
  <2>1. c \notin table
    BY <1>2 DEF SignedFirst, Signs
  <2>2. PICK p \in Entries \cup {None} : Sign(c, p)
    BY <1>2 DEF Signs
  <2>3. \A e \in table : stamp'[e] = stamp[e] /\ prior'[e] = prior[e]
    BY <2>1, <2>2 DEF Sign, CustodyTypeOK
  <2>4. QED
    BY <1>2, <2>3 DEF Signs, SameChain, Chain
<1>3. Inserts(c) /\ a # AgentOf[c] => SameChain(a)
  BY DEF Inserts, SameChain, Chain
<1>4. Replays(c) /\ a # AgentOf[held[c]] => SameChain(a)
  BY DEF Replays, SameChain, Chain
<1>5. QED
  BY <1>1, <1>2, <1>3, <1>4

(* A call keeps knowing the last entry of a chain that stays as it is.     *)
LEMMA NewestStays ==
  ASSUME NEW d \in Entries, SameChain(AgentOf[d]), Newest(d),
         prior'[d] = prior[d], stamp'[d] = stamp[d]
  PROVE  Newest(d)'
  BY DEF Newest, IsLast, SameChain

(* The entry inserted by a call that knows the last one is linked, and so  *)
(* is every entry before it.                                               *)
LEMMA InsertLinks ==
  ASSUME CustodyTypeOK, NEW c \in Entries, Inserts(c), Newest(c),
         \A e \in Chain(AgentOf[c]) : Linked(e),
         NEW e \in table', AgentOf[e] = AgentOf[c]
  PROVE  Linked(e)'
<1> DEFINE a == AgentOf[c]
<1>1. Chain(a)' = Chain(a) \cup {c} /\ stamp' = stamp /\ prior' = prior
  BY DEF Inserts, Chain
<1>2. \A d \in Chain(a) : stamp[d] < stamp[c] /\ stamp[d] \in Nat /\ d \in Entries
  BY DEF Newest, CustodyTypeOK, Chain
<1>3. stamp[c] \in Nat /\ c # None
  BY CustodyAssumption DEF CustodyTypeOK, CustodyAssumption
<1>4. CASE e = c
  <2>1. {d \in Chain(a)' : stamp'[d] < stamp'[e]} = Chain(a)
    BY <1>1, <1>2, <1>3, <1>4
  <2>2. IsLast(a, prior[c])
    BY DEF Newest
  <2>3. CASE prior[c] = None
    <3>1. Chain(a) = {}
      BY <2>2, <2>3, CustodyAssumption DEF IsLast, Chain, CustodyTypeOK, CustodyAssumption
    <3>2. QED
      BY <1>1, <1>4, <2>1, <2>3, <3>1 DEF Linked
  <2>4. CASE prior[c] # None
    <3>1. prior[c] \in Chain(a) /\ \A d \in Chain(a) : stamp[d] <= stamp[prior[c]]
      BY <2>2, <2>4 DEF IsLast
    <3>2. QED
      BY <1>1, <1>4, <2>1, <2>4, <3>1 DEF Linked
  <2>5. QED
    BY <2>3, <2>4
<1>5. CASE e # c
  <2>1. e \in Chain(a) /\ Linked(e)
    BY <1>5 DEF Inserts, Chain
  <2>2. {d \in Chain(a)' : stamp'[d] < stamp'[e]} = {d \in Chain(a) : stamp[d] < stamp[e]}
    BY <1>1, <1>2, <1>3, <2>1
  <2>3. QED
    BY <1>1, <2>1, <2>2 DEF Linked
<1>6. QED
  BY <1>4, <1>5

-----------------------------------------------------------------------------
(* The inductive step.                                                     *)
LEMMA SignedFirstKept ==
  ASSUME CustodyTypeOK, SignedFirst, OnlyDiverted, NEW c \in Entries, Start(c) \/ AdvanceEntry(c) \/ Fail(c)
  PROVE  SignedFirst'
<1> SUFFICES ASSUME NEW d \in Entries, step'[d] \in {"new", "asking"} PROVE d \notin table'
  BY DEF SignedFirst
<1>1. step[d] \in {"new", "asking"} /\ d \notin table
  BY Newcomers DEF SignedFirst
<1>2. CASE Looks(c) \/ Signs(c)
  BY <1>1, <1>2 DEF Looks, Signs
<1>3. CASE Inserts(c)
  BY <1>1, <1>3 DEF Inserts
<1>4. CASE Replays(c)
  BY <1>1, <1>4 DEF Replays, OnlyDiverted, DetourSteps
<1>5. QED
  BY <1>2, <1>3, <1>4, StepKinds

LEMMA KnowsLastKept ==
  ASSUME CustodyAssumption, CustodyTypeOK, SignedFirst, OnlyDiverted, KnowsLast,
         NEW c \in Entries, Start(c) \/ AdvanceEntry(c) \/ Fail(c)
  PROVE  KnowsLast'
<1> SUFFICES ASSUME NEW d \in Entries, step'[d] = "inserting", ~Diverted(AgentOf[d])'
             PROVE  Newest(d)'
  BY DEF KnowsLast
<1>1. ~Diverted(AgentOf[d])
  BY DivertedStays
<1>2. CASE step[d] # "inserting"
  <2>1. d = c /\ Signs(c)
    BY <1>2, Newcomers
  <2>2. SameChain(AgentOf[c])
    BY <2>1, OtherChains
  <2>3. PICK p \in Entries \cup {None} : Sign(c, p) /\ IsLast(AgentOf[c], p)
    BY <2>1 DEF Signs
  <2>4. prior'[c] = p /\ stamp'[c] = logClock + 1 /\ logClock \in Nat
    BY <2>3 DEF Sign, CustodyTypeOK
  <2>5. \A e \in Chain(AgentOf[c])' : e \in Chain(AgentOf[c]) /\ stamp'[e] = stamp[e] /\ stamp[e] \in 0 .. logClock
    BY <2>2 DEF SameChain, Chain, CustodyTypeOK
  <2>6. IsLast(AgentOf[c], prior[c])'
    BY <2>2, <2>3, <2>4, <2>5 DEF IsLast, SameChain
  <2>7. \A e \in Chain(AgentOf[c])' : stamp'[e] < stamp'[c]
    BY <2>4, <2>5
  <2>8. QED
    BY <2>1, <2>6, <2>7 DEF Newest
<1>3. CASE step[d] = "inserting"
  <2>1. Newest(d)
    BY <1>1, <1>3 DEF KnowsLast
  <2>2. prior'[d] = prior[d] /\ stamp'[d] = stamp[d]
    <3>1. CASE Signs(c)
      BY <1>3, <3>1 DEF Signs, Sign, CustodyTypeOK
    <3>2. CASE Looks(c) \/ Inserts(c) \/ Replays(c)
      BY <3>2 DEF Looks, Inserts, Replays
    <3>3. QED
      BY <3>1, <3>2, StepKinds
  <2>3. CASE Looks(c) \/ Signs(c)
    BY <2>1, <2>2, <2>3, OtherChains, NewestStays
  <2>4. CASE Inserts(c)
    <3>1. step[c] = "inserting" /\ d # c
      BY <2>4 DEF Inserts
    <3>2. AgentOf[c] # AgentOf[d]
      BY <1>3, <3>1 DEF CustodyTypeOK, Active
    <3>3. QED
      BY <2>1, <2>2, <2>4, <3>2, OtherChains, NewestStays
  <2>5. CASE Replays(c)
    <3>1. held[c] \in Entries /\ step[held[c]] \in DetourSteps
      BY <2>5 DEF Replays, OnlyDiverted, CustodyTypeOK
    <3>2. AgentOf[held[c]] # AgentOf[d]
      BY <1>1, <3>1 DEF Diverted, DetourSteps
    <3>3. QED
      BY <2>1, <2>2, <2>5, <3>2, OtherChains, NewestStays
  <2>6. QED
    BY <2>3, <2>4, <2>5, StepKinds
<1>4. QED
  BY <1>2, <1>3

LEMMA VerifiesKept ==
  ASSUME CustodyAssumption, ChainInv, NEW c \in Entries, Start(c) \/ AdvanceEntry(c) \/ Fail(c)
  PROVE  UndivertedChainsVerify'
<1> USE DEF ChainInv
<1> SUFFICES ASSUME NEW e \in table', ~Diverted(AgentOf[e])'
             PROVE  Linked(e)'
  BY DEF UndivertedChainsVerify
<1> DEFINE a == AgentOf[e]
<1>1. ~Diverted(a)
  BY DivertedStays
<1>2. \A d \in Chain(a) : Linked(d)
  BY <1>1 DEF UndivertedChainsVerify, Chain
<1>3. CASE Looks(c) \/ Signs(c)
  BY <1>2, <1>3, OtherChains, SameChainLinks
<1>4. CASE Inserts(c)
  <2>1. CASE AgentOf[c] # a
    BY <1>2, <1>4, <2>1, OtherChains, SameChainLinks
  <2>2. CASE AgentOf[c] = a
    <3>1. Newest(c)
      BY <1>1, <1>4, <2>2 DEF Inserts, KnowsLast
    <3>2. QED
      BY <1>2, <1>4, <2>2, <3>1, InsertLinks
  <2>3. QED
    BY <2>1, <2>2
<1>5. CASE Replays(c)
  <2>1. held[c] \in Entries /\ step[held[c]] \in DetourSteps
    BY <1>5 DEF Replays, OnlyDiverted, CustodyTypeOK
  <2>2. AgentOf[held[c]] # a
    BY <1>1, <2>1 DEF Diverted, DetourSteps
  <2>3. QED
    BY <1>2, <1>5, <2>2, OtherChains, SameChainLinks
<1>6. QED
  BY <1>3, <1>4, <1>5, StepKinds

(* However many calls race for a chain, fail, are cut off, and whatever    *)
(* the flushes of others insert: a chain none of whose calls fell back on  *)
(* the WAL verifies.                                                       *)
THEOREM NoFalseAlarm == CustodySpec => []UndivertedChainsVerify
<1>1. CustodyInit => ChainInv
  <2>1. CustodyInit => CustodyTypeOK
    BY CustodyAssumption DEF CustodyInit, CustodyTypeOK, Active, Closed, CustodyAssumption
  <2>2. CustodyInit => SignedFirst /\ OnlyDiverted /\ KnowsLast /\ UndivertedChainsVerify
    BY DEF CustodyInit, SignedFirst, OnlyDiverted, KnowsLast, UndivertedChainsVerify
  <2>3. QED
    BY <2>1, <2>2 DEF ChainInv
<1>2. ChainInv /\ CustodyTypeOK' /\ [CustodyNext]_custodyVars => ChainInv'
  <2>1. ASSUME ChainInv, CustodyTypeOK', NEW c \in Entries, Start(c) \/ AdvanceEntry(c) \/ Fail(c)
        PROVE  ChainInv'
    <3>1. SignedFirst' /\ OnlyDiverted' /\ KnowsLast'
      BY <2>1, CustodyAssumption, SignedFirstKept, OnlyDivertedKept, KnowsLastKept DEF ChainInv
    <3>2. UndivertedChainsVerify'
      BY <2>1, CustodyAssumption, VerifiesKept
    <3>3. QED
      BY <2>1, <3>1, <3>2 DEF ChainInv
  <2>2. ASSUME ChainInv, CustodyTypeOK', UNCHANGED custodyVars PROVE ChainInv'
    <3>1. SignedFirst' /\ OnlyDiverted'
      BY <2>2 DEF ChainInv, custodyVars, SignedFirst, OnlyDiverted
    <3>2. KnowsLast'
      BY <2>2 DEF ChainInv, custodyVars, KnowsLast, Newest, IsLast, Chain, Diverted
    <3>3. UndivertedChainsVerify'
      BY <2>2 DEF ChainInv, custodyVars, UndivertedChainsVerify, Linked, Chain, Diverted
    <3>4. QED
      BY <2>2, <3>1, <3>2, <3>3 DEF ChainInv
  <2>3. QED
    BY <2>1, <2>2 DEF CustodyNext
<1>3. ChainInv => UndivertedChainsVerify
  BY DEF ChainInv
<1>4. QED
  BY <1>1, <1>2, <1>3, TypeCorrect, PTL DEF CustodySpec

-----------------------------------------------------------------------------
(* Losses.  What the WAL holds, before and after an operation on it.       *)
InWal(w) == {w[i] : i \in DOMAIN w}

LEMMA WalHolds ==
  ASSUME NEW S, NEW w \in Seq(S), NEW x \in S
  PROVE  /\ InWal(w) \cup {x} \subseteq InWal(Append(w, x))
         /\ InWal(w) \cup {x} \subseteq InWal(<<x>> \o w)
         /\ w # <<>> => InWal(w) \subseteq InWal(Tail(w)) \cup {Head(w)}
<1>1. InWal(w) \cup {x} \subseteq InWal(Append(w, x))
  <2>1. Len(w) \in Nat /\ DOMAIN Append(w, x) = 1 .. Len(w) + 1 /\ DOMAIN w = 1 .. Len(w)
        /\ Append(w, x)[Len(w) + 1] = x
    OBVIOUS
  <2>2. \A i \in 1 .. Len(w) : Append(w, x)[i] = w[i] /\ i \in 1 .. Len(w) + 1
    OBVIOUS
  <2>3. Len(w) + 1 \in 1 .. Len(w) + 1
    BY <2>1
  <2>4. QED
    BY <2>1, <2>2, <2>3 DEF InWal
<1>2. InWal(w) \cup {x} \subseteq InWal(<<x>> \o w)
  <2>1. Len(w) \in Nat /\ DOMAIN (<<x>> \o w) = 1 .. Len(w) + 1 /\ DOMAIN w = 1 .. Len(w)
        /\ (<<x>> \o w)[1] = x
    OBVIOUS
  <2>2. \A i \in 1 .. Len(w) : (<<x>> \o w)[i + 1] = w[i] /\ i + 1 \in 1 .. Len(w) + 1
    OBVIOUS
  <2>3. \A i \in 1 .. Len(w) : \E j \in 1 .. Len(w) + 1 : (<<x>> \o w)[j] = w[i]
    BY <2>2
  <2>4. 1 \in 1 .. Len(w) + 1
    BY <2>1
  <2>5. x \in InWal(<<x>> \o w)
    BY <2>1, <2>4 DEF InWal
  <2>6. InWal(w) \subseteq InWal(<<x>> \o w)
    BY <2>1, <2>3 DEF InWal
  <2>7. QED
    BY <2>5, <2>6
<1>3. ASSUME w # <<>> PROVE InWal(w) \subseteq InWal(Tail(w)) \cup {Head(w)}
  <2>1. Len(w) \in Nat \ {0} /\ Head(w) = w[1] /\ DOMAIN w = 1 .. Len(w)
        /\ DOMAIN Tail(w) = 1 .. Len(w) - 1
    BY <1>3
  <2>2. \A j \in 1 .. Len(w) - 1 : Tail(w)[j] = w[j + 1]
    BY <1>3
  <2>3. ASSUME NEW i \in 1 .. Len(w), i # 1 PROVE i - 1 \in 1 .. Len(w) - 1 /\ Tail(w)[i - 1] = w[i]
    BY <2>1, <2>2, <2>3
  <2>4. QED
    BY <2>1, <2>3 DEF InWal
<1>4. QED
  BY <1>1, <1>2, <1>3

(* The cap cuts off as many entries at most as the WAL gets shorter.       *)
LEMMA WalCut ==
  ASSUME NEW S, NEW w \in Seq(S), NEW n \in Nat, n < Len(w)
  PROVE  \E L : /\ InWal(w) \subseteq InWal(SubSeq(w, 1, n)) \cup L
                /\ IsFiniteSet(L) /\ Cardinality(L) <= Len(w) - n
<1> DEFINE I == n + 1 .. Len(w)
           f == [i \in I |-> w[i]]
           L == {w[i] : i \in I}
<1>1. Len(w) \in Nat /\ DOMAIN w = 1 .. Len(w)
  OBVIOUS
<1>2. IsFiniteSet(I) /\ Cardinality(I) = Len(w) - n
  BY <1>1, FS_Interval
<1>3. f \in Surjection(I, L)
  BY DEF Surjection
<1>4. IsFiniteSet(L) /\ Cardinality(L) <= Len(w) - n
  BY <1>2, <1>3, FS_Surjection
<1>5. ASSUME NEW i \in 1 .. n PROVE i \in DOMAIN SubSeq(w, 1, n) /\ SubSeq(w, 1, n)[i] = w[i]
  BY <1>1
<1>6. InWal(w) \subseteq InWal(SubSeq(w, 1, n)) \cup L
  <2>1. ASSUME NEW i \in 1 .. Len(w) PROVE w[i] \in InWal(SubSeq(w, 1, n)) \cup L
    <3>1. CASE i \in 1 .. n
      BY <1>5, <3>1 DEF InWal
    <3>2. CASE i \notin 1 .. n
      <4>1. i \in I
        BY <1>1, <3>2
      <4>2. QED
        BY <4>1
    <3>3. QED
      BY <3>1, <3>2
  <2>2. QED
    BY <1>1, <2>1 DEF InWal
<1>7. QED
  BY <1>4, <1>6

-----------------------------------------------------------------------------
(* A call that flushes has stored its own entry. *)
OwnRow ==
  \A c \in Entries : step[c] \in {"flushing", "replaying", "restoring"} => c \in table

Losses == failures + overflow
LossInv == CustodyTypeOK /\ OwnRow /\ IsFiniteSet(Missing) /\ OneLossPerFailure

(* A step loses at most the set L, and accounts for it. *)
Loses(c, L) ==
  /\ Kept \cap Entries \subseteq Kept' \cup L
  /\ step'[c] \in Closed \ {"raised"} => c \in Kept' \cup L
  /\ IsFiniteSet(L) /\ Cardinality(L) <= Losses' - Losses

LEMMA OwnRowKept ==
  ASSUME LossInv, NEW c \in Entries, Start(c) \/ AdvanceEntry(c) \/ Fail(c)
  PROVE  OwnRow' /\ table \subseteq table' /\ \A d \in Entries : d # c => step'[d] = step[d]
<1> step \in [Entries -> {"new"} \cup Active \cup Closed]
  BY DEF LossInv, CustodyTypeOK
<1> USE DEF LossInv, OwnRow, Move, End, Closed
<1>1. CASE Start(c) \/ AskToLog(c) \/ AskRaises(c) \/ AskNobody(c) \/ Insert(c)
  BY <1>1 DEF Start, AskToLog, AskRaises, AskNobody, Insert
<1>2. CASE InsertFails(c)
  BY <1>2 DEF InsertFails, MaybeInserted
<1>3. CASE Queue(c) \/ QueueFails(c) \/ Pop(c) \/ Flushed(c) \/ PopFails(c)
  BY <1>3 DEF Queue, QueueFails, Pop, Flushed, PopFails
<1>4. CASE Replay(c) \/ Bury(c) \/ BuryFails(c) \/ Restore(c) \/ RestoreFails(c)
  BY <1>4 DEF Replay, Bury, BuryFails, Restore, RestoreFails
<1>5. CASE ReplayFails(c)
  BY <1>5 DEF ReplayFails, MaybeInserted
<1>6. CASE CancelEntry(c)
  BY <1>6 DEF CancelEntry, CutOff, MaybeInserted
<1>7. QED
  BY <1>1, <1>2, <1>3, <1>4, <1>5, <1>6 DEF AdvanceEntry, Fail

LEMMA NothingLost ==
  ASSUME NEW c \in Entries, Kept \cap Entries \subseteq Kept', step'[c] \in Closed \ {"raised"} => c \in Kept',
         CustodyTypeOK, CustodyTypeOK', failures' >= failures, overflow' >= overflow
  PROVE  Loses(c, {})
BY FS_EmptySet DEF Loses, Losses, CustodyTypeOK

LEMMA OneLost ==
  ASSUME NEW c \in Entries, NEW x, Kept \cap Entries \subseteq Kept' \cup {x},
         step'[c] \in Closed \ {"raised"} => c \in Kept' \cup {x},
         CustodyTypeOK, CustodyTypeOK', Mishap, UNCHANGED overflow
  PROVE  Loses(c, {x})
<1>1. IsFiniteSet({x}) /\ Cardinality({x}) = 1
  BY FS_Singleton
<1>2. Losses' - Losses = 1
  BY CustodyAssumption DEF Mishap, Losses, CustodyTypeOK, CustodyAssumption
<1>3. QED
  BY <1>1, <1>2 DEF Loses

(* How Kept is put together, and what a step does to its parts.            *)
Hold == {held[d] : d \in Entries}

LEMMA KeptParts == Kept = table \cup dead \cup InWal(wal) \cup Hold
BY DEF Kept, InWal, Hold

LEMMA HoldSettled ==
  ASSUME CustodyTypeOK, NEW c \in Entries, held' = [held EXCEPT ![c] = None]
  PROVE  Hold \subseteq Hold' \cup {held[c]}
BY DEF Hold, CustodyTypeOK

LEMMA HoldUnsettled ==
  ASSUME CustodyTypeOK, NEW c \in Entries, held' = [held EXCEPT ![c] = None], held[c] = None
  PROVE  Hold' = Hold
BY DEF Hold, CustodyTypeOK

(* The steps of log_entry. *)
LEMMA LogLoses ==
  ASSUME LossInv, CustodyTypeOK', NEW c \in Entries,
         Start(c) \/ AskToLog(c) \/ AskRaises(c) \/ AskNobody(c) \/ Insert(c) \/ InsertFails(c)
           \/ Queue(c) \/ QueueFails(c)
  PROVE  \E L : Loses(c, L)
<1>0. step \in [Entries -> {"new"} \cup Active \cup Closed] /\ wal \in Seq(Entries)
      /\ failures \in Nat /\ overflow \in Nat
  BY CustodyAssumption DEF LossInv, CustodyTypeOK, CustodyAssumption
<1>1. CASE Start(c) \/ AskToLog(c) \/ AskRaises(c) \/ AskNobody(c) \/ Insert(c) \/ InsertFails(c)
  <2>1. table \subseteq table' /\ dead' = dead /\ wal' = wal /\ held' = held
        /\ failures' = failures /\ overflow' = overflow
    BY <1>1 DEF Start, AskToLog, AskRaises, AskNobody, Insert, InsertFails, DbFault, MaybeInserted, faults
  <2>2. step'[c] \notin Closed \ {"raised"}
    BY <1>0, <1>1 DEF Start, AskToLog, AskRaises, AskNobody, Insert, InsertFails, Move, End, Closed
  <2>3. Kept \subseteq Kept'
    BY <2>1 DEF Kept
  <2>4. QED
    BY <1>0, <2>1, <2>2, <2>3, NothingLost DEF LossInv
<1>2. CASE Queue(c)
  <2> DEFINE w == Append(wal, c)
  <2>1. UNCHANGED <<table, dead, held, failures>>
    BY <1>2 DEF Queue
  <2>2. w \in Seq(Entries) /\ Len(w) \in Nat /\ InWal(wal) \cup {c} \subseteq InWal(w)
    <3>1. w \in Seq(Entries) /\ Len(w) \in Nat
      BY <1>0
    <3>2. InWal(wal) \cup {c} \subseteq InWal(Append(wal, c))
      BY <1>0, WalHolds
    <3>3. QED
      BY <3>1, <3>2
  <2>3. CASE wal' = w /\ UNCHANGED overflow
    <3>1. Kept \subseteq Kept' /\ c \in Kept'
      BY <2>1, <2>2, <2>3 DEF Kept, InWal
    <3>2. QED
      BY <1>0, <2>1, <2>3, <3>1, NothingLost DEF LossInv
  <2>4. CASE Len(w) > WalCap /\ wal' = SubSeq(w, 1, WalCap) /\ overflow' = overflow + (Len(w) - WalCap)
    <3>1. WalCap \in Nat
      BY CustodyAssumption DEF CustodyAssumption
    <3>2. PICK L : /\ InWal(w) \subseteq InWal(SubSeq(w, 1, WalCap)) \cup L
                   /\ IsFiniteSet(L) /\ Cardinality(L) <= Len(w) - WalCap
      BY <2>2, <2>4, <3>1, WalCut
    <3>3. Kept \subseteq Kept' \cup L /\ c \in Kept' \cup L
      BY <2>1, <2>2, <2>4, <3>2 DEF Kept, InWal
    <3>4. Losses' - Losses = Len(w) - WalCap
      BY <1>0, <2>1, <2>2, <2>4, <3>1 DEF Losses
    <3>5. QED
      BY <3>2, <3>3, <3>4 DEF Loses
  <2>5. QED
    BY <1>2, <2>3, <2>4 DEF Queue, Pushed
<1>3. CASE QueueFails(c)
  <2>1. UNCHANGED <<table, dead, held, overflow>> /\ wal' \in {wal, Append(wal, c)} /\ Mishap
    BY <1>3 DEF QueueFails
  <2>2. InWal(wal) \subseteq InWal(wal')
    BY <1>0, <2>1, WalHolds
  <2>3. Kept \subseteq Kept' \cup {c}
    BY <2>1, <2>2 DEF Kept, InWal
  <2>4. Loses(c, {c})
    BY <2>1, <2>3, OneLost DEF LossInv
  <2>5. QED
    BY <2>4
<1>4. QED
  BY <1>1, <1>2, <1>3

(* The steps of a flush. *)
FlushStep(c) ==
  Pop(c) \/ Flushed(c) \/ PopFails(c) \/ Replay(c) \/ Bury(c) \/ BuryFails(c) \/ ReplayFails(c)
    \/ Restore(c) \/ RestoreFails(c)

LEMMA LossTypes ==
  ASSUME CustodyTypeOK
  PROVE  /\ step \in [Entries -> {"new"} \cup Active \cup Closed] /\ wal \in Seq(Entries)
         /\ held \in [Entries -> Entries \cup {None}] /\ None \notin Entries
         /\ Losses \in Nat
<1>1. failures \in Nat /\ overflow \in Nat
  BY CustodyAssumption DEF CustodyTypeOK, CustodyAssumption
<1>2. Losses \in Nat
  BY <1>1 DEF Losses
<1>3. QED
  BY <1>2, CustodyAssumption DEF CustodyTypeOK, CustodyAssumption

LEMMA FlusherKept ==
  ASSUME LossInv, NEW c \in Entries, FlushStep(c)
  PROVE  c \in Kept' /\ table \subseteq table'
<1>1. c \in table
  BY DEF FlushStep, Pop, Flushed, PopFails, Replay, Bury, BuryFails, ReplayFails, Restore, RestoreFails, Move, End,
         LossInv, OwnRow
<1>2. AdvanceEntry(c) \/ Fail(c)
  BY DEF FlushStep, AdvanceEntry, Fail
<1>3. table \subseteq table'
  BY <1>2, OwnRowKept
<1>4. QED
  BY <1>1, <1>3 DEF Kept

LEMMA FlushLoses ==
  ASSUME LossInv, CustodyTypeOK', NEW c \in Entries, FlushStep(c)
  PROVE  \E L : Loses(c, L)
<1>0. step \in [Entries -> {"new"} \cup Active \cup Closed] /\ wal \in Seq(Entries)
      /\ failures \in Nat /\ overflow \in Nat /\ held \in [Entries -> Entries \cup {None}]
      /\ None \notin Entries /\ CustodyTypeOK
  <2>1. CustodyTypeOK
    BY DEF LossInv
  <2>2. failures \in Nat /\ overflow \in Nat
    BY <2>1, CustodyAssumption DEF CustodyTypeOK, CustodyAssumption
  <2>3. QED
    BY <2>1, <2>2, LossTypes
<1>1. c \in Kept' /\ table \subseteq table'
  BY FlusherKept
<1>2. CASE Pop(c)
  <2>1. step[c] = "flushing" /\ wal # <<>> /\ held' = [held EXCEPT ![c] = Head(wal)]
        /\ wal' = Tail(wal) /\ UNCHANGED <<table, dead, failures, overflow>>
    BY <1>2 DEF Pop, Move, faults
  <2>2. held[c] = None
    BY <2>1 DEF LossInv, CustodyTypeOK
  <2>3. Hold \subseteq Hold' \cup {None} /\ Head(wal) \in Hold'
    BY <1>0, <2>1, <2>2 DEF Hold
  <2>4. InWal(wal) \subseteq InWal(wal') \cup {Head(wal)}
    BY <1>0, <2>1, WalHolds
  <2>5. Kept \cap Entries \subseteq Kept'
    BY <1>0, <2>1, <2>3, <2>4 DEF Kept, InWal, Hold
  <2>6. QED
    BY <1>0, <1>1, <2>1, <2>5, NothingLost
<1>3. CASE Flushed(c)
  <2>1. UNCHANGED <<table, dead, held, wal, failures, overflow>>
    BY <1>3 DEF Flushed, faults
  <2>2. Kept' = Kept
    BY <2>1 DEF Kept
  <2>3. QED
    BY <1>0, <1>1, <2>1, <2>2, NothingLost
<1>4. CASE PopFails(c)
  <2>1. UNCHANGED <<table, dead, held, overflow>> /\ Mishap
        /\ (wal' = wal \/ (wal # <<>> /\ wal' = Tail(wal)))
    BY <1>4 DEF PopFails
  <2>2. InWal(wal) \subseteq InWal(wal') \cup {Head(wal)}
    BY <1>0, <2>1, WalHolds
  <2>3. Kept \cap Entries \subseteq Kept' \cup {Head(wal)}
    BY <2>1, <2>2 DEF Kept, InWal
  <2>4. QED
    BY <1>0, <1>1, <2>1, <2>3, OneLost
<1>5. ASSUME Replay(c) \/ Bury(c) \/ Restore(c) PROVE \E L : Loses(c, L)
  <2>1. held' = [held EXCEPT ![c] = None] /\ UNCHANGED <<failures, overflow>>
        /\ step[c] \in {"replaying", "restoring"}
    BY <1>5 DEF Replay, Bury, Restore, Settled, faults, Move, End
  <2>2. held[c] \in Entries
    BY <1>0, <2>1 DEF CustodyTypeOK
  <2>3. Hold \subseteq Hold' \cup {held[c]}
    BY <1>0, <2>1, HoldSettled
  <2>4. InWal(wal) \cup {held[c]} \subseteq InWal(<<held[c]>> \o wal)
    BY <1>0, <2>2, WalHolds
  <2>5. CASE Replay(c)
    <3>1. table' = table \cup {held[c]} /\ UNCHANGED <<wal, dead>>
      BY <2>5 DEF Replay
    <3>2. Kept \subseteq Kept'
      BY <2>3, <3>1 DEF Kept, Hold
    <3>3. QED
      BY <1>0, <1>1, <2>1, <3>2, NothingLost
  <2>6. CASE Bury(c)
    <3>1. dead' = dead \cup {held[c]} /\ UNCHANGED <<wal, table>>
      BY <2>6 DEF Bury
    <3>2. Kept \subseteq Kept'
      BY <2>3, <3>1 DEF Kept, Hold
    <3>3. QED
      BY <1>0, <1>1, <2>1, <3>2, NothingLost
  <2>7. CASE Restore(c)
    <3>1. wal' = <<held[c]>> \o wal /\ UNCHANGED <<dead, table>>
      BY <2>7 DEF Restore
    <3>2. InWal(wal) \cup {held[c]} \subseteq InWal(wal')
      BY <2>4, <3>1
    <3>3. Kept \subseteq Kept'
      BY <2>3, <3>1, <3>2 DEF Kept, Hold, InWal
    <3>4. QED
      BY <1>0, <1>1, <2>1, <3>3, NothingLost
  <2>8. QED
    BY <1>5, <2>5, <2>6, <2>7
<1>6. CASE ReplayFails(c)
  <2>1. UNCHANGED <<dead, held, wal, failures, overflow>>
    BY <1>6 DEF ReplayFails, DbFault
  <2>2. Kept \subseteq Kept'
    BY <1>1, <2>1 DEF Kept
  <2>3. QED
    BY <1>0, <1>1, <2>1, <2>2, NothingLost
<1>7. CASE BuryFails(c) \/ RestoreFails(c)
  <2>1. held' = [held EXCEPT ![c] = None] /\ UNCHANGED overflow /\ Mishap
        /\ step[c] \in {"replaying", "restoring"}
    BY <1>7 DEF BuryFails, RestoreFails, Settled, Move, End
  <2>2. held[c] \in Entries
    BY <1>0, <2>1 DEF CustodyTypeOK
  <2>3. dead \subseteq dead' /\ wal' \in {wal, <<held[c]>> \o wal}
    BY <1>7 DEF BuryFails, RestoreFails
  <2>4. InWal(wal) \subseteq InWal(wal')
    BY <1>0, <2>2, <2>3, WalHolds
  <2>5. Hold \subseteq Hold' \cup {held[c]}
    BY <1>0, <2>1, HoldSettled
  <2>6. Kept \subseteq Kept' \cup {held[c]}
    BY <1>1, <2>3, <2>4, <2>5 DEF Kept, Hold, InWal
  <2>7. QED
    BY <1>0, <1>1, <2>1, <2>6, OneLost
<1>8. QED
  BY <1>2, <1>3, <1>4, <1>5, <1>6, <1>7 DEF FlushStep

(* A cancellation loses the entry the call was writing, or the one it held *)
(* or had popped.                                                          *)
LEMMA CancelLoses ==
  ASSUME LossInv, CustodyTypeOK', NEW c \in Entries, CancelEntry(c)
  PROVE  \E L : Loses(c, L)
<1>0. step \in [Entries -> {"new"} \cup Active \cup Closed] /\ wal \in Seq(Entries)
      /\ held \in [Entries -> Entries \cup {None}]
      /\ None \notin Entries /\ CustodyTypeOK
  BY CustodyAssumption DEF LossInv, CustodyTypeOK, CustodyAssumption
<1>1. held' = [held EXCEPT ![c] = None] /\ UNCHANGED overflow /\ Mishap /\ CutOff(c)
  BY DEF CancelEntry, Settled
<1>2. ASSUME step[c] \notin {"replaying", "restoring"} PROVE Hold' = Hold
  BY <1>0, <1>1, <1>2, HoldUnsettled DEF CustodyTypeOK
<1>3. CASE step[c] \in {"asking", "inserting", "queueing"}
  <2>1. table \subseteq table' /\ dead' = dead /\ wal' \in {wal, Append(wal, c)}
    BY <1>1, <1>3 DEF CutOff, MaybeInserted, End, Move
  <2>2. InWal(wal) \subseteq InWal(wal')
    BY <1>0, <2>1, WalHolds
  <2>3. Kept \subseteq Kept' \cup {c}
    BY <1>2, <1>3, <2>1, <2>2 DEF Kept, Hold, InWal
  <2>4. QED
    BY <1>0, <1>1, <2>3, OneLost
<1>4. CASE step[c] \in {"flushing", "replaying", "restoring"}
  <2>1. c \in table
    BY <1>4 DEF LossInv, OwnRow
  <2>2. table \subseteq table' /\ dead' = dead
    BY <1>1, <1>4 DEF CutOff, MaybeInserted, End, Move
  <2>3. c \in Kept'
    BY <2>1, <2>2 DEF Kept
  <2>4. CASE step[c] = "flushing"
    <3>1. wal' = wal \/ (wal # <<>> /\ wal' = Tail(wal))
      BY <1>1, <2>4 DEF CutOff, End, Move
    <3>2. InWal(wal) \subseteq InWal(wal') \cup {Head(wal)}
      BY <1>0, <3>1, WalHolds
    <3>3. Kept \subseteq Kept' \cup {Head(wal)}
      BY <1>2, <2>2, <2>4, <3>2 DEF Kept, Hold, InWal
    <3>4. QED
      BY <1>0, <1>1, <2>3, <3>3, OneLost
  <2>5. CASE step[c] \in {"replaying", "restoring"}
    <3>1. held[c] \in Entries
      BY <1>0, <2>5 DEF CustodyTypeOK
    <3>2. wal' \in {wal, <<held[c]>> \o wal}
      BY <1>1, <2>5 DEF CutOff, End, Move
    <3>3. InWal(wal) \subseteq InWal(wal')
      BY <1>0, <3>1, <3>2, WalHolds
    <3>4. Hold \subseteq Hold' \cup {held[c]}
      BY <1>0, <1>1, HoldSettled
    <3>5. Kept \subseteq Kept' \cup {held[c]}
      BY <2>2, <3>3, <3>4 DEF Kept, Hold, InWal
    <3>6. QED
      BY <1>0, <1>1, <2>3, <3>5, OneLost
  <2>6. QED
    BY <1>4, <2>4, <2>5
<1>5. QED
  BY <1>1, <1>3, <1>4 DEF CutOff, End, Move

-----------------------------------------------------------------------------
(* So the losses bound what is missing.                                    *)
LEMMA LossesNat ==
  ASSUME CustodyTypeOK'
  PROVE  Losses' \in Nat
<1>1. failures' \in Nat /\ overflow' \in Nat
  BY CustodyAssumption DEF CustodyTypeOK, CustodyAssumption
<1>2. \A m, n \in Nat : m + n \in Nat
  OBVIOUS
<1>3. QED
  BY <1>1, <1>2 DEF Losses

LEMMA LossStep ==
  ASSUME LossInv, CustodyTypeOK', [CustodyNext]_custodyVars
  PROVE  LossInv'
<1>1. CASE UNCHANGED custodyVars
  BY <1>1 DEF custodyVars, faults, LossInv, OwnRow, Missing, Kept, OneLossPerFailure
<1>2. ASSUME NEW c \in Entries, Start(c) \/ AdvanceEntry(c) \/ Fail(c) PROVE LossInv'
  <2>1. OwnRow' /\ \A d \in Entries : d # c => step'[d] = step[d]
    BY <1>2, OwnRowKept
  <2>2. PICK L : Loses(c, L)
    BY <1>2, LogLoses, FlushLoses, CancelLoses DEF AdvanceEntry, Fail, FlushStep
  <2>3. Missing' \subseteq Missing \cup L
    BY <2>1, <2>2 DEF Loses, Missing
  <2>4. IsFiniteSet(Missing) /\ IsFiniteSet(L) /\ Cardinality(Missing) <= Losses
        /\ Cardinality(L) <= Losses' - Losses
    BY <2>2 DEF LossInv, OneLossPerFailure, Losses, Loses
  <2>5. IsFiniteSet(Missing \cup L) /\ Cardinality(Missing \cup L) <= Cardinality(Missing) + Cardinality(L)
    <3>1. IsFiniteSet(Missing \cup L) /\ IsFiniteSet(Missing \cap L)
          /\ Cardinality(Missing \cup L) = Cardinality(Missing) + Cardinality(L) - Cardinality(Missing \cap L)
      BY <2>4, FS_Union, FS_Intersection
    <3>2. Cardinality(Missing) \in Nat /\ Cardinality(L) \in Nat /\ Cardinality(Missing \cap L) \in Nat
      BY <2>4, <3>1, FS_CardinalityType
    <3>3. QED
      BY <3>1, <3>2
  <2>6. IsFiniteSet(Missing') /\ Cardinality(Missing') <= Cardinality(Missing \cup L)
    BY <2>3, <2>5, FS_Subset
  <2>7. Cardinality(Missing') \in Nat /\ Cardinality(Missing \cup L) \in Nat
        /\ Cardinality(Missing) \in Nat /\ Cardinality(L) \in Nat
    BY <2>4, <2>5, <2>6, FS_CardinalityType
  <2>8. Losses \in Nat /\ Losses' \in Nat
    <3>1. Losses \in Nat
      BY LossTypes DEF LossInv
    <3>2. Losses' \in Nat
      BY LossesNat
    <3>3. QED
      BY <3>1, <3>2
  <2>9. Cardinality(Missing') <= Losses'
    BY <2>4, <2>5, <2>6, <2>7, <2>8
  <2>10. QED
    BY <2>1, <2>6, <2>9 DEF LossInv, OneLossPerFailure, Losses
<1>3. QED
  BY <1>1, <1>2 DEF CustodyNext

(* OneLossPerFailure: whatever fails, and however often, as many signed    *)
(* entries are gone at most as there were failed Redis calls, cancelled    *)
(* calls and entries cut off by the cap.                                   *)
THEOREM FailuresLoseOneEach == CustodySpec => []OneLossPerFailure
<1>1. CustodyInit /\ CustodyTypeOK => LossInv
  <2>1. SUFFICES ASSUME CustodyInit, CustodyTypeOK PROVE LossInv
    OBVIOUS
  <2>2. \A c \in Entries : step[c] = "new"
    BY <2>1 DEF CustodyInit
  <2>3. OwnRow /\ Missing = {}
    BY <2>2 DEF OwnRow, Missing, Closed
  <2>4. failures = 0 /\ overflow = 0
    BY <2>1 DEF CustodyInit
  <2>5. QED
    BY <2>1, <2>3, <2>4, FS_EmptySet DEF LossInv, OneLossPerFailure
<1>2. LossInv /\ CustodyTypeOK' /\ [CustodyNext]_custodyVars => LossInv'
  BY LossStep
<1>3. LossInv => OneLossPerFailure
  BY DEF LossInv
<1>4. CustodySpec => []CustodyTypeOK
  BY TypeCorrect
<1>5. QED
  BY <1>1, <1>2, <1>3, <1>4, PTL DEF CustodySpec
=============================================================================
