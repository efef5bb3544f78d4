---------------------------- MODULE CustodyChain ----------------------------
(***************************************************************************)
(* The chain of custody (CustodyLogger in core/custody_logger.py): every   *)
(* agent of a session has a chain of signed entries in Postgres, each      *)
(* naming its predecessor.  A call of log_entry holds the lock of its      *)
(* chain, reads the last entry, signs, and inserts.  An entry that cannot  *)
(* be inserted goes to a write-ahead log (WAL) in Redis, which all chains  *)
(* share and which the next successful call of any chain flushes.          *)
(*                                                                         *)
(* An entry is named by the call that logs it, and its content is taken to *)
(* be unique, so that a reference by content hash names one entry.  The    *)
(* bound of 1000 entries on the dead-letter list is left out.              *)
(***************************************************************************)
EXTENDS Naturals, Sequences, FiniteSets

CONSTANTS
  Agents,        \* the chains: one per session and agent
  Entries,       \* calls of log_entry
  AgentOf,       \* the chain a call writes to
  Poison,        \* entries Postgres can never store (SQLSTATE class 22)
  None,          \* no entry, no call
  WalCap,        \* entries the WAL keeps
  FlushBatch,    \* entries one flush handles
  MaxDbFaults, MaxFailures \* bounds of the failures

ASSUME CustodyAssumption ==
  /\ AgentOf \in [Entries -> Agents] /\ Poison \subseteq Entries
  /\ None \notin Entries
  /\ WalCap \in Nat \ {0} /\ FlushBatch \in Nat \ {0}
  /\ MaxDbFaults \in Nat /\ MaxFailures \in Nat

VARIABLES
  step,      \* where each call is
  chainLock, \* who holds the lock of each chain
  logClock, stamp, \* signing order: the latest, and of each entry (0: none)
  prior,     \* prior_entry_ref of each entry
  table,     \* rows of chain_of_custody
  wal,       \* the list forensic:custody:wal
  dead,      \* the list forensic:custody:wal:dead
  held,      \* the entry each flush has popped and not yet settled
  popped,    \* how many it has popped
  dbFaults,  \* failed calls of Postgres
  failures,  \* failed calls of Redis, and calls of log_entry cut off
  overflow   \* entries the cap of the WAL has cut off

faults == <<dbFaults, failures, overflow>>
custodyVars == <<step, chainLock, logClock, stamp, prior, table, wal, dead, held, popped, faults>>

(* A call that is under way holds its lock.  It ends with the entry stored *)
(* (its id returned), queued in the WAL, in neither for all it knows       *)
(* (CUSTODY GAP), with an exception before anything was written, or        *)
(* cancelled.                                                              *)
Active == {"asking", "inserting", "queueing", "flushing", "replaying", "restoring"}
Closed == {"stored", "queued", "gap", "raised", "cancelled"}

CustodyTypeOK ==
  /\ step \in [Entries -> {"new"} \cup Active \cup Closed]
  /\ chainLock \in [Agents -> Entries \cup {None}]
  /\ logClock \in Nat /\ stamp \in [Entries -> 0 .. logClock]
  /\ prior \in [Entries -> Entries \cup {None}]
  /\ table \subseteq Entries /\ dead \subseteq Entries
  /\ wal \in Seq(Entries)
  /\ held \in [Entries -> Entries \cup {None}]
  /\ popped \in [Entries -> 0 .. FlushBatch]
  /\ dbFaults \in 0 .. MaxDbFaults /\ failures \in 0 .. MaxFailures
  /\ overflow \in Nat
  /\ \A c \in Entries : step[c] \in Active <=> chainLock[AgentOf[c]] = c
  /\ \A c \in Entries : step[c] \in {"replaying", "restoring"} <=> held[c] # None

CustodyInit ==
  /\ step = [c \in Entries |-> "new"]
  /\ chainLock = [a \in Agents |-> None]
  /\ logClock = 0 /\ stamp = [c \in Entries |-> 0]
  /\ prior = [c \in Entries |-> None]
  /\ table = {} /\ wal = <<>> /\ dead = {}
  /\ held = [c \in Entries |-> None]
  /\ popped = [c \in Entries |-> 0]
  /\ dbFaults = 0 /\ failures = 0 /\ overflow = 0

-----------------------------------------------------------------------------
Move(c, from, to) == step[c] = from /\ step' = [step EXCEPT ![c] = to]

(* The call ends and leaves the lock.                                      *)
End(c, from, to) == Move(c, from, to) /\ chainLock' = [chainLock EXCEPT ![AgentOf[c]] = None]

DbFault == dbFaults < MaxDbFaults /\ dbFaults' = dbFaults + 1 /\ UNCHANGED failures
Mishap == failures < MaxFailures /\ failures' = failures + 1 /\ UNCHANGED dbFaults

(* What an INSERT of entry e makes of the table: entry_id is its key.      *)
Insertable(e) == e \notin Poison /\ e \notin table
MaybeInserted(e) == table' \in {table, table \cup ({e} \ Poison)}

Chain(a) == {e \in table : AgentOf[e] = a}

(* ORDER BY timestamp_utc DESC LIMIT 1                                     *)
IsLast(a, p) ==
  \/ p = None /\ Chain(a) = {}
  \/ p \in Chain(a) /\ \A e \in Chain(a) : stamp[e] <= stamp[p]

-----------------------------------------------------------------------------
(* log_entry                                                               *)

(* Mutant of Start: calls of one chain are not serialised.                 *)
StartUnlocked(c) ==
  /\ Move(c, "new", "asking")
  /\ chainLock' = [chainLock EXCEPT ![AgentOf[c]] = c]
  /\ UNCHANGED <<logClock, stamp, prior, table, wal, dead, held, popped, faults>>

Start(c) ==
  /\ Move(c, "new", "asking")
  /\ chainLock[AgentOf[c]] = None
  /\ chainLock' = [chainLock EXCEPT ![AgentOf[c]] = c]
  /\ UNCHANGED <<logClock, stamp, prior, table, wal, dead, held, popped, faults>>

Sign(c, p) ==
  /\ prior' = [prior EXCEPT ![c] = p]
  /\ logClock' = logClock + 1
  /\ stamp' = [stamp EXCEPT ![c] = logClock + 1]

AskToLog(c) ==
  /\ Move(c, "asking", "inserting")
  /\ \E p \in Entries \cup {None} : IsLast(AgentOf[c], p) /\ Sign(c, p)
  /\ UNCHANGED <<chainLock, table, wal, dead, held, popped, faults>>

(* The signing key or the last entry cannot be read: outside of the try.   *)
AskRaises(c) ==
  /\ End(c, "asking", "raised")
  /\ DbFault
  /\ UNCHANGED <<logClock, stamp, prior, table, wal, dead, held, popped, overflow>>

(* A logger that never got a Postgres client.                              *)
AskNobody(c) ==
  /\ Move(c, "asking", "queueing")
  /\ DbFault
  /\ Sign(c, None)
  /\ UNCHANGED <<chainLock, table, wal, dead, held, popped, overflow>>

Insert(c) ==
  /\ Move(c, "inserting", "flushing")
  /\ Insertable(c)
  /\ table' = table \cup {c}
  /\ UNCHANGED <<chainLock, logClock, stamp, prior, wal, dead, held, popped, faults>>

(* The connection breaks, before or after the row is committed, or the     *)
(* entry cannot be stored.                                                 *)
InsertFails(c) ==
  /\ Move(c, "inserting", "queueing")
  /\ \/ DbFault /\ MaybeInserted(c)
     \/ c \in Poison /\ UNCHANGED <<table, dbFaults, failures>>
  /\ UNCHANGED <<chainLock, logClock, stamp, prior, wal, dead, held, popped, overflow>>

(* RPUSH, then LTRIM unless it fails or comes too late to cut.             *)
Pushed(c) ==
  LET w == Append(wal, c) IN
  \/ wal' = w /\ UNCHANGED overflow
  \/ /\ Len(w) > WalCap
     /\ wal' = SubSeq(w, 1, WalCap)
     /\ overflow' = overflow + (Len(w) - WalCap)

Queue(c) ==
  /\ End(c, "queueing", "queued")
  /\ Pushed(c)
  /\ UNCHANGED <<logClock, stamp, prior, table, dead, held, popped, dbFaults, failures>>

(* Redis fails, before or after the push: the exception is absorbed.       *)
QueueFails(c) ==
  /\ End(c, "queueing", "gap")
  /\ Mishap
  /\ wal' \in {wal, Append(wal, c)}
  /\ UNCHANGED <<logClock, stamp, prior, table, dead, held, popped, overflow>>

-----------------------------------------------------------------------------
(* _flush_retry_queue, in the call c that has just stored its entry        *)

Pop(c) ==
  /\ Move(c, "flushing", "replaying")
  /\ popped[c] < FlushBatch /\ wal # <<>>
  /\ held' = [held EXCEPT ![c] = Head(wal)]
  /\ wal' = Tail(wal)
  /\ popped' = [popped EXCEPT ![c] = @ + 1]
  /\ UNCHANGED <<chainLock, logClock, stamp, prior, table, dead, faults>>

Flushed(c) ==
  /\ End(c, "flushing", "stored")
  /\ wal = <<>> \/ popped[c] = FlushBatch
  /\ UNCHANGED <<logClock, stamp, prior, table, wal, dead, held, popped, faults>>

(* Redis fails: the entry may have been popped already.                    *)
PopFails(c) ==
  /\ End(c, "flushing", "stored")
  /\ Mishap
  /\ wal' = wal \/ (wal # <<>> /\ wal' = Tail(wal))
  /\ UNCHANGED <<logClock, stamp, prior, table, dead, held, popped, overflow>>

Settled(c) == held' = [held EXCEPT ![c] = None]

Replay(c) ==
  /\ Move(c, "replaying", "flushing")
  /\ Insertable(held[c])
  /\ table' = table \cup {held[c]}
  /\ Settled(c)
  /\ UNCHANGED <<chainLock, logClock, stamp, prior, wal, dead, popped, faults>>

(* Mutant of Bury: back to the head, and not counted.                      *)
BuryLater(c) ==
  /\ Move(c, "replaying", "flushing")
  /\ ~Insertable(held[c])
  /\ wal' = <<held[c]>> \o wal
  /\ popped' = [popped EXCEPT ![c] = @ - 1]
  /\ Settled(c)
  /\ UNCHANGED <<chainLock, logClock, stamp, prior, table, dead, faults>>

(* SQLSTATE 22xxx or 23505: the entry goes to the dead letters.            *)
Bury(c) ==
  /\ Move(c, "replaying", "flushing")
  /\ ~Insertable(held[c])
  /\ dead' = dead \cup {held[c]}
  /\ Settled(c)
  /\ UNCHANGED <<chainLock, logClock, stamp, prior, table, wal, popped, faults>>

BuryFails(c) ==
  /\ End(c, "replaying", "stored")
  /\ ~Insertable(held[c])
  /\ Mishap
  /\ dead' \in {dead, dead \cup {held[c]}}
  /\ Settled(c)
  /\ UNCHANGED <<logClock, stamp, prior, table, wal, popped, overflow>>

(* Mutant of ReplayFails: every failure counts as an un-insertable entry.  *)
ReplayBuries(c) ==
  /\ Move(c, "replaying", "flushing")
  /\ DbFault /\ MaybeInserted(held[c])
  /\ dead' = dead \cup {held[c]}
  /\ Settled(c)
  /\ UNCHANGED <<chainLock, logClock, stamp, prior, wal, popped, overflow>>

ReplayFails(c) ==
  /\ Move(c, "replaying", "restoring")
  /\ DbFault /\ MaybeInserted(held[c])
  /\ UNCHANGED <<chainLock, logClock, stamp, prior, wal, dead, held, popped, overflow>>

(* Mutant of Restore: the popped entry is not put back.                    *)
RestoreNothing(c) ==
  /\ End(c, "restoring", "stored")
  /\ Settled(c)
  /\ UNCHANGED <<logClock, stamp, prior, table, wal, dead, popped, faults>>

(* LPUSH, and the flush is over.                                           *)
Restore(c) ==
  /\ End(c, "restoring", "stored")
  /\ wal' = <<held[c]>> \o wal
  /\ Settled(c)
  /\ UNCHANGED <<logClock, stamp, prior, table, dead, popped, faults>>

RestoreFails(c) ==
  /\ End(c, "restoring", "stored")
  /\ Mishap
  /\ wal' \in {wal, <<held[c]>> \o wal}
  /\ Settled(c)
  /\ UNCHANGED <<logClock, stamp, prior, table, dead, popped, overflow>>

(* The caller's timeout cancels the call at an await; what was sent to     *)
(* Postgres or Redis there may have happened or not.                       *)
CutOff(c) ==
  \/ End(c, "asking", "cancelled") /\ UNCHANGED <<table, wal, dead>>
  \/ End(c, "inserting", "cancelled") /\ MaybeInserted(c) /\ UNCHANGED <<wal, dead>>
  \/ End(c, "queueing", "gap") /\ wal' \in {wal, Append(wal, c)} /\ UNCHANGED <<table, dead>>
  \/ /\ End(c, "flushing", "cancelled")
     /\ wal' = wal \/ (wal # <<>> /\ wal' = Tail(wal))
     /\ UNCHANGED <<table, dead>>
  \/ End(c, "replaying", "cancelled") /\ MaybeInserted(held[c]) /\ UNCHANGED <<wal, dead>>
  \/ /\ End(c, "restoring", "cancelled")
     /\ wal' \in {wal, <<held[c]>> \o wal}
     /\ UNCHANGED <<table, dead>>

CancelEntry(c) ==
  /\ Mishap
  /\ CutOff(c)
  /\ Settled(c)
  /\ UNCHANGED <<logClock, stamp, prior, popped, overflow>>

-----------------------------------------------------------------------------
AdvanceEntry(c) ==
  AskToLog(c) \/ Insert(c) \/ (InsertFails(c) /\ c \in Poison) \/ Queue(c)
    \/ Pop(c) \/ Flushed(c) \/ Replay(c) \/ Bury(c) \/ Restore(c)

Fail(c) ==
  AskRaises(c) \/ AskNobody(c) \/ InsertFails(c) \/ QueueFails(c) \/ PopFails(c)
    \/ BuryFails(c) \/ ReplayFails(c) \/ RestoreFails(c) \/ CancelEntry(c)

CustodyNext == \E c \in Entries : Start(c) \/ AdvanceEntry(c) \/ Fail(c)

CustodySpec == CustodyInit /\ [][CustodyNext]_custodyVars

(* An event loop with something to run runs some of it.                    *)
CustodyFairSpec == CustodySpec /\ WF_custodyVars(\E c \in Entries : Start(c) \/ AdvanceEntry(c))

-----------------------------------------------------------------------------
(* Properties                                                              *)

(* What verify_chain checks of entry e: its prior_entry_ref is the entry   *)
(* of the same agent before it in the order of signing.                    *)
Linked(e) ==
  LET before == {d \in Chain(AgentOf[e]) : stamp[d] < stamp[e]} IN
  IF prior[e] = None THEN before = {}
  ELSE prior[e] \in before /\ \A d \in before : stamp[d] <= stamp[prior[e]]

(* "Linked to the previous entry via prior_entry_ref", for every row.      *)
ChainLinked == \A e \in table : Linked(e)

(* A chain none of whose calls had to fall back on the WAL verifies,       *)
(* however its calls race, fail and are cancelled and whatever the flushes *)
(* of other chains insert meanwhile: verify_chain raises no false alarm.   *)
Diverted(a) == \E c \in Entries : AgentOf[c] = a /\ step[c] \in {"queued", "gap"}
UndivertedChainsVerify == \A e \in table : Diverted(AgentOf[e]) \/ Linked(e)

(* An entry is dead-lettered only when nothing is lost by it: it is stored *)
(* already, or never can be.                                               *)
DeadAreSettled == dead \subseteq table \cup Poison

(* No failure costs more than one entry: the signed entries that are in    *)
(* the table, the WAL, the dead letters and the hands of a flush no more   *)
(* are at most as many as the failed Redis calls, the cancelled calls and  *)
(* the entries cut off by the cap.                                         *)
Kept == table \cup dead \cup {wal[i] : i \in DOMAIN wal} \cup {held[c] : c \in Entries}
Missing == {c \in Entries : step[c] \in Closed \ {"raised"}} \ Kept
OneLossPerFailure == Cardinality(Missing) <= failures + overflow

(* Every call of log_entry ends and leaves its lock, poison in the WAL or  *)
(* not: time and again no call is under way.                               *)
CallsEnd == []<>(\A c \in Entries : step[c] \in {"new"} \cup Closed)
=============================================================================
