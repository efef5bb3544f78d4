--------------------------- MODULE VisualContext ---------------------------
(***************************************************************************)
(* The shared visual context of one file (core/visual_context_store.py).   *)
(* API and worker call create_visual_context_preflight for every session   *)
(* that holds the file. The context is kept under the hash of the file and *)
(* under the session; a lock in Redis elects who asks the vision model,    *)
(* and the others wait for what it stores.                                 *)
(***************************************************************************)
EXTENDS Naturals, FiniteSets

CONSTANTS
  Preflights,  \* calls of create_visual_context_preflight, API and worker
  Investigations,
  SessionOf,   \* the session of each call
  LockTTL,     \* _PREFLIGHT_LOCK_TTL, in ticks
  ReadTTL,     \* _SHORT_TTL_S, in ticks: no read expires sooner
  MaxTroubles, \* bound: Redis commands that fail, processes that die
  NoOne

ASSUME VisualAssumption ==
  /\ SessionOf \in [Preflights -> Investigations]
  /\ LockTTL \in Nat \ {0} /\ ReadTTL \in Nat \ {0}
  /\ MaxTroubles \in Nat
  /\ NoOne \notin Preflights

VARIABLES
  at,        \* where each call is
  has,       \* the calls with a context in hand
  owns,      \* have_lock
  patience,  \* ticks to its deadline as a waiter
  cached,    \* visual_context_by_hash: its time to live, 0 if absent
  shown,     \* the sessions with a context
  lock,      \* visual_context_lock: the token of a call
  lockLeft,
  asked,     \* history: calls that asked the vision model
  excused,   \* history: a fault, a death, a failed creation, an expiry
  visualFaults,
  deaths

visualVars == <<at, has, owns, patience, cached, shown, lock, lockLeft, asked,
                excused, visualFaults, deaths>>

Ended == {"returned", "dead"}

VisualTypeOK ==
  /\ at \in [Preflights -> {"look", "elect", "wait", "peek", "recheck", "create",
                            "saveSession", "saveHash", "release", "delete"} \cup Ended]
  /\ has \subseteq Preflights
  /\ owns \subseteq Preflights
  /\ patience \in [Preflights -> 0 .. LockTTL]
  /\ cached \in 0 .. ReadTTL
  /\ shown \subseteq Investigations
  /\ lock \in Preflights \cup {NoOne} /\ lockLeft \in 0 .. LockTTL
  /\ asked \subseteq Preflights
  /\ excused \in BOOLEAN
  /\ visualFaults \in 0 .. MaxTroubles /\ deaths \in 0 .. MaxTroubles

VisualInit ==
  /\ at = [p \in Preflights |-> "look"]
  /\ has = {}
  /\ owns = {}
  /\ patience = [p \in Preflights |-> 0]
  /\ cached = 0
  /\ shown = {}
  /\ lock = NoOne /\ lockLeft = 0
  /\ asked = {} /\ excused = FALSE
  /\ visualFaults = 0 /\ deaths = 0

-----------------------------------------------------------------------------
(* Helpers *)

Go(p, place) == at' = [at EXCEPT ![p] = place]
Hold(p) == has' = has \cup {p}
Create(p) == Go(p, "create") /\ asked' = asked \cup {p}

Trouble == visualFaults + deaths < MaxTroubles
RedisFault == Trouble /\ visualFaults' = visualFaults + 1 /\ excused' = TRUE

(* get_visual_context: the read of the session, else that of the file. An  *)
(* exception of Redis reads as a miss.                                     *)
Stored(p) == SessionOf[p] \in shown \/ cached > 0
Found(p) == Stored(p) /\ Hold(p) /\ UNCHANGED <<excused, visualFaults>>
Missed(p) ==
  /\ UNCHANGED has
  /\ \/ ~Stored(p) /\ UNCHANGED <<excused, visualFaults>>
     \/ RedisFault

(* Where a call goes with or without a context, past its last save. *)
AfterSave(p) == IF p \in owns THEN "release" ELSE "returned"

-----------------------------------------------------------------------------
(* create_visual_context_preflight *)

(* A hit is stored again, for the session and for the file. *)
Look(p) ==
  /\ at[p] = "look"
  /\ \/ Found(p) /\ Go(p, "saveSession")
     \/ Missed(p) /\ Go(p, "elect")
  /\ UNCHANGED <<owns, patience, cached, shown, lock, lockLeft, asked, deaths>>

(* Mutant of Elect: SET without NX. *)
ElectAnyway(p) ==
  /\ at[p] = "elect"
  /\ lock' = p /\ lockLeft' = LockTTL
  /\ owns' = owns \cup {p}
  /\ Go(p, "recheck")
  /\ UNCHANGED <<has, patience, cached, shown, asked, excused, visualFaults, deaths>>

(* SET NX EX: the lock, or the wait with its deadline. An error is no lock. *)
Elect(p) ==
  /\ at[p] = "elect"
  /\ \/ /\ lock = NoOne
        /\ lock' = p /\ lockLeft' = LockTTL
        /\ owns' = owns \cup {p}
        /\ Go(p, "recheck")
        /\ UNCHANGED <<patience, excused, visualFaults>>
     \/ /\ \/ lock # NoOne /\ UNCHANGED <<excused, visualFaults>>
           \/ RedisFault
        /\ patience' = [patience EXCEPT ![p] = LockTTL]
        /\ Go(p, "wait")
        /\ UNCHANGED <<lock, lockLeft, owns>>
  /\ UNCHANGED <<has, cached, shown, asked, deaths>>

(* No connection to Redis: no lock and no wait. *)
ElectNobody(p) ==
  /\ at[p] = "elect"
  /\ RedisFault
  /\ Create(p)
  /\ UNCHANGED <<has, owns, patience, cached, shown, lock, lockLeft, deaths>>

(* _wait_for_concurrent_creator: a context ends the wait ... *)
Wait(p) ==
  /\ at[p] = "wait"
  /\ \/ patience[p] = 0 /\ Create(p) /\ UNCHANGED <<has, excused, visualFaults>>
     \/ /\ patience[p] > 0
        /\ UNCHANGED asked
        /\ \/ Found(p) /\ Go(p, "saveSession")
           \/ Missed(p) /\ Go(p, "peek")
  /\ UNCHANGED <<owns, patience, cached, shown, lock, lockLeft, deaths>>

(* ... and so does a lock that is gone, or cannot be read. *)
Peek(p) ==
  /\ at[p] = "peek"
  /\ \/ lock # NoOne /\ Go(p, "wait") /\ UNCHANGED <<asked, excused, visualFaults>>
     \/ lock = NoOne /\ Create(p) /\ UNCHANGED <<excused, visualFaults>>
     \/ RedisFault /\ Create(p)
  /\ UNCHANGED <<has, owns, patience, cached, shown, lock, lockLeft, deaths>>

(* Double-checked, by the owner of the lock alone. *)
Recheck(p) ==
  /\ at[p] = "recheck"
  /\ \/ Found(p) /\ Go(p, "saveSession") /\ UNCHANGED asked
     \/ Missed(p) /\ Create(p)
  /\ UNCHANGED <<owns, patience, cached, shown, lock, lockLeft, deaths>>

(* The vision model gives a read, or the local ensemble. *)
Created(p) ==
  /\ at[p] = "create"
  /\ Hold(p)
  /\ Go(p, "saveSession")
  /\ UNCHANGED <<owns, patience, cached, shown, lock, lockLeft, asked, excused,
                 visualFaults, deaths>>

(* Mutant of CreationFails: the call returns without the finally. *)
CreationFailsLocked(p) ==
  /\ at[p] = "create"
  /\ excused' = TRUE
  /\ Go(p, "returned")
  /\ UNCHANGED <<has, owns, patience, cached, shown, lock, lockLeft, asked, visualFaults,
                 deaths>>

(* Both fail: no context, and the lock goes. *)
CreationFails(p) ==
  /\ at[p] = "create"
  /\ excused' = TRUE
  /\ Go(p, AfterSave(p))
  /\ UNCHANGED <<has, owns, patience, cached, shown, lock, lockLeft, asked, visualFaults,
                 deaths>>

(* save_visual_context: first the key of the session ... *)
SaveSession(p) ==
  /\ at[p] = "saveSession"
  /\ \/ shown' = shown \cup {SessionOf[p]} /\ Go(p, "saveHash") /\ UNCHANGED <<excused, visualFaults>>
     \/ RedisFault /\ Go(p, AfterSave(p)) /\ UNCHANGED shown
  /\ UNCHANGED <<has, owns, patience, cached, lock, lockLeft, asked, deaths>>

(* ... then that of the file, with a fresh time to live. *)
SaveHash(p) ==
  /\ at[p] = "saveHash"
  /\ \/ cached' = ReadTTL /\ UNCHANGED <<excused, visualFaults>>
     \/ RedisFault /\ UNCHANGED cached
  /\ Go(p, AfterSave(p))
  /\ UNCHANGED <<has, owns, patience, shown, lock, lockLeft, asked, deaths>>

(* _release_preflight_lock: GET and compare ... *)
Release(p) ==
  /\ at[p] = "release"
  /\ \/ lock = p /\ Go(p, "delete") /\ UNCHANGED <<excused, visualFaults>>
     \/ lock # p /\ Go(p, "returned") /\ UNCHANGED <<excused, visualFaults>>
     \/ RedisFault /\ Go(p, "returned")
  /\ UNCHANGED <<has, owns, patience, cached, shown, lock, lockLeft, asked, deaths>>

(* ... then DELETE, whoever holds it by now. *)
DeleteLock(p) ==
  /\ at[p] = "delete"
  /\ \/ lock' = NoOne /\ lockLeft' = 0 /\ UNCHANGED <<excused, visualFaults>>
     \/ RedisFault /\ UNCHANGED <<lock, lockLeft>>
  /\ Go(p, "returned")
  /\ UNCHANGED <<has, owns, patience, cached, shown, asked, deaths>>

-----------------------------------------------------------------------------
(* The process of a call dies. *)
Die(p) ==
  /\ at[p] \notin Ended
  /\ Trouble
  /\ deaths' = deaths + 1
  /\ excused' = TRUE
  /\ Go(p, "dead")
  /\ UNCHANGED <<has, owns, patience, cached, shown, lock, lockLeft, asked, visualFaults>>

Less(n) == IF n = 0 THEN 0 ELSE n - 1

(* Time: the deadlines of the waiters, the lock, and the read. *)
Tick ==
  LET waits == {p \in Preflights : at[p] \in {"wait", "peek"}} IN
  /\ lock # NoOne \/ cached > 0 \/ \E p \in waits : patience[p] > 0
  /\ patience' = [p \in Preflights |-> IF p \in waits THEN Less(patience[p]) ELSE patience[p]]
  /\ lockLeft' = Less(lockLeft)
  /\ lock' = IF lockLeft <= 1 THEN NoOne ELSE lock
  /\ cached' = Less(cached)
  /\ excused' = (excused \/ (lock # NoOne /\ lock' = NoOne) \/ cached = 1
                 \/ \E p \in waits : patience[p] = 1)
  /\ UNCHANGED <<at, has, owns, shown, asked, visualFaults, deaths>>

VisualStep(p) ==
  \/ Look(p) \/ Elect(p) \/ Wait(p) \/ Peek(p) \/ Recheck(p)
  \/ Created(p) \/ CreationFails(p) \/ SaveSession(p) \/ SaveHash(p) \/ Release(p) \/ DeleteLock(p)

VisualNext ==
  \/ \E p \in Preflights : VisualStep(p) \/ ElectNobody(p) \/ Die(p)
  \/ Tick

VisualSpec == VisualInit /\ [][VisualNext]_visualVars

-----------------------------------------------------------------------------
(* Single flight: until a context is stored for the file, and as long as   *)
(* nothing failed or expired, at most one of its calls has asked the       *)
(* vision model.                                                           *)
FirstCreationAlone == Cardinality(asked) > 1 => excused \/ cached > 0

(* A call that returned a context has stored it for its session, where the *)
(* agents look for it, unless Redis failed: also when the context was made *)
(* by another session's call.                                              *)
ResultIsVisible ==
  \A p \in Preflights :
    at[p] = "returned" /\ p \in has => SessionOf[p] \in shown \/ visualFaults > 0

(* No call leaves its lock to those that wait, unless Redis failed or its  *)
(* process died: they would wait for the whole time to live.               *)
NoLockLeftBehind ==
  \A p \in Preflights : at[p] = "returned" /\ lock = p => visualFaults > 0

=============================================================================
