-------------------------- MODULE SessionMetadata --------------------------
(***************************************************************************)
(* The metadata record of one session: a JSON object under one Redis key   *)
(* that the pipeline, the finalization, requests and the recovery after a  *)
(* restart all merge their fields into (api/routes/_session_state.py).     *)
(* Protected writers call update_active_pipeline_metadata, which reads and *)
(* writes under WATCH and falls back to an unprotected merge; plain        *)
(* writers get, merge and set by themselves.                               *)
(***************************************************************************)
EXTENDS Naturals, FiniteSets

CONSTANTS
  Writers,       \* coroutines that update the record, in any process
  PlainWriters,  \* those of them that do not use WATCH
  Fields,        \* fields of the record
  FieldsOf,      \* the fields each writer sets
  MaxRetries,    \* max_retries of update_active_pipeline_metadata
  UpdatesOf,     \* bound: updates of each writer
  MaxMetaFaults  \* bound: Redis commands that fail

ASSUME MetadataAssumption ==
  /\ PlainWriters \subseteq Writers
  /\ FieldsOf \in [Writers -> SUBSET Fields]
  /\ MaxRetries \in Nat \ {0}
  /\ UpdatesOf \in [Writers -> Nat]
  /\ MaxMetaFaults \in Nat

VARIABLES
  record,    \* the record: who set each field last, "upload" or "absent"
  merged,    \* history: the same if every update had been one atomic merge
  writes,    \* number of writes to the key so far
  gone,      \* terminate_session has deleted the key
  step,      \* where each writer's call is
  route,     \* how the call got to its unprotected merge
  copy,  \* the record the call has read
  touched,   \* the key was written since the connection's WATCH
  rounds,    \* rounds of the call that ended in a WatchError
  calls,     \* calls made by each writer
  answer,    \* what the last call of the writer returned
  stored,    \* the last call of the writer has written its fields
  plainSets, \* history: a plain writer has written
  metaFaults

metaVars == <<record, merged, writes, gone, step, route, copy, touched, rounds,
              calls, answer, stored, plainSets, metaFaults>>

Records == [Fields -> Writers \cup {"upload", "absent"}]

Protected == {"watch", "get", "exec"}
Unprotected == {"reread", "set"}

MetaTypeOK ==
  /\ record \in Records
  /\ merged \in Records
  /\ writes \in Nat
  /\ gone \in BOOLEAN
  /\ step \in [Writers -> {"idle"} \cup Protected \cup Unprotected]
  /\ route \in [Writers -> {"none", "plain", "failed", "exhausted"}]
  /\ copy \in [Writers -> Records]
  /\ touched \in [Writers -> BOOLEAN]
  /\ rounds \in [Writers -> 0 .. MaxRetries]
  /\ calls \in [Writers -> Nat]
  /\ answer \in [Writers -> {"none", "merged", "fields", "raised"}]
  /\ stored \in [Writers -> BOOLEAN]
  /\ plainSets \in BOOLEAN
  /\ metaFaults \in 0 .. MaxMetaFaults

(* The upload has stored the whole record. *)
MetaInit ==
  /\ record = [f \in Fields |-> "upload"]
  /\ merged = record
  /\ writes = 1
  /\ gone = FALSE
  /\ step = [w \in Writers |-> "idle"]
  /\ route = [w \in Writers |-> "none"]
  /\ copy = [w \in Writers |-> [f \in Fields |-> "absent"]]
  /\ touched = [w \in Writers |-> FALSE]
  /\ rounds = [w \in Writers |-> 0]
  /\ calls = [w \in Writers |-> 0]
  /\ answer = [w \in Writers |-> "none"]
  /\ stored = [w \in Writers |-> FALSE]
  /\ plainSets = FALSE
  /\ metaFaults = 0

-----------------------------------------------------------------------------
(* Helpers *)

Goto(w, s) == step' = [step EXCEPT ![w] = s]
Answer(w, a) == answer' = [answer EXCEPT ![w] = a] /\ Goto(w, "idle")
FaultOccurs == metaFaults < MaxMetaFaults /\ metaFaults' = metaFaults + 1

(* {**existing, **fields} replaces the record; every WATCH on the key is   *)
(* broken by it.                                                           *)
Merge(base, w) == [f \in Fields |-> IF f \in FieldsOf[w] THEN w ELSE base[f]]
Store(w) ==
  /\ record' = Merge(copy[w], w)
  /\ merged' = Merge(merged, w)
  /\ writes' = writes + 1
  /\ touched' = [v \in Writers |-> TRUE]
  /\ stored' = [stored EXCEPT ![w] = TRUE]
  /\ plainSets' = (plainSets \/ w \in PlainWriters)
NoStore == UNCHANGED <<record, merged, writes, touched, stored, plainSets>>

-----------------------------------------------------------------------------
(* A call of update_active_pipeline_metadata, or of a plain writer *)

Call(w) ==
  /\ step[w] = "idle"
  /\ calls[w] < UpdatesOf[w]
  /\ calls' = [calls EXCEPT ![w] = @ + 1]
  /\ Goto(w, IF w \in PlainWriters THEN "reread" ELSE "watch")
  /\ route' = [route EXCEPT ![w] = IF w \in PlainWriters THEN "plain" ELSE "none"]
  /\ rounds' = [rounds EXCEPT ![w] = 0]
  /\ answer' = [answer EXCEPT ![w] = "none"]
  /\ stored' = [stored EXCEPT ![w] = FALSE]
  /\ UNCHANGED <<record, merged, writes, gone, copy, touched, plainSets, metaFaults>>

(* A round: WATCH ... *)
Watch(w) ==
  /\ step[w] = "watch"
  /\ Goto(w, "get")
  /\ touched' = [touched EXCEPT ![w] = FALSE]
  /\ UNCHANGED <<record, merged, writes, gone, route, copy, rounds, calls, answer, stored,
                 plainSets, metaFaults>>

(* ... GET ... *)
Get(w) ==
  /\ step[w] = "get"
  /\ copy' = [copy EXCEPT ![w] = record]
  /\ Goto(w, "exec")
  /\ UNCHANGED <<record, merged, writes, gone, route, touched, rounds, calls, answer, stored,
                 plainSets, metaFaults>>

(* Mutant of Exec: SET without the transaction. *)
ExecAnyway(w) ==
  /\ step[w] = "exec"
  /\ Store(w)
  /\ Answer(w, "merged")
  /\ UNCHANGED <<gone, route, copy, rounds, calls, metaFaults>>

(* ... and MULTI, SET, EXEC of a key nobody has written to. *)
Exec(w) ==
  /\ step[w] = "exec"
  /\ ~touched[w]
  /\ Store(w)
  /\ Answer(w, "merged")
  /\ UNCHANGED <<gone, route, copy, rounds, calls, metaFaults>>

(* WatchError: the next round, or after the last one the merge without     *)
(* protection.                                                             *)
LoseRound(w) ==
  /\ step[w] = "exec"
  /\ touched[w]
  /\ rounds' = [rounds EXCEPT ![w] = @ + 1]
  /\ \/ /\ rounds[w] + 1 < MaxRetries
        /\ Goto(w, "watch")
        /\ UNCHANGED route
     \/ /\ rounds[w] + 1 = MaxRetries
        /\ Goto(w, "reread")
        /\ route' = [route EXCEPT ![w] = "exhausted"]
  /\ NoStore
  /\ UNCHANGED <<gone, copy, calls, answer, metaFaults>>

(* Any other exception in a round; EXEC may have been carried out.         *)
RoundFails(w) ==
  /\ step[w] \in Protected
  /\ FaultOccurs
  /\ \/ step[w] = "exec" /\ ~touched[w] /\ Store(w)
     \/ NoStore
  /\ Goto(w, "reread")
  /\ route' = [route EXCEPT ![w] = "failed"]
  /\ UNCHANGED <<gone, copy, rounds, calls, answer>>

(* The merge without protection: get_active_pipeline_metadata ... *)
Reread(w) ==
  /\ step[w] = "reread"
  /\ copy' = [copy EXCEPT ![w] = record]
  /\ Goto(w, "set")
  /\ UNCHANGED <<record, merged, writes, gone, route, touched, rounds, calls, answer, stored,
                 plainSets, metaFaults>>

(* ... and set_active_pipeline_metadata. *)
Set(w) ==
  /\ step[w] = "set"
  /\ Store(w)
  /\ Answer(w, "merged")
  /\ UNCHANGED <<gone, route, copy, rounds, calls, metaFaults>>

(* Mutant of MergeFails: the handler of the failed round takes the fields  *)
(* for the merged record.                                                  *)
MergeFailsUnseen(w) ==
  /\ step[w] \in Unprotected
  /\ FaultOccurs
  /\ NoStore
  /\ Answer(w, "merged")
  /\ UNCHANGED <<gone, route, copy, rounds, calls>>

(* It fails too: after a failed round the caller is handed its own fields  *)
(* as if they had been merged, otherwise the exception leaves the call.    *)
MergeFails(w) ==
  /\ step[w] \in Unprotected
  /\ FaultOccurs
  /\ \/ step[w] = "set" /\ Store(w)
     \/ NoStore
  /\ Answer(w, IF route[w] = "failed" THEN "fields" ELSE "raised")
  /\ UNCHANGED <<gone, route, copy, rounds, calls>>

(* DELETE of terminate_session. *)
Delete ==
  /\ ~gone
  /\ gone' = TRUE
  /\ record' = [f \in Fields |-> "absent"]
  /\ merged' = record'
  /\ writes' = writes + 1
  /\ touched' = [v \in Writers |-> TRUE]
  /\ UNCHANGED <<step, route, copy, rounds, calls, answer, stored, plainSets, metaFaults>>

MetaStep(w) ==
  \/ Watch(w) \/ Get(w) \/ Exec(w) \/ LoseRound(w) \/ RoundFails(w)
  \/ Reread(w) \/ Set(w) \/ MergeFails(w)

MetaNext ==
  \/ \E w \in Writers : Call(w) \/ MetaStep(w)
  \/ Delete

MetaSpec == MetaInit /\ [][MetaNext]_metaVars

-----------------------------------------------------------------------------
(* The record is what atomic merges would have made it as long as every    *)
(* writer is protected, no command has failed, and there were too few      *)
(* writes for a call to lose max_retries rounds and then its merge:        *)
(* besides the upload's and its own, one for each round and one for the    *)
(* merge.                                                                  *)
LossHasCause ==
  record # merged => plainSets \/ metaFaults > 0 \/ writes > MaxRetries + 2

(* A call that answers with metadata has stored its fields, unless both    *)
(* its transaction and its fallback failed.                                *)
AnsweredIsStored ==
  \A w \in Writers :
    /\ answer[w] = "merged" => stored[w]
    /\ answer[w] = "fields" /\ ~stored[w] => metaFaults > 1

=============================================================================
