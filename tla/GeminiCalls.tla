---------------------------- MODULE GeminiCalls ----------------------------
(***************************************************************************)
(* The vision model's client (core/gemini_client.py), as the preflight of  *)
(* a file calls it: the cooldown after an outage, the delivery of the file,*)
(* the walk through the models under one semaphore, the file taken back    *)
(* from the provider, and the reads kept in the process.  Each preflight   *)
(* has a client of its own; so the client's circuit breaker, new each time,*)
(* is always closed and is not modelled.                                   *)
(***************************************************************************)
EXTENDS Naturals, Sequences, FiniteSets

CONSTANTS
  Visions,   \* preflights in one process
  Files,
  FileOf,    \* the file of each
  KindOf,    \* an image, a text, or media for the File API (audio, video, documents)
  Cascade,   \* the configured model and its fallbacks, all different
  Retries,   \* _SINGLE_MODEL_MAX_ATTEMPTS
  FailLimit, \* _TRANSIENT_FAIL_THRESHOLD
  Cooldown,  \* _TRANSIENT_COOLDOWN_S, in ticks
  Pool,      \* _quota_limit
  MaxCuts    \* bound: preflights that are cut off

ASSUME GeminiAssumption ==
  /\ FileOf \in [Visions -> Files] /\ KindOf \in [Visions -> {"image", "text", "media"}]
  /\ Cascade \in Seq(STRING) /\ Cascade # <<>>
  /\ {Retries, FailLimit, Pool} \subseteq Nat \ {0}
  /\ {Cooldown, MaxCuts} \subseteq Nat

VARIABLES
  phase,    \* where each preflight is
  attempt,  \* _attempt_idx, from 1
  toSkip,    \* models_to_skip
  lastError,
  named,    \* the preflights that know the name of an uploaded file
  uploads,  \* the preflights whose file the provider holds
  given,  \* what the preflight gives to the visual context store
  transientFails, \* _transient_fail_count
  cooling,  \* ticks to _transient_cooldown_until
  kept,     \* the files in _DEEP_FORENSIC_CACHE
  tried,    \* history: the models a preflight asked for, or found blocked
  readers,  \* history: who read the file of the preflight or of the cache
  outages,  \* history: walks that ended in an outage since the last answer
  loose,    \* history: uploads whose name or removal was lost
  cuts

geminiVars == <<phase, attempt, toSkip, lastError, named, uploads, given, transientFails,
                cooling, kept, tried, readers, outages, loose, cuts>>

Native == {c \in Visions : KindOf[c] = "media"}
VisionModels == {Cascade[i] : i \in DOMAIN Cascade}
InPool == {"guard", "post"}

GeminiTypeOK ==
  /\ phase \in [Visions -> {"ask", "local", "upload", "poll", "encode", "turn", "slot",
                            "sweep", "done"} \cup InPool]
  /\ attempt \in [Visions -> 0 .. Len(Cascade) * Retries]
  /\ toSkip \in [Visions -> SUBSET VisionModels] /\ tried \in [Visions -> SUBSET VisionModels]
  /\ lastError \in [Visions -> {"none", "transient", "other"}]
  /\ named \subseteq uploads /\ uploads \subseteq Native /\ loose \subseteq Native
  /\ given \in [Visions -> {"none", "read", "empty", "raised", "exhausted", "refused", "cancelled"}]
  /\ transientFails \in Nat /\ cooling \in 0 .. Cooldown
  /\ kept \subseteq Files
  /\ readers \in [Visions \cup Files -> {"nobody", "gemini", "ensemble"}]
  /\ outages \subseteq Visions /\ cuts \in 0 .. MaxCuts

GeminiInit ==
  /\ phase = [c \in Visions |-> "ask"]
  /\ attempt = [c \in Visions |-> 0]
  /\ toSkip = [c \in Visions |-> {}] /\ tried = [c \in Visions |-> {}]
  /\ lastError = [c \in Visions |-> "none"]
  /\ named = {} /\ uploads = {} /\ loose = {}
  /\ given = [c \in Visions |-> "none"]
  /\ transientFails = 0 /\ cooling = 0
  /\ kept = {}
  /\ readers = [x \in Visions \cup Files |-> "nobody"]
  /\ outages = {} /\ cuts = 0

-----------------------------------------------------------------------------
(* Helpers *)

Move(c, place) == phase' = [phase EXCEPT ![c] = place]
Result(c, value) == given' = [given EXCEPT ![c] = value]

(* The call returns, and its local variables with it. *)
Quit(c) ==
  /\ Move(c, "done")
  /\ attempt' = [attempt EXCEPT ![c] = 0]
  /\ lastError' = [lastError EXCEPT ![c] = "none"]
  /\ toSkip' = [toSkip EXCEPT ![c] = {}] /\ tried' = [tried EXCEPT ![c] = {}]

walkVars == <<attempt, toSkip, lastError, tried>>
fileVars == <<named, uploads, loose>>
healthVars == <<transientFails, cooling, outages>>
cacheVars == <<kept, readers>>

(* models_to_try: each model once for an image, some times in a row for    *)
(* other evidence.                                                         *)
TimesEach(c) == IF KindOf[c] = "image" THEN 1 ELSE Retries
Attempts(c) == 1 .. Len(Cascade) * TimesEach(c)
ModelAt(c, i) == Cascade[((i - 1) \div TimesEach(c)) + 1]
Asked(c) == ModelAt(c, attempt[c])

(* The attempts still to be made: those of spent models are skipped.  *)
Rest(c) == {i \in Attempts(c) : i > attempt[c] /\ ModelAt(c, i) \notin toSkip[c]}

InCooldown == cooling > 0

(* Media go by the File API, images and texts inline. *)
Delivery(c) == IF c \in Native THEN "upload" ELSE "encode"

-----------------------------------------------------------------------------
(* analyze_visual_context_preflight: a read kept in the process is used    *)
(* again; in a cooldown the local analysis takes the place of the model.   *)
Preflight(c) ==
  /\ phase[c] = "ask"
  /\ \/ /\ FileOf[c] \in kept
        /\ Quit(c) /\ Result(c, "read")
        /\ readers' = [readers EXCEPT ![c] = readers[FileOf[c]]]
     \/ /\ FileOf[c] \notin kept
        /\ Move(c, IF InCooldown THEN "local" ELSE Delivery(c))
        /\ UNCHANGED <<given, walkVars, readers>>
  /\ UNCHANGED <<fileVars, healthVars, kept>>

(* A finding without an error is parsed as the model's answer and kept,    *)
(* whoever made it.                                                        *)
Keep(c, reader) ==
  /\ Result(c, "read")
  /\ kept' = kept \cup {FileOf[c]}
  /\ readers' = [readers EXCEPT ![c] = reader, ![FileOf[c]] = reader]

(* _local_forensic_fallback: its finding carries an error if one of its    *)
(* tools failed, else none.                                                *)
ReadLocally(c) ==
  /\ phase[c] = "local"
  /\ Quit(c)
  /\ \/ Keep(c, "ensemble")
     \/ Result(c, "raised") /\ UNCHANGED cacheVars
  /\ UNCHANGED <<fileVars, healthVars>>

-----------------------------------------------------------------------------
(* Delivery of the file *)

(* _upload_media_file_api: it may fail before or after the provider has    *)
(* the file; in either case its name is not known.                         *)
Upload(c) ==
  /\ phase[c] = "upload"
  /\ \/ named' = named \cup {c} /\ uploads' = uploads \cup {c} /\ Move(c, "poll") /\ UNCHANGED loose
     \/ UNCHANGED fileVars /\ Move(c, "encode")
     \/ uploads' = uploads \cup {c} /\ loose' = loose \cup {c} /\ Move(c, "encode") /\ UNCHANGED named
  /\ UNCHANGED <<given, walkVars, healthVars, cacheVars>>

(* _delete_file_api, best effort, if there is a name. *)
Discard(c) ==
  /\ named' = named \ {c}
  /\ \/ uploads' = uploads \ (named \cap {c}) /\ UNCHANGED loose
     \/ c \in named /\ loose' = loose \cup {c} /\ UNCHANGED uploads

(* _poll_file_active: the file becomes active, or it failed or took too    *)
(* long and is deleted and sent inline.                                    *)
Poll(c) ==
  /\ phase[c] = "poll"
  /\ \/ Move(c, "turn") /\ UNCHANGED fileVars
     \/ Move(c, "encode") /\ Discard(c)
  /\ UNCHANGED <<given, walkVars, healthVars, cacheVars>>

(* _encode_file, or the text of a text file; an unreadable file ends it. *)
Encode(c) ==
  /\ phase[c] = "encode"
  /\ \/ Move(c, "turn") /\ UNCHANGED <<given, walkVars>>
     \/ Quit(c) /\ Result(c, "raised")
  /\ UNCHANGED <<fileVars, healthVars, cacheVars>>

-----------------------------------------------------------------------------
(* The walk through the models *)

NextModel(c) ==
  /\ phase[c] = "turn"
  /\ \E i \in Rest(c) :
       /\ \A j \in Rest(c) : i <= j
       /\ attempt' = [attempt EXCEPT ![c] = i]
  /\ Move(c, "slot")
  /\ UNCHANGED <<given, toSkip, lastError, tried, fileVars, healthVars, cacheVars>>

EnterPool(c) ==
  /\ phase[c] = "slot"
  /\ Cardinality({d \in Visions : phase[d] \in InPool}) < Pool
  /\ Move(c, "guard")
  /\ UNCHANGED <<given, walkVars, fileVars, healthVars, cacheVars>>

(* An attempt ends without an answer; its model may be spent by it.  *)
NextAttempt(c, error, skip) ==
  /\ Move(c, "turn")
  /\ lastError' = [lastError EXCEPT ![c] = error]
  /\ toSkip' = [toSkip EXCEPT ![c] = IF skip THEN @ \cup {Asked(c)} ELSE @]
  /\ tried' = [tried EXCEPT ![c] = @ \cup {Asked(c)}]
  /\ UNCHANGED <<given, attempt, fileVars, healthVars, cacheVars>>

(* ProviderQuotaGuard.check_and_record *)
Guard(c) ==
  /\ phase[c] = "guard"
  /\ \/ Move(c, "post") /\ UNCHANGED <<given, walkVars, fileVars, healthVars, cacheVars>>
     \/ NextAttempt(c, "transient", TRUE)

(* _post_once without an answer: the quota (429), an overload or the       *)
(* deadline of wait_for, an unavailable model (other statuses), or         *)
(* anything else, a time-out of the HTTP client included.                  *)
AttemptFails(c) ==
  /\ phase[c] = "post"
  /\ \/ NextAttempt(c, "transient", TRUE)
     \/ NextAttempt(c, "transient", FALSE)
     \/ NextAttempt(c, "other", TRUE)
     \/ NextAttempt(c, "other", FALSE)

(* An invalid key or a blocked answer ends the walk at once. *)
Refused(c) ==
  /\ phase[c] = "post"
  /\ Quit(c) /\ Result(c, "refused")
  /\ UNCHANGED <<fileVars, healthVars, cacheVars>>

(* Mutant of ReadByModel: the count goes on after an answer. *)
ReadUncounted(c) ==
  /\ phase[c] = "post"
  /\ \E value \in {"read", "empty"} : Result(c, value)
  /\ Move(c, "sweep")
  /\ outages' = {}
  /\ UNCHANGED <<walkVars, fileVars, transientFails, cooling, cacheVars>>

(* An answer, which may be empty: the outage is over. *)
ReadByModel(c) ==
  /\ phase[c] = "post"
  /\ \E value \in {"read", "empty"} : Result(c, value)
  /\ Move(c, "sweep")
  /\ transientFails' = 0 /\ cooling' = 0 /\ outages' = {}
  /\ UNCHANGED <<walkVars, fileVars, cacheVars>>

(* No attempt is left: a walk that ended in an outage counts for the       *)
(* cooldown, which each further one sets anew.                             *)
Exhausted(c) ==
  /\ phase[c] = "turn" /\ Rest(c) = {}
  /\ IF lastError[c] = "transient"
       THEN /\ transientFails' = transientFails + 1
            /\ cooling' = IF transientFails + 1 >= FailLimit THEN Cooldown ELSE cooling
            /\ outages' = outages \cup {c}
       ELSE UNCHANGED healthVars
  /\ Move(c, "sweep") /\ Result(c, "exhausted")
  /\ UNCHANGED <<walkVars, fileVars, cacheVars>>

(* Mutant of Sweep: the file is deleted after an answer only. *)
SweepAnswered(c) ==
  /\ phase[c] = "sweep"
  /\ IF given[c] = "exhausted" THEN UNCHANGED fileVars ELSE Discard(c)
  /\ Quit(c)
  /\ CASE given[c] = "read" -> Keep(c, "gemini")
       [] given[c] = "empty" -> Result(c, "raised") /\ UNCHANGED cacheVars
       [] OTHER -> UNCHANGED <<given, cacheVars>>
  /\ UNCHANGED healthVars

(* The uploaded file is deleted; then the read is kept, or an error raised. *)
Sweep(c) ==
  /\ phase[c] = "sweep"
  /\ Discard(c)
  /\ Quit(c)
  /\ CASE given[c] = "read" -> Keep(c, "gemini")
       [] given[c] = "empty" -> Result(c, "raised") /\ UNCHANGED cacheVars
       [] OTHER -> UNCHANGED <<given, cacheVars>>
  /\ UNCHANGED healthVars

-----------------------------------------------------------------------------
(* The caller is cut off, at any await; an upload may have arrived. *)
CutVision(c) ==
  /\ phase[c] \notin {"ask", "done"}
  /\ cuts < MaxCuts /\ cuts' = cuts + 1
  /\ Quit(c) /\ Result(c, "cancelled")
  /\ \/ UNCHANGED uploads
     \/ phase[c] = "upload" /\ uploads' = uploads \cup {c}
  /\ UNCHANGED <<named, loose, healthVars, cacheVars>>

CoolDown ==
  /\ cooling > 0
  /\ cooling' = cooling - 1
  /\ UNCHANGED <<phase, given, walkVars, fileVars, transientFails, outages, cacheVars, cuts>>

VisionStep(c) ==
  \/ Preflight(c) \/ ReadLocally(c)
  \/ Upload(c) \/ Poll(c) \/ Encode(c)
  \/ NextModel(c) \/ EnterPool(c) \/ Guard(c)
  \/ AttemptFails(c) \/ Refused(c) \/ ReadByModel(c) \/ Exhausted(c) \/ Sweep(c)

GeminiNext ==
  \/ \E c \in Visions : VisionStep(c) /\ UNCHANGED cuts
  \/ \E c \in Visions : CutVision(c)
  \/ CoolDown

GeminiSpec == GeminiInit /\ [][GeminiNext]_geminiVars

-----------------------------------------------------------------------------
(* No file is stranded without a cause: a walk gives up only after every   *)
(* model was asked or found blocked, and the models are passed over only   *)
(* after as many walks ended in an outage, since the last answer, as the   *)
(* threshold says, whatever else was in flight.                            *)
NoFileStranded ==
  /\ \A c \in Visions :
       phase[c] = "sweep" /\ given[c] = "exhausted" => tried[c] = VisionModels
  /\ cooling > 0 => Cardinality(outages) >= FailLimit

(* Evidence does not stay with the provider: a preflight that ended has    *)
(* taken its file back, unless the name or the removal was lost, the key   *)
(* or the answer was refused, or the caller was cut off.                   *)
UploadsAreRemoved ==
  \A c \in Visions :
    phase[c] = "done" /\ c \in uploads => c \in loose \/ given[c] \in {"refused", "cancelled"}

(* What a preflight gives out as the model's read was read by the model.   *)
(* (Docstring, core/gemini_client.py:1264: it raises "if Gemini is not     *)
(* enabled or the call fails, so the caller can fall back to the local     *)
(* ensemble".)                                                             *)
ModelReadsAreReal ==
  \A c \in Visions : phase[c] = "done" /\ given[c] = "read" => readers[c] = "gemini"
=============================================================================
