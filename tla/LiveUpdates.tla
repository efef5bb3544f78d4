---------------------------- MODULE LiveUpdates ----------------------------
(***************************************************************************)
(* The live updates of one session and one client that watches them        *)
(* (broadcast_update in api/routes/_session_state.py, the WebSocket of     *)
(* _websocket.py and the SSE stream of sse.py). An update is sent to the   *)
(* connections of its own process, published, and then appended to the     *)
(* replay buffer; a client subscribes, replays the buffer and listens.     *)
(* terminate_session (sessions.py) broadcasts too, and then takes down the *)
(* sockets, the buffer and the metadata; the worker goes on meanwhile.     *)
(***************************************************************************)
EXTENDS Naturals, Sequences, SequencesExt, FiniteSets

CONSTANTS
  Senders,       \* coroutines that broadcast for this session
  LocalSenders,  \* those in the API process, where the client's stream is
  Finisher,      \* the one that finalizes the session
  Script,        \* the types of the updates of each sender, in order
  BufferMax,     \* REPLAY_BUFFER_MAX_LEN
  QueueMax,      \* maxsize of an SSE queue
  MaxMishaps     \* bound: failures of Redis, and streams the client loses

CriticalTypes == {"complete", "paused", "broken", "terminated"}

ASSUME LiveAssumption ==
  /\ LocalSenders \subseteq Senders
  /\ Finisher \in Senders
  /\ Script \in [Senders -> Seq({"progress", "paused", "complete", "terminated"})]
  /\ \A s \in Senders : \A i \in DOMAIN Script[s] :
       Script[s][i] = "terminated" => s \in LocalSenders /\ i = Len(Script[s])
  /\ BufferMax \in Nat \ {0}
  /\ QueueMax \in Nat \ {0}
  /\ MaxMishaps \in Nat

VARIABLES
  next,      \* the number of each sender's next update
  sending,   \* where its call of broadcast_update is
  buffer,    \* the replay buffer
  pushes,    \* updates appended to it so far
  status,    \* the status in the session's metadata
  concluded, \* mark_investigation_completed has written it
  teardown,  \* where terminate_session is after its broadcast
  kind,      \* the client uses "sse" or "ws"
  stage,     \* where the client's stream is
  listed,    \* it is in _websocket_connections
  inbox,     \* published to its subscription, not yet read by its listener
  queue,     \* read by the listener, not yet sent to the client
  eventId,   \* the number of the next SSE event; kept by the client
  shown,     \* history: what the client has been sent on this stream
  fresh,     \* history: this stream was opened without Last-Event-ID
  early,     \* history: updates trimmed off before the client's replay
  replayed,  \* replayed_types, the critical ones
  squeezed,  \* history: a critical update was dropped
  openedLate,\* history: this stream was opened after the termination was sent
  liveFaults,
  leaves

sendVars == <<next, sending, buffer, pushes, status, concluded, teardown>>
historyVars == <<fresh, early, replayed, squeezed, openedLate>>
viewVars == <<kind, stage, listed, inbox, queue, eventId, shown, historyVars, leaves>>
liveVars == <<sendVars, viewVars, liveFaults>>

Updates == UNION {{s} \X (1 .. Len(Script[s])) : s \in Senders}
Synthesized == <<"metadata", 0>>
Broken == <<"stream", 0>>
Control == <<"control", 0>>
TypeOf(e) == IF e = Synthesized THEN "complete"
             ELSE IF e = Broken THEN "broken"
             ELSE IF e = Control THEN "terminated" ELSE Script[e[1]][e[2]]
Critical(e) == TypeOf(e) \in CriticalTypes
Told(type, es) == \E e \in es : TypeOf(e) = type

LiveTypeOK ==
  /\ next \in [Senders -> Nat \ {0}]
  /\ sending \in [Senders -> {"ready", "local", "publish", "push"}]
  /\ buffer \in Seq(Updates) /\ Len(buffer) <= BufferMax
  /\ pushes \in Nat
  /\ status \in {"running", "completed", "gone"} /\ concluded \in BOOLEAN
  /\ teardown \in {"no", "tell", "close", "forget", "done"}
  /\ kind \in {"sse", "ws"}
  /\ stage \in {"away", "registered", "subscribed", "replayed", "live", "deaf"}
  /\ listed \in BOOLEAN
  /\ inbox \in Seq(Updates \cup {Control})
  /\ queue \in Seq(Updates \cup {Synthesized, Broken})
  /\ kind = "sse" => Len(queue) <= QueueMax
  /\ eventId \in Nat
  /\ shown \subseteq Updates \cup {Synthesized, Broken, Control}
  /\ fresh \in BOOLEAN /\ early \in Nat /\ replayed \subseteq CriticalTypes
  /\ squeezed \in BOOLEAN /\ openedLate \in BOOLEAN
  /\ liveFaults \in 0 .. MaxMishaps /\ leaves \in 0 .. MaxMishaps

LiveInit ==
  /\ next = [s \in Senders |-> 1]
  /\ sending = [s \in Senders |-> "ready"]
  /\ buffer = <<>> /\ pushes = 0
  /\ status = "running" /\ concluded = FALSE /\ teardown = "no"
  /\ kind \in {"sse", "ws"}
  /\ stage = "away" /\ listed = FALSE
  /\ inbox = <<>> /\ queue = <<>>
  /\ eventId = 0
  /\ shown = {} /\ fresh = TRUE /\ early = 0 /\ replayed = {}
  /\ squeezed = FALSE /\ openedLate = FALSE
  /\ liveFaults = 0 /\ leaves = 0

-----------------------------------------------------------------------------
(* Helpers *)

LiveFault == liveFaults + leaves < MaxMishaps /\ liveFaults' = liveFaults + 1
Current(s) == <<s, next[s]>>
Step(s, to) == sending' = [sending EXCEPT ![s] = to]

(* After the broadcast of a termination its handler goes on.               *)
Finished(s) ==
  /\ next' = [next EXCEPT ![s] = @ + 1]
  /\ Step(s, "ready")
  /\ teardown' = IF TypeOf(Current(s)) = "terminated" THEN "tell" ELSE teardown

Noncritical(q) == {i \in DOMAIN q : ~Critical(q[i])}

(* SSEConsumer.send_json: a full queue drops the update, a critical one    *)
(* takes the place of the oldest that is not. A socket has no such queue.  *)
Put(q, e) ==
  IF kind = "ws" \/ Len(q) < QueueMax THEN Append(q, e)
  ELSE IF Critical(e) /\ Noncritical(q) # {}
  THEN Append(RemoveAt(q, CHOOSE i \in Noncritical(q) : \A j \in Noncritical(q) : i <= j), e)
  ELSE q
PutAll(q, es) == FoldLeft(Put, q, es)

Squeezes(q, e) == Critical(e) /\ e \notin ToSet(Put(q, e))

(* The stream ends. *)
Away ==
  /\ stage' = "away" /\ listed' = FALSE
  /\ inbox' = <<>> /\ queue' = <<>> /\ shown' = {}
  /\ fresh' = TRUE /\ early' = 0 /\ replayed' = {}
  /\ squeezed' = FALSE /\ openedLate' = FALSE

-----------------------------------------------------------------------------
(* broadcast_update *)

(* mark_investigation_completed writes the status before it broadcasts,    *)
(* into a new record if a termination has deleted it.                      *)
Conclude ==
  /\ ~concluded
  /\ sending[Finisher] = "ready"
  /\ next[Finisher] = Len(Script[Finisher])
  /\ concluded' = TRUE
  /\ status' = "completed"
  /\ UNCHANGED <<next, sending, buffer, pushes, teardown, viewVars, liveFaults>>

Begin(s) ==
  /\ sending[s] = "ready"
  /\ next[s] <= Len(Script[s])
  /\ TypeOf(Current(s)) = "complete" => concluded
  /\ Step(s, IF s \in LocalSenders THEN "local" ELSE "publish")
  /\ UNCHANGED <<next, buffer, pushes, status, concluded, teardown, viewVars, liveFaults>>

(* To the connections registered in this process. *)
SendLocally(s) ==
  /\ sending[s] = "local"
  /\ Step(s, "publish")
  /\ IF ~listed THEN UNCHANGED <<queue, squeezed>>
     ELSE /\ queue' = Put(queue, Current(s))
          /\ squeezed' = (squeezed \/ Squeezes(queue, Current(s)))
  /\ UNCHANGED <<next, buffer, pushes, status, concluded, teardown, kind, stage, listed, inbox,
                 eventId, shown, fresh, early, replayed, openedLate, leaves, liveFaults>>

Publish(s) ==
  /\ sending[s] = "publish"
  /\ Step(s, "push")
  /\ inbox' = IF stage \in {"subscribed", "replayed", "live"}
              THEN Append(inbox, Current(s)) ELSE inbox
  /\ UNCHANGED <<next, buffer, pushes, status, concluded, teardown, kind, stage, listed, queue,
                 eventId, shown, historyVars, leaves, liveFaults>>

(* RPUSH and LTRIM. *)
Push(s) ==
  /\ sending[s] = "push"
  /\ Finished(s)
  /\ LET longer == Append(buffer, Current(s))
     IN  buffer' = IF Len(longer) > BufferMax THEN Tail(longer) ELSE longer
  /\ pushes' = pushes + 1
  /\ UNCHANGED <<status, concluded, viewVars, liveFaults>>

(* An exception of Redis is logged, and the rest of the call is skipped.   *)
BroadcastFails(s) ==
  /\ sending[s] \in {"publish", "push"}
  /\ LiveFault
  /\ Finished(s)
  /\ UNCHANGED <<buffer, pushes, status, concluded, viewVars>>

-----------------------------------------------------------------------------
(* terminate_session, after its broadcast *)

(* SESSION_TERMINATED, on a channel that only sockets listen to; a failure *)
(* is logged.                                                              *)
TellControl ==
  /\ teardown = "tell"
  /\ teardown' = "close"
  /\ \/ /\ inbox' = IF kind = "ws" /\ stage \in {"subscribed", "live"}
                    THEN Append(inbox, Control) ELSE inbox
        /\ UNCHANGED liveFaults
     \/ LiveFault /\ UNCHANGED inbox
  /\ UNCHANGED <<next, sending, buffer, pushes, status, concluded, kind, stage, listed, queue,
                 eventId, shown, historyVars, leaves>>

(* Sockets are closed. A consumer of an SSE stream has no close; it is     *)
(* taken off the list of connections and stays open.                       *)
CloseSockets ==
  /\ teardown = "close"
  /\ teardown' = "forget"
  /\ IF kind = "ws" /\ listed THEN Away
     ELSE listed' = FALSE /\ UNCHANGED <<stage, inbox, queue, shown, historyVars>>
  /\ UNCHANGED <<next, sending, buffer, pushes, status, concluded, kind, eventId, leaves,
                 liveFaults>>

(* DELETE of the metadata and the replay buffer, or an exception that      *)
(* leaves both.                                                            *)
Forget ==
  /\ teardown = "forget"
  /\ teardown' = "done"
  /\ \/ buffer' = <<>> /\ status' = "gone" /\ UNCHANGED liveFaults
     \/ LiveFault /\ UNCHANGED <<buffer, status>>
  /\ UNCHANGED <<next, sending, pushes, concluded, viewVars>>

-----------------------------------------------------------------------------
(* The client's stream *)

TerminationSent ==
  teardown # "no"
    \/ \E s \in Senders : sending[s] \in {"publish", "push"} /\ TypeOf(Current(s)) = "terminated"

Open(ids) ==
  /\ stage = "away"
  /\ stage' = "registered" /\ listed' = TRUE
  /\ inbox' = <<>> /\ queue' = <<>> /\ shown' = {}
  /\ early' = 0 /\ replayed' = {} /\ squeezed' = FALSE /\ openedLate' = TerminationSent
  /\ eventId' \in ids
  /\ fresh' = (eventId' = 0)
  /\ UNCHANGED <<sendVars, kind, leaves, liveFaults>>

(* Without metadata a client is let in by the session's row in Postgres.   *)
OpenSocket == kind = "ws" /\ Open({0})

(* Last-Event-ID is sent by a browser that reconnects by itself, not by a  *)
(* new EventSource.                                                        *)
OpenStream == kind = "sse" /\ Open({0, eventId})

Subscribe ==
  /\ stage = "registered"
  /\ stage' = "subscribed"
  /\ UNCHANGED <<sendVars, kind, listed, inbox, queue, eventId, shown, historyVars, leaves,
                 liveFaults>>

(* Mutant of Replay: off by one in the buffer. *)
ReplayTail ==
  /\ stage = "subscribed"
  /\ LET missed == SubSeq(buffer, eventId + 2, Len(buffer))
     IN  /\ queue' = PutAll(queue, missed)
         /\ replayed' = {TypeOf(e) : e \in ToSet(missed)} \cap CriticalTypes
  /\ early' = pushes - Len(buffer)
  /\ stage' = IF kind = "ws" THEN "live" ELSE "replayed"
  /\ UNCHANGED <<sendVars, kind, listed, inbox, eventId, shown, fresh, squeezed, openedLate,
                 leaves, liveFaults>>

(* LRANGE; an SSE stream leaves out the entries up to Last-Event-ID, taken *)
(* as positions in the buffer.                                             *)
Replay ==
  /\ stage = "subscribed"
  /\ LET missed == SubSeq(buffer, eventId + 1, Len(buffer))
     IN  /\ queue' = PutAll(queue, missed)
         /\ squeezed' = (squeezed \/ \E e \in ToSet(queue \o missed) :
                                       Critical(e) /\ e \notin ToSet(queue'))
         /\ replayed' = {TypeOf(e) : e \in ToSet(missed)} \cap CriticalTypes
  /\ early' = pushes - Len(buffer)
  /\ stage' = IF kind = "ws" THEN "live" ELSE "replayed"
  /\ UNCHANGED <<sendVars, kind, listed, inbox, eventId, shown, fresh, openedLate, leaves,
                 liveFaults>>

(* Mutant of CheckStatus: the metadata is not looked at. *)
SkipStatus ==
  /\ stage = "replayed"
  /\ stage' = "live"
  /\ UNCHANGED <<sendVars, kind, listed, inbox, queue, eventId, shown, historyVars, leaves,
                 liveFaults>>

(* No critical update was replayed: the end is taken from the metadata.    *)
CheckStatus ==
  /\ stage = "replayed"
  /\ stage' = "live"
  /\ IF replayed = {} /\ status = "completed"
     THEN /\ queue' = Put(queue, Synthesized)
          /\ squeezed' = (squeezed \/ Squeezes(queue, Synthesized))
     ELSE UNCHANGED <<queue, squeezed>>
  /\ UNCHANGED <<sendVars, kind, listed, inbox, eventId, shown, fresh, early, replayed,
                 openedLate, leaves, liveFaults>>

Listen ==
  /\ stage = "live"
  /\ inbox # <<>> /\ Head(inbox) # Control
  /\ queue' = Put(queue, Head(inbox))
  /\ squeezed' = (squeezed \/ Squeezes(queue, Head(inbox)))
  /\ inbox' = Tail(inbox)
  /\ UNCHANGED <<sendVars, kind, stage, listed, eventId, shown, fresh, early, replayed,
                 openedLate, leaves, liveFaults>>

(* A socket that is told of the termination passes it on and closes.       *)
HearControl ==
  /\ stage = "live"
  /\ inbox # <<>> /\ Head(inbox) = Control
  /\ Away
  /\ UNCHANGED <<sendVars, kind, eventId, leaves, liveFaults>>

(* The generator of the stream, or the socket. *)
Deliver ==
  /\ stage \in {"live", "deaf"} \/ (kind = "ws" /\ stage # "away")
  /\ queue # <<>>
  /\ shown' = shown \cup {Head(queue)}
  /\ queue' = Tail(queue)
  /\ eventId' = IF kind = "sse" THEN eventId + 1 ELSE 0
  /\ UNCHANGED <<sendVars, kind, stage, listed, inbox, historyVars, leaves, liveFaults>>

(* Redis fails while the stream is set up or listens. An SSE stream stays  *)
(* open without a listener, and is told so only if there was one.          *)
StreamFails ==
  /\ kind = "sse" /\ stage \in {"registered", "subscribed", "replayed", "live"}
  /\ LiveFault
  /\ stage' = "deaf"
  /\ queue' = IF stage = "live" THEN Put(queue, Broken) ELSE queue
  /\ eventId' = IF stage \in {"registered", "subscribed"} THEN 0 ELSE eventId
  /\ inbox' = <<>>
  /\ UNCHANGED <<sendVars, kind, listed, shown, historyVars, leaves>>

(* A socket is told and closed. *)
SocketFails ==
  /\ kind = "ws" /\ stage # "away"
  /\ LiveFault
  /\ Away
  /\ UNCHANGED <<sendVars, kind, eventId, leaves>>

(* monitor_idle: a socket over which nothing went for IDLE_TIMEOUT is      *)
(* closed.  The pings that should keep it alive call a method the socket   *)
(* of the framework does not have, and end at the first attempt.           *)
IdleOut ==
  /\ kind = "ws" /\ stage = "live"
  /\ inbox = <<>> /\ queue = <<>>
  /\ Away
  /\ UNCHANGED <<sendVars, kind, eventId, leaves, liveFaults>>

(* The client goes away or loses its connection. *)
Leave ==
  /\ stage # "away"
  /\ liveFaults + leaves < MaxMishaps
  /\ leaves' = leaves + 1
  /\ Away
  /\ UNCHANGED <<sendVars, kind, eventId, liveFaults>>

SenderStep(s) == Begin(s) \/ SendLocally(s) \/ Publish(s) \/ Push(s)
TearDown == TellControl \/ CloseSockets \/ Forget
StreamStep == Subscribe \/ Replay \/ CheckStatus \/ Listen \/ HearControl \/ Deliver
LiveStep ==
  \/ Conclude
  \/ \E s \in Senders : SenderStep(s)
  \/ TearDown
  \/ StreamStep

LiveNext ==
  \/ LiveStep
  \/ \E s \in Senders : BroadcastFails(s)
  \/ OpenSocket \/ OpenStream \/ StreamFails \/ SocketFails \/ IdleOut \/ Leave

LiveFairness ==
  /\ WF_liveVars(Conclude)
  /\ \A s \in Senders : WF_liveVars(SenderStep(s))
  /\ WF_liveVars(StreamStep)
LiveSpec == LiveInit /\ [][LiveNext]_liveVars /\ LiveFairness

-----------------------------------------------------------------------------
(* Between SUBSCRIBE and LRANGE nothing is lost but what a sender had      *)
(* published before and appended after: a stream that began at the start   *)
(* of the buffer has missed at most one update of each sender besides the  *)
(* ones trimmed off or deleted; of an SSE stream, whose full queue drops   *)
(* the others, this is said of the critical updates.                       *)
Published(e) == next[e[1]] > e[2] \/ (e = Current(e[1]) /\ sending[e[1]] = "push")
Missed == {e \in Updates : /\ Published(e)
                           /\ kind = "ws" \/ Critical(e)
                           /\ e \notin ToSet(inbox) \cup ToSet(queue) \cup shown}
GapIsNarrow ==
  stage = "live" /\ fresh /\ ~squeezed /\ liveFaults = 0
    => \A s \in Senders : Cardinality({e \in Missed : e[1] = s}) <= 1 + early

(* While Redis works, an SSE client that stays sees the end: completion as *)
(* an update, or from the metadata unless another critical update was      *)
(* replayed; and a termination, if it was there when it was sent.  "emit   *)
(* the termination broadcast FIRST while the websocket connections are     *)
(* still alive" (sessions.py:155): nor is a socket closed by a termination *)
(* without the reason, unless it was opened meanwhile.                     *)
Stays == stage = "live" /\ kind = "sse" /\ liveFaults = 0 /\ ~squeezed
OwedCompletion ==
  /\ Stays /\ status = "completed"
  /\ ~Told("complete", shown) /\ replayed \cap {"paused", "terminated"} = {}
OwedTermination ==
  Stays /\ teardown # "no" /\ ~openedLate /\ ~Told("terminated", shown)
ClosedUntold ==
  /\ teardown = "close" /\ teardown' = "forget"
  /\ listed /\ stage' = "away" /\ ~openedLate
  /\ ~Told("terminated", shown \cup ToSet(queue))

EndIsShown ==
  /\ []<>~(OwedCompletion \/ OwedTermination)
  /\ [][~ClosedUntold]_liveVars

=============================================================================
