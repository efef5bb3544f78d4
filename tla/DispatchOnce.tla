--------------------------- MODULE DispatchOnce ---------------------------
(***************************************************************************)
(* What the work queue promises to a session: it waits, it is run at most  *)
(* once, and a session that left the system never comes back.  Nothing is  *)
(* promised about sessions surviving a crash of the worker; they may be    *)
(* gone, several at a time.                                                *)
(***************************************************************************)
CONSTANT Sessions
VARIABLE phase

Phases == {"idle", "pending", "running", "finished", "gone"}

Init == phase = [s \in Sessions |-> "idle"]

Move(s, from, to) ==
  /\ phase[s] = from
  /\ phase' = [phase EXCEPT ![s] = to]

Accept(s) == Move(s, "idle", "pending")
Dispatch(s) == Move(s, "pending", "running")
Finish(s) == Move(s, "running", "finished")

(* A refused submission, or sessions that are lost with the worker. *)
Lose(S) ==
  /\ \A s \in S : phase[s] # "finished"
  /\ phase' = [s \in Sessions |-> IF s \in S THEN "gone" ELSE phase[s]]

Next ==
  \/ \E s \in Sessions : Accept(s) \/ Dispatch(s) \/ Finish(s)
  \/ \E S \in SUBSET Sessions : Lose(S)

Spec == Init /\ [][Next]_phase
=============================================================================
