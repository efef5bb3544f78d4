-------------------------- MODULE MCSessionOutcome --------------------------
(* Instances of SessionOutcome for TLC. *)
EXTENDS SessionOutcome
=============================================================================
