--------------------------- MODULE MCCustodyChain ---------------------------
(* An instance of CustodyChain for TLC: three calls of one chain and one   *)
(* of another, of which one can never be stored.  No symmetry: the run     *)
(* checks liveness.                                                        *)
EXTENDS CustodyChain, TLC

CONSTANTS A, B, a1, a2, a3, b1

MCAgents == {A, B}
MCEntries == {a1, a2, a3, b1}
MCAgentOf == a1 :> A @@ a2 :> A @@ a3 :> A @@ b1 :> B
MCPoison == {a3}
=============================================================================
