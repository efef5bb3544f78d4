----------------------------- MODULE MCVerdict -----------------------------
(* An instance of Verdict for TLC. *)
EXTENDS Verdict, TLC

CONSTANTS image, scene, metadata, checksum, structure, hex, gen, diffusion, splicing, residue, object

(* Eight tools of the three agents that examine images: one for each kind  *)
(* the rules of the verdict tell apart, and a second generation detector.  *)
(* Their bars are those of a lossy format.                                 *)
MCTools == {checksum, structure, hex, gen, diffusion, splicing, residue, object}
MCExaminerOf ==
  [t \in MCTools |-> IF t \in {checksum, structure, hex} THEN metadata
                     ELSE IF t = object THEN scene ELSE image]
MCRole == image :> "image" @@ scene :> "scene" @@ metadata :> "metadata"

LOCAL Flags(conf) == [verdict |-> "POSITIVE", conf |-> conf, defensible |-> TRUE, low |-> FALSE]
LOCAL Clean == [verdict |-> "NEGATIVE", conf |-> 70, defensible |-> TRUE, low |-> FALSE]
LOCAL Error == [verdict |-> "ERROR", conf |-> 0, defensible |-> TRUE, low |-> FALSE]

MCPossible ==
  checksum :> {Flags(100)} @@ structure :> {Flags(60), Clean, Error} @@ hex :> {Flags(75)}
    @@ gen :> {Flags(95), Clean, Error} @@ diffusion :> {Flags(75)}
    @@ splicing :> {Flags(80), [Flags(80) EXCEPT !.defensible = FALSE]}
    @@ residue :> {[Flags(80) EXCEPT !.low = TRUE], Error} @@ object :> {Flags(60)}

(* How sure the model is matters only to a remote read that asserts. *)
LOCAL Sees(source, read, conf) == [source |-> source, read |-> read, conf |-> conf]
MCReads ==
  {Sees("none", "none", 0)}
    \cup {Sees(source, read, 90) : source \in {"local", "remote"},
                                  read \in {"clean", "suspicious", "manipulated", "ai"}}
    \cup {Sees("remote", read, 50) : read \in {"manipulated", "ai"}}
============================================================================
