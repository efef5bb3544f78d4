--------------------------- MODULE MCGeminiCalls ---------------------------
(* Instance for TLC: preflights of an image, of a video and of the same    *)
(* image in a second session, with two models.                             *)
EXTENDS GeminiCalls, TLC
CONSTANTS v1, v2, v3, image, video

MCVisions == {v1, v2, v3}
MCFileOf == v1 :> image @@ v2 :> video @@ v3 :> image
MCKindOf == v1 :> "image" @@ v2 :> "media" @@ v3 :> "image"
MCCascade == <<"flash", "lite">>
============================================================================
