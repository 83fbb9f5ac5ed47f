------------------------- MODULE MCInferenceQueue -------------------------
(* Four tasks at a queue that holds three, so that one is turned away while   *)
(* two stand in line behind the one inside.                                  *)
EXTENDS InferenceQueue
=============================================================================
