----------------------------- MODULE MCSettings -----------------------------
(* Two switches and the command line client at once, with Ollama or with      *)
(* PhiServe.                                                                   *)
EXTENDS Settings
=============================================================================
