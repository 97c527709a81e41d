---------------------------- MODULE MCAudioBridge ----------------------------
(* Rings of nine samples, blocks of two frames and packets of one to three:   *)
(* each ring can overrun, underrun and pass its target within a few services. *)
EXTENDS AudioBridge
=============================================================================
