----------------------------- MODULE MCSpiDisplay -----------------------------
(* TLC instance of SpiDisplay, which has no parameters: both transports, one  *)
(* or two draw buffers.                                                       *)
EXTENDS SpiDisplay
=============================================================================
