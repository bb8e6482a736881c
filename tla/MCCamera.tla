------------------------------- MODULE MCCamera -------------------------------
(* TLC instance of CameraCapture: three buffers, of which one is published,   *)
(* one waits and one stays with the driver; up to two reconfigurations or     *)
(* input requests overtake a frame that is being scanned.                     *)
EXTENDS CameraCapture
LiveSpec == Spec /\ ShutdownFairness
=============================================================================
