-------------------------- MODULE MCSpiPipelineLive --------------------------
(* Liveness of SpiPipeline with two frames (the ring is full with them).     *)
EXTENDS SpiPipeline
CONSTANTS f1, f2
MCFrames == {f1, f2}
MCInit == Init /\ back /\ ~transform
MCFairSpec == MCInit /\ [][Next]_vars /\ Fairness
=============================================================================
