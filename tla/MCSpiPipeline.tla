---------------------------- MODULE MCSpiPipeline ----------------------------
(* TLC instance of SpiPipeline: two frames are held while a third waits.  A  *)
(* transfer without a conversion callback does nothing that one with a       *)
(* callback cannot do (ConvertFail), so only the latter is explored.         *)
EXTENDS SpiPipeline, TLC
CONSTANTS f1, f2, f3
MCFrames == {f1, f2, f3}
FrameSymmetry == Permutations(MCFrames)
MCInit == Init /\ transform
MCSpec == MCInit /\ [][Next]_vars
=============================================================================
