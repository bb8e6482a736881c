------------------------------ MODULE MCPlatform ------------------------------
(* TLC instance of Platform: no provider or both, one picture.  Boards that   *)
(* wait for interrupts rotate, boards that poll draw into the framebuffer.    *)
EXTENDS Platform
MCProviders == {{}, {"encoder", "mouse"}}
MCRequests == {[pre |-> FALSE, align |-> FALSE]}
MCInit == PlatformInit /\ (mode = "poll" <=> ~d.copies)
MCSpec == MCInit /\ [][PlatformNext]_allVars /\ PlatformFairness
=============================================================================
