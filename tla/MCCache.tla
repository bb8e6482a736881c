------------------------------- MODULE MCCache -------------------------------
(* TLC instance of DecoderCache: the GE2D unit's request, the software        *)
(* unit's, and one for premultiplied pixels.                                  *)
EXTENDS DecoderCache, TLC
MCRequests == [pre : {FALSE}, align : BOOLEAN]
Symmetric == Permutations(Session)
=============================================================================
