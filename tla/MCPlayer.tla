------------------------------- MODULE MCPlayer -------------------------------
(* TLC instances of PlayerPlayback; the frames are interchangeable.          *)
EXTENDS PlayerPlayback, TLC

Frames == Permutations(Frame)

\* Playing, with the preserve policy only ever switched on: no seek, pause,
\* close or fault, no reader beside the owner, and a decoder that keeps its
\* frames.
OrderNext ==
  /\ Next
  /\ ~p'.closing /\ ~p'.seekPending /\ ~p'.pause /\ (f.preserve => f'.preserve)
  /\ \A i \in Slot : image'[i] # "read"
  /\ \A g \in Frame : mem[g] = "live" => mem'[g] = "live"
OrderSpec == Init /\ [][OrderNext]_vars

LiveSpec == Spec /\ ShutdownFairness
=============================================================================
