-------------------------------- MODULE MCApng --------------------------------
(* TLC instances of ApngPlayback: two slots, so that two images fill the     *)
(* pool, and a replay in the middle of an animation.                         *)
EXTENDS ApngPlayback

\* What is not paused, and readers of the first slot's images only.
LiveNext == Next /\ ~p'.paused /\ image'[2] \notin {"read", "kept"}
LiveSpec == Init /\ [][LiveNext]_vars /\ Fairness
=============================================================================
