---------------------------- MODULE PlayerSession ----------------------------
(***************************************************************************)
(* The SDK player session (port/lv_aic_player_session.c) and its event     *)
(* mailbox (port/lv_aic_player_events.c).  Only the playback worker calls  *)
(* the session.  The SDK is external: any call may fail, and a frame it    *)
(* hands out may even be one that is still out, which poisons the session. *)
(* A lease is known by its frame: the frames that are out are distinct.    *)
(***************************************************************************)
EXTENDS PlayerAllocator, Naturals, FiniteSets

VARIABLES
  s,      \* the session's fields; terminal: its mailbox has seen PLAY_END;
          \* volume: what the SDK was last told in this session
  held,   \* the leases out
  older   \* older[f]: leases with smaller tickets than f's

NoVolume == 0

sessVars == <<s, held, older>>

SessTypeOK ==
  /\ s \in [player : BOOLEAN, started : BOOLEAN, paused : BOOLEAN, faulted : BOOLEAN,
            quarantined : BOOLEAN, terminal : BOOLEAN, volume : Nat]
  /\ held \subseteq Frame /\ older \in [Frame -> SUBSET Frame]

Closed == [player |-> FALSE, started |-> FALSE, paused |-> FALSE, faulted |-> FALSE,
           quarantined |-> FALSE, terminal |-> FALSE, volume |-> NoVolume]

SessInit == s = Closed /\ held = {} /\ older = [f \in Frame |-> {}]

Usable == s.player /\ ~s.faulted /\ ~s.quarantined
KeepLeases == UNCHANGED <<held, older>>

\* lv_aic_player_session_open with an event mailbox and the allocator attached.
SessOpen == ~s.player /\ s' = [s EXCEPT !.player = TRUE] /\ KeepLeases

\* It failed: closed again, or left open (a failed close, or a later step).
SessOpenFails ==
  /\ ~s.player /\ KeepLeases
  /\ \/ UNCHANGED s
     \/ \E bad \in BOOLEAN : s' = [s EXCEPT !.player = TRUE, !.faulted = bad]

\* lv_aic_player_session_start: a failed start may have started something.
SessStart(ok) ==
  /\ Usable /\ ~s.started
  /\ s' = [s EXCEPT !.started = TRUE, !.faulted = ~ok] /\ KeepLeases

\* lv_aic_player_session_pause, not for the value it has already: the SDK toggles.
SessPause(on, ok) ==
  /\ Usable /\ s.started /\ s.paused # on
  /\ s' = IF ok THEN [s EXCEPT !.paused = on] ELSE [s EXCEPT !.faulted = TRUE]
  /\ KeepLeases

\* lv_aic_player_session_volume
SessVolume(v) == Usable /\ s' = [s EXCEPT !.volume = v] /\ KeepLeases

\* lv_aic_player_session_acquire got frame f.
SessAcquire(f) ==
  /\ Usable /\ s.started /\ ~s.paused
  /\ IF f \in held
       THEN s' = [s EXCEPT !.quarantined = TRUE, !.faulted = TRUE] /\ KeepLeases
       ELSE held' = held \cup {f} /\ older' = [older EXCEPT ![f] = held] /\ UNCHANGED s

\* lv_aic_player_session_release; a failed put keeps the lease for a retry.
HeldAfterPut(f, ok) == IF ok THEN held \ {f} ELSE held
SessRelease(f, ok) ==
  LET known == s.player /\ ~s.quarantined /\ f \in held IN
  /\ ok => known
  /\ held' = HeldAfterPut(f, ok)
  /\ older' = IF ok THEN [g \in Frame |-> IF g = f THEN {} ELSE older[g] \ {f}] ELSE older
  /\ s' = [s EXCEPT !.faulted = @ \/ (~ok /\ known)]

\* lv_aic_player_session_seek
SessSeek(ok) ==
  Usable /\ held = {} /\ s' = [s EXCEPT !.faulted = ~ok] /\ KeepLeases

\* lv_aic_player_session_stop refuses while a lease is out.
MayStop == held = {} /\ ~s.quarantined

\* lv_aic_player_session_close: stop, then destroy the player and its decoder.
SessClose ==
  /\ MayStop
  /\ s' = Closed /\ KeepLeases
  /\ FreeAll /\ UNCHANGED pins

\* ... refused, or failed: in stop, or in destroy when the decoder is gone.
SessCloseFails ==
  IF ~MayStop THEN UNCHANGED <<sessVars, memVars>>
  ELSE /\ s.player /\ KeepLeases
       /\ \/ s' = [s EXCEPT !.faulted = TRUE] /\ UNCHANGED memVars
          \/ /\ s' = [s EXCEPT !.faulted = TRUE, !.started = FALSE, !.paused = FALSE]
             /\ FreeAll /\ UNCHANGED pins

-----------------------------------------------------------------------------
(* The decoder's own threads *)

\* PLAY_END reaches the mailbox.
PlayEnd == s.started /\ s' = [s EXCEPT !.terminal = TRUE] /\ KeepLeases /\ UNCHANGED memVars

\* The decoder allocates a frame, or frees one: one that is out too, when the
\* stream changes its format.
DecoderAllocates(f) == s.started /\ f \notin held /\ Allocate(f) /\ UNCHANGED sessVars
DecoderFrees(f) == s.started /\ FreeFrame(f) /\ UNCHANGED sessVars

\* What get_frame can answer: a decoded frame, or one that is already out.
Decoded == {f \in Frame : mem[f] = "live" \/ f \in held}
=============================================================================
