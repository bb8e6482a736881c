------------------------------ MODULE VinSession ------------------------------
(***************************************************************************)
(* A VIN capture session (port/lv_aic_vin_session.c): one worker opens the *)
(* device and a pool of buffers, queues buffers to the driver, dequeues    *)
(* filled ones (held until queued again), pauses, stops and closes.  Every *)
(* operation is one driver call or a short sequence of them and runs on    *)
(* one thread, so each is one action here.  The driver is external: it may *)
(* fail any call, and it fills only buffers that are queued to it.         *)
(***************************************************************************)
EXTENDS Naturals, FiniteSets

CONSTANT Count   \* buffers asked for when opening

ASSUME CountIsTwoOrMore == Count \in Nat /\ Count >= 2

Index == 0..Count-1

VARIABLES
  pool,       \* the buffer pool exists (s->opened goes with it)
  num,        \* buffers.num_buffers, negotiated at open
  streaming, paused, faulted,
  held,       \* dequeued and not yet queued again
  queued      \* driver: the buffers it may fill

vinVars == <<pool, num, streaming, paused, faulted, held, queued>>

VinTypeOK ==
  /\ pool \in BOOLEAN /\ streaming \in BOOLEAN /\ paused \in BOOLEAN /\ faulted \in BOOLEAN
  /\ num \in 0..Count
  /\ held \subseteq Index /\ queued \subseteq Index

VinClosed ==
  /\ pool = FALSE /\ num = 0 /\ streaming = FALSE /\ paused = FALSE /\ faulted = FALSE
  /\ held = {} /\ queued = {}

\* lv_aic_vin_open; a failure undoes its own steps.
VinOpen(ok) ==
  /\ ~pool
  /\ pool' = ok
  /\ IF ok THEN num' \in 2..Count ELSE num' = 0
  /\ UNCHANGED <<streaming, paused, faulted, held, queued>>

\* lv_aic_vin_start: queue every buffer, then STREAM_ON, which may have
\* started the sensor even when it fails.
VinStart(ok) ==
  /\ pool /\ held = {} /\ ~faulted /\ ~streaming
  /\ \/ ok /\ queued' = 0..num-1 /\ streaming' = TRUE /\ faulted' = FALSE
     \/ /\ ~ok /\ faulted' = TRUE
        /\ \/ \E n \in 0..num-1 : queued' = 0..n-1 /\ streaming' = FALSE
           \/ queued' = 0..num-1 /\ streaming' = TRUE
  /\ UNCHANGED <<pool, num, paused, held>>

\* lv_aic_vin_pause and _resume.
VinPause(on, ok) ==
  /\ streaming /\ ~faulted /\ paused # on
  /\ paused' = IF ok THEN on ELSE paused
  /\ faulted' = ~ok
  /\ UNCHANGED <<pool, num, streaming, held, queued>>

\* The index the driver names must be that of a buffer not held.
Named(i) == i < num /\ i \notin held

\* lv_aic_vin_acquire: the driver names a buffer, which it no longer fills.
VinAcquire(i) ==
  /\ streaming /\ ~paused /\ ~faulted
  /\ IF Named(i)
       THEN held' = held \cup {i} /\ queued' = queued \ {i} /\ UNCHANGED faulted
       ELSE faulted' = TRUE /\ UNCHANGED <<held, queued>>
  /\ UNCHANGED <<pool, num, streaming, paused>>

\* What a driver can answer: a queued buffer, or nonsense.
Answers == queued \cup held \cup {Count}

HeldAfterReleaseAlways(i, ok) == held \ {i}
HeldAfterRelease(i, ok) == IF ok THEN held \ {i} ELSE held

\* lv_aic_vin_release; whether a failed Q_BUF queued the buffer is unknown.
VinRelease(i, ok) ==
  /\ i < num /\ i \in held
  /\ held' = HeldAfterRelease(i, ok)
  /\ queued' \in IF ok THEN {queued \cup {i}} ELSE {queued, queued \cup {i}}
  /\ faulted' = (faulted \/ ~ok)
  /\ UNCHANGED <<pool, num, streaming, paused>>

\* lv_aic_vin_stop refuses while a buffer is held.
MayStopAlways == TRUE
MayStop == held = {}

\* lv_aic_vin_close: stop (STREAM_OFF may fail), then free pool and device.
VinClose(ok) ==
  IF ok
    THEN /\ MayStop
         /\ pool' = FALSE /\ num' = 0 /\ streaming' = FALSE /\ paused' = FALSE
         /\ faulted' = FALSE /\ held' = {} /\ queued' = {}
    ELSE /\ ~MayStop \/ streaming
         /\ faulted' = (faulted \/ (MayStop /\ streaming))
         /\ UNCHANGED <<pool, num, streaming, paused, held, queued>>

=============================================================================
