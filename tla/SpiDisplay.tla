----------------------------- MODULE SpiDisplay -----------------------------
(***************************************************************************)
(* The SPI display (port/lv_aic_spi_display.c): it lends LVGL one or two   *)
(* draw buffers, hands a finished one to the transport, and may be claimed *)
(* for good by a client that sends frames of its own (blits).  The         *)
(* transport is the one-job worker of module SpiHandoff, or, `pipelined`,  *)
(* the ring of module SpiPipeline, here as SpiEvents describes it: taking  *)
(* an event is ReleaseSource or Completion, and finding none is possible   *)
(* at any time.                                                            *)
(*                                                                         *)
(* Everything but the transport runs in the UI thread.  Its calls are cut  *)
(* where they look at the transport, since the worker may be anywhere      *)
(* then.  LVGL renders in FULL mode, so that every flush is the last one   *)
(* of its refresh; a client that replaces the draw buffers is not          *)
(* modelled (include/lv_aic_spi_display.h forbids it).  A timer that is    *)
(* paused does not keep the application from calling lv_refr_now, so a     *)
(* refresh may come at any time while the display exists.  The statistics  *)
(* are left out.                                                           *)
(***************************************************************************)
EXTENDS SpiHandoff, Naturals, Sequences, FiniteSets

Jobs == {1, 2}         \* d->jobs; the worker's one job counts as job 1
Buffers == {1, 2}      \* d->buffer, d->second
Client == 3            \* the source of a blit
Kinds == {"none", "flush", "blit"}

VARIABLES
  held, nrel, alarm, phase,   \* the ring, as in SpiEvents
  pipelined,                  \* d->pipeline is used rather than d->worker
  count,                      \* how many draw buffers there are
  d,       \* struct lv_aic_spi_display
  source,  \* Jobs -> the pixels the job's frame points to
  lv,      \* LVGL's display: flushing, active buffer
  ui       \* place in a call, the call, and what its last collect answered

Ring == INSTANCE SpiEvents WITH Frames <- Jobs
ringVars == <<held, nrel, alarm, phase>>
fixed == <<pipelined, count>>
vars == <<handoffVars, ringVars, fixed, d, source, lv, ui>>

NewDisplay == [alive |-> TRUE, jobs |-> [j \in Jobs |-> "none"], inflight |-> 0,
  sourcePending |-> FALSE, pending |-> FALSE, closing |-> FALSE, claiming |-> FALSE,
  blit |-> FALSE, pendingBlit |-> FALSE, result |-> "OK"]

Init ==
  /\ HandoffInit /\ Ring!EventsInit
  /\ pipelined \in BOOLEAN /\ count \in {1, 2}
  /\ d = NewDisplay /\ source = [j \in Jobs |-> Client]
  /\ lv = [flushing |-> FALSE, act |-> 1]
  /\ ui = [at |-> "idle", call |-> "none", ok |-> FALSE]

Idle == ui.at = "idle"
Goto(place, call) == ui' = [at |-> place, call |-> call, ok |-> FALSE]
Return == Goto("idle", "none")
NoTransport == UNCHANGED <<handoffVars, ringVars>>
Quiet == NoTransport /\ UNCHANGED <<fixed, source>>

-----------------------------------------------------------------------------
(* collect: take what the transport has, answer whether nothing is out. *)

Collecting(call) == Goto("collect", call)
Collected(ok) == ui' = [ui EXCEPT !.at = "collected", !.ok = ok]
At(place, call) == ui.at = place /\ ui.call = call
FlushReady == lv' = (IF d.alive THEN [lv EXCEPT !.flushing = FALSE] ELSE lv)
FreedNever(n) == n
Freed(n) == n - 1

CollectNothingOut ==
  /\ ui.at = "collect" /\ ~d.pending /\ Collected(TRUE)
  /\ Quiet /\ UNCHANGED <<d, lv>>

\* lv_aic_spi_pipeline_take delivers SOURCE_RELEASED ...
CollectRelease ==
  /\ ui.at = "collect" /\ d.pending /\ pipelined /\ Ring!ReleaseSource
  /\ IF d.jobs[held[nrel + 1]] = "flush"
     THEN d' = [d EXCEPT !.sourcePending = FALSE] /\ FlushReady
     ELSE UNCHANGED <<d, lv>>
  /\ UNCHANGED <<handoffVars, fixed, source, ui>>

\* ... or COMPLETED ...
CollectCompletion ==
  /\ ui.at = "collect" /\ d.pending /\ pipelined
  /\ \E r \in {"OK", "INVALID", "FAULT"} :
       /\ Ring!Completion(r)
       /\ d' = [d EXCEPT !.result = r, !.inflight = Freed(@), !.jobs[held[1]] = "none",
                         !.pendingBlit = @ /\ d.jobs[held[1]] # "blit"]
  /\ UNCHANGED <<handoffVars, fixed, source, lv, ui>>

\* ... or nothing more.
CollectEnds ==
  /\ ui.at = "collect" /\ d.pending /\ pipelined
  /\ d' = [d EXCEPT !.pending = d.inflight # 0] /\ Collected(d.inflight = 0)
  /\ Quiet /\ UNCHANGED lv

\* lv_aic_spi_worker_take_timed
CollectVerdict ==
  /\ ui.at = "collect" /\ d.pending /\ ~pipelined /\ Take
  /\ d' = [d EXCEPT !.result = verdict, !.pending = FALSE, !.pendingBlit = FALSE]
  /\ IF d.pendingBlit THEN UNCHANGED lv ELSE FlushReady
  /\ Collected(TRUE)
  /\ UNCHANGED <<ringVars, fixed, source>>

CollectNoVerdict ==
  /\ ui.at = "collect" /\ d.pending /\ ~pipelined /\ slot # "DONE" /\ Collected(FALSE)
  /\ Quiet /\ UNCHANGED <<d, lv>>

Collect == \/ CollectNothingOut \/ CollectRelease \/ CollectCompletion \/ CollectEnds
           \/ CollectVerdict \/ CollectNoVerdict

-----------------------------------------------------------------------------
(* submit and stop *)

FreeJobs == {j \in Jobs : d.jobs[j] = "none"}
Job == IF pipelined THEN CHOOSE j \in FreeJobs : \A i \in FreeJobs : j <= i ELSE 1

\* What submit leaves in d, for a frame of this kind that was accepted.
Accepted(kind) ==
  IF pipelined
  THEN [d EXCEPT !.jobs[Job] = kind, !.inflight = @ + 1, !.pending = TRUE, !.result = "OK",
                 !.sourcePending = @ \/ kind = "flush"]
  ELSE [d EXCEPT !.pending = TRUE, !.result = "OK"]

TransportTakes(kind, pixels) ==
  /\ IF pipelined
     THEN FreeJobs # {} /\ Ring!Accept(Job) /\ UNCHANGED handoffVars
     ELSE Put /\ UNCHANGED ringVars
  /\ source' = [source EXCEPT ![Job] = pixels]

\* The ring refuses after a stop, and from the moment its worker has seen a
\* fault, which is before the UI thread learns of it.
RefusedWith(r) ==
  /\ IF pipelined
     THEN r = (IF FreeJobs = {} THEN "BUSY" ELSE IF phase = "open" THEN "FAULT" ELSE "INVALID")
     ELSE ~MayPut /\ r = PutRefusal
  /\ NoTransport /\ UNCHANGED source

Stop == IF pipelined
        THEN /\ Ring!StopAdmission \/ (phase # "open" /\ UNCHANGED ringVars)
             /\ UNCHANGED handoffVars
        ELSE StopWorker /\ UNCHANGED ringVars

-----------------------------------------------------------------------------
(* LVGL: with one buffer a refresh waits, renders and flushes; with two it *)
(* renders, waits, flushes and swaps.                                      *)

AfterWait == IF count = 1 THEN "render" ELSE "flush"
LvglWaits == IF lv.flushing THEN Goto("wait", "wait") ELSE Goto(AfterWait, "flush")

Refresh ==
  /\ Idle /\ d.alive
  /\ IF count = 1 THEN LvglWaits ELSE Goto("render", "flush")
  /\ Quiet /\ UNCHANGED <<d, lv>>

Rendered ==
  /\ ui.at = "render"
  /\ IF count = 1 THEN Goto("flush", "flush") ELSE LvglWaits
  /\ Quiet /\ UNCHANGED <<d, lv>>

\* wait_flush, for LVGL's wait: collect until nothing is out, or, with the
\* ring, until no source is (slip: without a look at it).
WaitOverAtOnce == IF pipelined THEN TRUE ELSE ui.at = "collected" /\ ui.ok
WaitOver == IF pipelined THEN ~d.sourcePending ELSE ui.at = "collected" /\ ui.ok

WaitFlush ==
  /\ ui.call = "wait" /\ ui.at \in {"wait", "collected"}
  /\ ~d.pendingBlit /\ ~WaitOver
  /\ Collecting("wait") /\ Quiet /\ UNCHANGED <<d, lv>>

WaitReturns ==
  /\ ui.call = "wait" /\ ui.at \in {"wait", "collected"}
  /\ d.pendingBlit \/ WaitOver
  /\ lv' = [lv EXCEPT !.flushing = FALSE]
  /\ Goto(AfterWait, "flush") /\ Quiet /\ UNCHANGED d

\* flush: while the display closes or is claimed nothing is sent ...
Swapped(l) == IF count = 2 THEN [l EXCEPT !.act = 3 - @] ELSE l

FlushDropped ==
  /\ ui.at = "flush" /\ (d.closing \/ d.claiming)
  /\ lv' = Swapped(lv) /\ Return /\ Quiet /\ UNCHANGED d

\* ... else the ring is looked at ...
FlushEnters ==
  /\ ui.at = "flush" /\ ~d.closing /\ ~d.claiming
  /\ lv' = [lv EXCEPT !.flushing = TRUE]
  /\ Goto(IF pipelined THEN "collect" ELSE "submit", "flush")
  /\ Quiet /\ UNCHANGED d

\* ... until it has room ...
FlushRetries ==
  /\ At("collected", "flush") /\ d.inflight = 2
  /\ Collecting("flush") /\ Quiet /\ UNCHANGED <<d, lv>>

FlushAdmitted == At("submit", "flush") \/ (At("collected", "flush") /\ d.inflight # 2)

\* ... and the frame is accepted, or refused and LVGL told at once.
FlushSubmits ==
  /\ FlushAdmitted /\ TransportTakes("flush", lv.act)
  /\ d' = Accepted("flush") /\ lv' = Swapped(lv)
  /\ Return /\ UNCHANGED fixed

FlushRejected ==
  /\ FlushAdmitted
  /\ \E r \in {"FAULT", "INVALID", "BUSY"} :
       RefusedWith(r) /\ d' = [d EXCEPT !.result = r]
  /\ lv' = Swapped([lv EXCEPT !.flushing = FALSE])
  /\ Return /\ UNCHANGED fixed

\* deleted: the LV_EVENT_DELETE of the display.
Deleted ==
  /\ Idle /\ d.alive
  /\ d' = [d EXCEPT !.alive = FALSE, !.closing = TRUE]
  /\ Stop /\ UNCHANGED <<fixed, source, lv, ui>>

Lvgl == \/ Refresh \/ Rendered \/ WaitFlush \/ WaitReturns \/ FlushDropped \/ FlushEnters
        \/ FlushRetries \/ FlushSubmits \/ FlushRejected \/ Deleted

-----------------------------------------------------------------------------
(* The owner: poll, claim_blit, blit, blit_take and close.  Calls that are *)
(* refused before they change anything are stuttering steps.               *)

MayPollAnyway == TRUE
MayPoll == ~d.pendingBlit
Grants == ui.ok /\ d.result \notin {"FAULT", "BUSY"}

Poll == Idle /\ MayPoll /\ Collecting("poll") /\ Quiet /\ UNCHANGED <<d, lv>>
BlitTake == Idle /\ d.pendingBlit /\ Collecting("take") /\ Quiet /\ UNCHANGED <<d, lv>>
Answer ==
  /\ At("collected", "poll") \/ At("collected", "take")
  /\ Return /\ Quiet /\ UNCHANGED <<d, lv>>

ClaimBlit ==
  /\ Idle /\ ~d.closing /\ d.alive /\ ~d.blit
  /\ d' = [d EXCEPT !.claiming = TRUE]
  /\ Collecting("claim") /\ Quiet /\ UNCHANGED lv

ClaimAnswered ==
  /\ At("collected", "claim")
  /\ d' = [d EXCEPT !.blit = Grants]
  /\ Return /\ Quiet /\ UNCHANGED lv

Blit ==
  /\ Idle /\ d.blit /\ ~d.closing /\ ~d.pending
  /\ TransportTakes("blit", Client)
  /\ d' = [Accepted("blit") EXCEPT !.pendingBlit = TRUE]
  /\ UNCHANGED <<fixed, lv, ui>>

BlitRejected ==
  /\ Idle /\ d.blit /\ ~d.closing /\ ~d.pending
  /\ \E r \in {"FAULT", "INVALID", "BUSY"} :
       RefusedWith(r) /\ d' = [d EXCEPT !.result = r]
  /\ UNCHANGED <<fixed, lv, ui>>

Close ==
  /\ Idle
  /\ d' = [d EXCEPT !.closing = TRUE]
  /\ IF d.closing THEN NoTransport ELSE Stop
  /\ Collecting("close") /\ UNCHANGED <<fixed, source, lv>>

\* The transport may be closed when the worker has left and all was taken.
CloseSucceeds ==
  /\ At("collected", "close") /\ ui.ok
  /\ IF pipelined THEN Ring!CloseHandle /\ UNCHANGED handoffVars
     ELSE MayCloseWorker /\ NoTransport
  /\ d' = [d EXCEPT !.alive = FALSE]
  /\ Goto("freed", "none") /\ UNCHANGED <<fixed, source, lv>>

CloseRefused ==
  /\ At("collected", "close") /\ (~pipelined => ~ui.ok \/ ~MayCloseWorker)
  /\ Return /\ Quiet /\ UNCHANGED <<d, lv>>

Owner == \/ Poll \/ BlitTake \/ Answer \/ ClaimBlit \/ ClaimAnswered \/ Blit \/ BlitRejected
         \/ Close \/ CloseSucceeds \/ CloseRefused

-----------------------------------------------------------------------------
Background == ~pipelined /\ WorkerNext /\ UNCHANGED <<ringVars, fixed, d, source, lv, ui>>

UiThread == Collect \/ Lvgl \/ Owner
Next == UiThread \/ Background

\* The UI thread goes on with a call it has begun; the worker runs, in the ring
\* too, where every accepted frame gets its events (SpiPipeline) and a poll for
\* ever sees them; an owner that closes calls close until it succeeds.
InCall == ui.at \notin {"idle", "freed"}
TakesEvent == CollectRelease \/ CollectCompletion
Fairness ==
  /\ WF_vars(InCall /\ UiThread) /\ WF_vars(Background)
  /\ SF_vars(TakesEvent) /\ SF_vars(CloseSucceeds)
  /\ SF_vars(d.closing /\ Close)

Spec == Init /\ [][Next]_vars /\ Fairness

-----------------------------------------------------------------------------
(* Properties *)

Used == {j \in Jobs : d.jobs[j] # "none"}
InRing == {held[n] : n \in 1..Len(held)}
Unreleased == {held[n] : n \in (nrel + 1)..Len(held)}

\* The sources the transport still reads.
Read == IF pipelined THEN {source[j] : j \in Unreleased}
        ELSE IF slot \in {"QUEUED", "RUNNING"} THEN {source[1]} ELSE {}

TypeOK ==
  /\ HandoffTypeOK /\ pipelined \in BOOLEAN /\ count \in {1, 2}
  /\ d.jobs \in [Jobs -> Kinds] /\ d.inflight \in 0..2
  /\ d.result \in {"OK", "INVALID", "BUSY", "FAULT"}
  /\ source \in [Jobs -> Buffers \cup {Client}]
  /\ lv \in [flushing : BOOLEAN, act : 1..count]
  /\ ui.at \in {"idle", "collect", "collected", "render", "wait", "flush", "submit", "freed"}

\* The display's books are the transport's: a job for each frame in the ring,
\* and something pending exactly while something is out.
BooksAgree ==
  /\ pipelined => /\ Used = InRing /\ d.inflight = Len(held)
                  /\ d.sourcePending = \E j \in Unreleased : d.jobs[j] = "flush"
                  /\ d.pendingBlit = \E j \in Used : d.jobs[j] = "blit"
  /\ ~pipelined => d.pendingBlit = (slot # "EMPTY" /\ source[1] = Client)
  /\ ui.at # "collect" => d.pending = (IF pipelined THEN held # <<>> ELSE slot # "EMPTY")

\* LVGL never renders into a buffer the transport still reads, no source is
\* left with it when the display is freed, and a worker that has left left no
\* job behind.
SourcesAreSafe ==
  /\ ui.at = "render" => lv.act \notin Read
  /\ ui.at = "freed" => Read = {} /\ (~pipelined => Exited)
  /\ Exited => slot \notin {"QUEUED", "RUNNING"}

\* Buffers, books and jobs are safe at every step of both transports.
SpiDisplayInv == TypeOK /\ BooksAgree /\ SourcesAreSafe

\* A granted claim is for ever: while it lasts LVGL gets no frame through, the
\* blit is alone with the transport, its verdict is consumed by blit_take or by
\* close only, and blit_take succeeds only when the client's pixels are free.
BlitIsExclusive ==
  [][/\ d.blit => d'.blit /\ Read' \subseteq {Client}
     /\ d.pendingBlit /\ ~d'.pendingBlit => ui.call \in {"take", "close"}
     /\ At("collected", "take") /\ ui.ok => Client \notin Read /\ ~d.pending]_vars

\* A flush, or LVGL's wait for one, ends, also after a fault of the transport.
FlushEnds == ui.at \in {"wait", "flush"} ~> Idle

\* An owner that begins to close, or whose display LVGL deleted, gets it closed.
CloseEnds == d.closing ~> ui.at = "freed"
=============================================================================
