---------------------------- MODULE CameraCapture ----------------------------
(***************************************************************************)
(* The camera capture service (port/lv_aic_camera_capture.c): a worker     *)
(* thread owns the VIN session and moves filled buffers through slots that *)
(* a mutex guards; the UI thread publishes a READY slot as an immutable    *)
(* image (image/mpp/lv_aic_yuv_image.c), whose last reader gives the slot  *)
(* back for the worker to queue again.  A mailbox carries sensor-input     *)
(* requests to the worker and barcode results to the UI.                   *)
(*                                                                         *)
(* Nothing but the worker touches the VIN session, and nothing but a       *)
(* locked section the shared fields: an action is one locked section with  *)
(* the driver calls and local steps that precede it.                       *)
(***************************************************************************)
EXTENDS VinSession

CONSTANTS
  UseBarcode,   \* AIC_LVGL_USE_BARCODE
  MaxGen,       \* bound on barcode_generation (reconfigurations explored)
  MaxReaders    \* bound on one image's simultaneous readers

ASSUME CameraBounds == UseBarcode \in BOOLEAN /\ MaxGen \in Nat /\ MaxReaders \in Nat

VARIABLES
  active,       \* a capture exists (the singleton pointer)
  slot,         \* c->slots[i].state
  state,        \* c->state
  closing, pauseRequested, startRequested, finished,
  input, inflight,          \* c->input.state, c->input_inflight
  enabled, only, ready,     \* the barcode mailbox
  gen,                      \* barcode_generation
  readyGen,                 \* history: generation whose frame the result is from
  \* the worker's program counter and locals
  wpc, wi, wclosing, wpaused, wstart, wgen,
  \* the UI thread between the two halves of poll, and the slot it holds there
  upc, ui,
  image, readers            \* lv_aic_yuv_image of each slot

mailVars == <<input, inflight, enabled, only, ready, gen, readyGen>>
lifeVars == <<active, state, closing, pauseRequested, startRequested, finished>>
workVars == <<wpc, wi, wclosing, wpaused, wstart, wgen>>
pubVars == <<upc, ui, image, readers>>
vars == <<slot, mailVars, lifeVars, workVars, pubVars, vinVars>>

CaptureStates == {"OPENING", "READY", "RUNNING", "PAUSED", "CLOSING", "CLOSED", "FAULT"}
InputStates == {"NONE", "PENDING", "APPLIED", "FAILED", "CANCELLED"}
SlotStates == {"EMPTY", "READY", "PUBLISHING", "PUBLISHED", "RETURN"}

TypeOK ==
  /\ VinTypeOK
  /\ slot \in [Index -> SlotStates]
  /\ state \in CaptureStates /\ input \in InputStates
  /\ active \in BOOLEAN /\ closing \in BOOLEAN /\ finished \in BOOLEAN
  /\ pauseRequested \in BOOLEAN /\ startRequested \in BOOLEAN /\ inflight \in BOOLEAN
  /\ enabled \in BOOLEAN /\ only \in BOOLEAN /\ ready \in BOOLEAN
  /\ wclosing \in BOOLEAN /\ wpaused \in BOOLEAN /\ wstart \in BOOLEAN
  /\ gen \in 0..MaxGen /\ readyGen \in 0..MaxGen /\ wgen \in 0..MaxGen
  /\ wpc \in {"none", "open", "top", "slots", "close", "select", "control", "stream",
              "dequeue", "scan", "decode", "publish", "gone"}
  /\ wi \in 0..Count
  /\ upc \in {"idle", "publish"} /\ ui \in Index
  /\ image \in [Index -> {"none", "live", "retired"}]
  /\ readers \in [Index -> 0..MaxReaders]

Init ==
  /\ VinClosed /\ active = FALSE
  /\ slot = [i \in Index |-> "EMPTY"] /\ state = "OPENING"
  /\ closing = FALSE /\ pauseRequested = FALSE /\ startRequested = FALSE /\ finished = FALSE
  /\ input = "NONE" /\ inflight = FALSE
  /\ enabled = FALSE /\ only = FALSE /\ ready = FALSE /\ gen = 0 /\ readyGen = 0
  /\ wpc = "none" /\ wi = 0
  /\ wclosing = FALSE /\ wpaused = FALSE /\ wstart = FALSE /\ wgen = 0
  /\ upc = "idle" /\ ui = 0
  /\ image = [i \in Index |-> "none"] /\ readers = [i \in Index |-> 0]

-----------------------------------------------------------------------------
(* Steps both threads use *)

\* Slips the runs must notice come before their originals (see the mutants in
\* PROJECT.json).
ReturnReadyNever(p) == slot

\* Every READY slot goes back to VIN if p.
ReturnReady(p) ==
  [i \in Index |-> IF p /\ slot[i] = "READY" THEN "RETURN" ELSE slot[i]]

\* close and fault cancel a request that has not reached the driver.
CancelledNever == input
Cancelled == IF input = "PENDING" /\ ~inflight THEN "CANCELLED" ELSE input

\* A new generation makes every result under way stale.
NextGen == gen + 1

Invalidate ==
  /\ gen < MaxGen /\ gen' = NextGen /\ ready' = FALSE

\* fault()
Fault == closing' = TRUE /\ state' = "FAULT" /\ input' = Cancelled

-----------------------------------------------------------------------------
(* The UI thread *)

\* lv_aic_camera_capture_prepare
Prepare ==
  /\ ~active
  /\ active' = TRUE /\ wpc' = "open"
  /\ UNCHANGED <<slot, mailVars, state, closing, pauseRequested, startRequested, finished>>
  /\ UNCHANGED <<wi, wclosing, wpaused, wstart, wgen, pubVars, vinVars>>

UiIdle == active /\ upc = "idle"

\* lv_aic_camera_capture_barcode_configure
BarcodeConfigure(e, o) ==
  /\ UseBarcode /\ UiIdle /\ ~closing /\ ~finished
  /\ Invalidate
  /\ enabled' = e /\ only' = o
  /\ slot' = ReturnReady(e /\ o)
  /\ UNCHANGED <<input, inflight, readyGen, lifeVars, workVars, pubVars, vinVars>>

\* lv_aic_camera_capture_barcode_poll with room for the result
BarcodePoll ==
  /\ UseBarcode /\ UiIdle /\ ~closing /\ ready
  /\ ready' = FALSE
  /\ UNCHANGED <<input, inflight, enabled, only, gen, readyGen>>
  /\ UNCHANGED <<slot, lifeVars, workVars, pubVars, vinVars>>

\* lv_aic_camera_capture_select_input
SelectInput ==
  /\ UiIdle /\ ~closing /\ ~finished /\ input # "PENDING"
  /\ IF UseBarcode THEN Invalidate ELSE UNCHANGED <<gen, ready>>
  /\ input' = "PENDING"
  /\ slot' = ReturnReady(TRUE)
  /\ UNCHANGED <<inflight, enabled, only, readyGen, lifeVars, workVars, pubVars, vinVars>>

\* lv_aic_camera_capture_start
Start ==
  /\ UiIdle /\ ~closing /\ ~finished
  /\ startRequested' = TRUE
  /\ UNCHANGED <<active, state, closing, pauseRequested, finished>>
  /\ UNCHANGED <<slot, mailVars, workVars, pubVars, vinVars>>

\* lv_aic_camera_capture_pause
Pause(p) ==
  /\ UiIdle
  /\ pauseRequested' = p
  /\ UNCHANGED <<active, state, closing, startRequested, finished>>
  /\ UNCHANGED <<slot, mailVars, workVars, pubVars, vinVars>>

\* lv_aic_camera_capture_poll: claim a READY slot ...
PollClaim(i) ==
  /\ UiIdle /\ ~closing /\ input # "PENDING"
  /\ slot[i] = "READY" /\ \A j \in 0..i-1 : slot[j] # "READY"
  /\ slot' = [slot EXCEPT ![i] = "PUBLISHING"]
  /\ upc' = "publish" /\ ui' = i
  /\ UNCHANGED <<mailVars, lifeVars, workVars, image, readers, vinVars>>

\* ... and make an image of it: retain_slot, or RETURN when there is none.
PollImage(ok) ==
  /\ upc = "publish"
  /\ upc' = "idle" /\ ui' = 0
  /\ slot' = [slot EXCEPT ![ui] = IF ok THEN "PUBLISHED" ELSE "RETURN"]
  /\ image' = [image EXCEPT ![ui] = IF ok THEN "live" ELSE "none"]
  /\ UNCHANGED <<readers, mailVars, lifeVars, workVars, vinVars>>

\* lv_aic_yuv_image_acquire, image_open
ReaderOpen(i) ==
  /\ image[i] = "live" /\ readers[i] < MaxReaders
  /\ readers' = [readers EXCEPT ![i] = @ + 1]
  /\ UNCHANGED <<slot, mailVars, lifeVars, workVars, upc, ui, image, vinVars>>

\* free_image runs release_slot.
FreeImage(i) ==
  /\ image' = [image EXCEPT ![i] = "none"]
  /\ slot' = [slot EXCEPT ![i] = "RETURN"]

\* lv_aic_yuv_image_release_lease, image_close
ReaderClose(i) ==
  /\ readers[i] > 0
  /\ readers' = [readers EXCEPT ![i] = @ - 1]
  /\ IF image[i] = "retired" /\ readers[i] = 1
       THEN FreeImage(i)
       ELSE UNCHANGED <<image, slot>>
  /\ UNCHANGED <<mailVars, lifeVars, workVars, upc, ui, vinVars>>

Unread(i) == readers[i] = 0

\* lv_aic_yuv_image_destroy: readers keep a retired image.
ImageDestroy(i) ==
  /\ image[i] = "live"
  /\ IF Unread(i)
       THEN FreeImage(i)
       ELSE image' = [image EXCEPT ![i] = "retired"] /\ UNCHANGED slot
  /\ UNCHANGED <<mailVars, lifeVars, workVars, upc, ui, readers, vinVars>>

\* lv_aic_camera_capture_close
Close ==
  /\ UiIdle
  /\ closing' = TRUE /\ input' = Cancelled
  /\ state' = IF finished \/ state = "FAULT" THEN state ELSE "CLOSING"
  /\ UNCHANGED <<active, pauseRequested, startRequested, finished>>
  /\ UNCHANGED <<slot, inflight, enabled, only, ready, gen, readyGen, workVars, pubVars, vinVars>>

\* lv_aic_camera_capture_destroy; the next capture starts with fresh fields.
Destroy ==
  /\ UiIdle /\ finished
  /\ active' = FALSE /\ wpc' = "none"
  /\ slot' = [i \in Index |-> "EMPTY"] /\ state' = "OPENING"
  /\ closing' = FALSE /\ pauseRequested' = FALSE /\ startRequested' = FALSE /\ finished' = FALSE
  /\ input' = "NONE" /\ inflight' = FALSE
  /\ enabled' = FALSE /\ only' = FALSE /\ ready' = FALSE /\ gen' = 0 /\ readyGen' = 0
  /\ UNCHANGED <<wi, wclosing, wpaused, wstart, wgen, pubVars, vinVars>>

-----------------------------------------------------------------------------
(* The worker thread *)

Goto(p) == wpc' = p /\ UNCHANGED <<wi, wclosing, wpaused, wstart, wgen>>

\* The round is over: its locals end with it.
NextRound ==
  /\ wpc' = "top" /\ wi' = 0 /\ wgen' = 0
  /\ wclosing' = FALSE /\ wpaused' = FALSE /\ wstart' = FALSE

\* fault() and continue
FaultRound ==
  /\ Fault /\ NextRound
  /\ UNCHANGED <<active, pauseRequested, startRequested, finished>>
  /\ UNCHANGED <<inflight, enabled, only, ready, gen, readyGen, pubVars>>

WorkerOpen(ok) ==
  /\ wpc = "open" /\ VinOpen(ok)
  /\ IF ok
       THEN NextRound /\ UNCHANGED <<mailVars, lifeVars, pubVars>>
       ELSE FaultRound
  /\ UNCHANGED slot

\* The snapshot at the top of a round.
Top ==
  /\ wpc = "top"
  /\ wclosing' = closing /\ wpaused' = pauseRequested /\ wstart' = startRequested
  /\ slot' = ReturnReady(closing)
  /\ wpc' = "slots" /\ wi' = 0
  /\ UNCHANGED <<wgen, mailVars, lifeVars, pubVars, vinVars>>

NextSlot == wpc' = "slots" /\ wi' = wi + 1 /\ UNCHANGED <<wpaused, wstart, wgen>>

SkipSlot ==
  /\ wpc = "slots" /\ wi < Count /\ slot[wi] # "RETURN"
  /\ NextSlot
  /\ UNCHANGED <<wclosing, slot, mailVars, lifeVars, pubVars, vinVars>>

\* Only the worker queues buffers to VIN.
GiveBack ==
  /\ wpc = "slots" /\ wi < Count /\ slot[wi] = "RETURN"
  /\ VinRelease(wi, TRUE)
  /\ slot' = [slot EXCEPT ![wi] = "EMPTY"]
  /\ NextSlot
  /\ UNCHANGED <<wclosing, mailVars, lifeVars, pubVars>>

GiveBackFails ==
  /\ wpc = "slots" /\ wi < Count /\ slot[wi] = "RETURN"
  /\ VinRelease(wi, FALSE)
  /\ Fault /\ wclosing' = TRUE
  /\ NextSlot
  /\ UNCHANGED <<slot, active, pauseRequested, startRequested, finished>>
  /\ UNCHANGED <<inflight, enabled, only, ready, gen, readyGen, pubVars>>

SlotsDone ==
  /\ wpc = "slots" /\ wi = Count
  /\ wpc' = IF wclosing THEN "close" ELSE "select"
  /\ wi' = 0
  /\ UNCHANGED <<wclosing, wpaused, wstart, wgen, slot, mailVars, lifeVars, pubVars, vinVars>>

FinalState == IF state = "FAULT" THEN "FAULT" ELSE "CLOSED"

\* lv_aic_vin_close succeeded: the worker's last access.
Finish ==
  /\ wpc = "close" /\ VinClose(TRUE)
  /\ finished' = TRUE
  /\ state' = FinalState
  /\ wpc' = "gone" /\ wclosing' = FALSE /\ wpaused' = FALSE /\ wstart' = FALSE
  /\ UNCHANGED <<wi, wgen, active, closing, pauseRequested, startRequested, slot, mailVars, pubVars>>

CloseLater ==
  /\ wpc = "close" /\ VinClose(FALSE)
  /\ NextRound
  /\ UNCHANGED <<slot, mailVars, lifeVars, pubVars>>

\* Take a pending input request to the driver.
TakeSelect ==
  /\ wpc = "select" /\ ~closing /\ input = "PENDING"
  /\ inflight' = TRUE
  /\ Goto("control")
  /\ UNCHANGED <<input, enabled, only, ready, gen, readyGen, slot, lifeVars, pubVars, vinVars>>

NoSelect ==
  /\ wpc = "select" /\ (closing \/ input # "PENDING")
  /\ Goto("stream")
  /\ UNCHANGED <<slot, mailVars, lifeVars, pubVars, vinVars>>

\* camera_set_channel returned; its verdict and the shutdown it may cause are
\* published together.
Control(ok) ==
  /\ wpc = "control"
  /\ inflight' = FALSE
  /\ input' = IF ok THEN "APPLIED" ELSE "FAILED"
  /\ closing' = (closing \/ ~ok)
  /\ state' = IF ok THEN state ELSE "FAULT"
  /\ IF closing' THEN NextRound ELSE Goto("stream")
  /\ UNCHANGED <<enabled, only, ready, gen, readyGen, slot>>
  /\ UNCHANGED <<active, pauseRequested, startRequested, finished, pubVars, vinVars>>

\* Not streaming and not asked to: READY.
StayPrepared ==
  /\ wpc = "stream" /\ ~streaming /\ ~wstart
  /\ state' = IF closing THEN state ELSE "READY"
  /\ NextRound
  /\ UNCHANGED <<active, closing, pauseRequested, startRequested, finished>>
  /\ UNCHANGED <<slot, mailVars, pubVars, vinVars>>

\* lv_aic_vin_start, then once around for the pause request.
StartStream ==
  /\ wpc = "stream" /\ ~streaming /\ wstart
  /\ VinStart(TRUE)
  /\ Goto("stream")
  /\ UNCHANGED <<slot, mailVars, lifeVars, pubVars>>

SetPaused ==
  /\ wpc = "stream" /\ streaming /\ wpaused # paused
  /\ VinPause(wpaused, TRUE)
  /\ Goto("stream")
  /\ UNCHANGED <<slot, mailVars, lifeVars, pubVars>>

StreamFails ==
  /\ wpc = "stream"
  /\ \/ ~streaming /\ wstart /\ VinStart(FALSE)
     \/ streaming /\ wpaused # paused /\ VinPause(wpaused, FALSE)
  /\ FaultRound
  /\ UNCHANGED slot

\* One buffer stays with VIN.
MayDequeue == ~wpaused /\ Cardinality(held) + 1 < num

Streaming ==
  /\ wpc = "stream" /\ streaming /\ wpaused = paused
  /\ state' = IF closing THEN state ELSE IF wpaused THEN "PAUSED" ELSE "RUNNING"
  /\ IF MayDequeue THEN Goto("dequeue") ELSE NextRound
  /\ UNCHANGED <<active, closing, pauseRequested, startRequested, finished>>
  /\ UNCHANGED <<slot, mailVars, pubVars, vinVars>>

\* lv_aic_vin_acquire may block for a long time; wi is the dequeued index.
Dequeue(i) ==
  /\ wpc = "dequeue" /\ VinAcquire(i)
  /\ IF faulted'
       THEN FaultRound
       ELSE /\ wpc' = "scan" /\ wi' = i
            /\ UNCHANGED <<wclosing, wpaused, wstart, wgen, mailVars, lifeVars, pubVars>>
  /\ UNCHANGED slot

\* No frame in time.
DequeueNone ==
  /\ wpc = "dequeue" /\ NextRound
  /\ UNCHANGED <<slot, mailVars, lifeVars, pubVars, vinVars>>

\* lv_aic_vin_frame_view or the cache invalidation failed.
ViewFails ==
  /\ wpc = "scan"
  /\ slot' = [slot EXCEPT ![wi] = "RETURN"]
  /\ FaultRound
  /\ UNCHANGED vinVars

\* scan_frame: decode this frame?
MayScan == UseBarcode /\ enabled /\ ~ready /\ ~closing /\ input # "PENDING"

Scan ==
  /\ wpc = "scan"
  /\ IF MayScan
       THEN wpc' = "decode" /\ wgen' = gen
       ELSE wpc' = "publish" /\ UNCHANGED wgen
  /\ UNCHANGED <<wi, wclosing, wpaused, wstart, slot, mailVars, lifeVars, pubVars, vinVars>>

MayReportAnyGen == ~closing
MayReport == wgen = gen /\ ~closing

\* While wpc = "decode" the worker writes barcode_data without the lock.
Decoded ==
  /\ wpc = "decode"
  /\ IF MayReport
       THEN ready' = TRUE /\ readyGen' = wgen
       ELSE UNCHANGED <<ready, readyGen>>
  /\ wpc' = "publish" /\ wgen' = 0
  /\ UNCHANGED <<wi, wclosing, wpaused, wstart, input, inflight, enabled, only, gen>>
  /\ UNCHANGED <<slot, lifeVars, pubVars, vinVars>>

\* What becomes of the new frame; it displaces an older unpublished one.
NewSlot == IF closing \/ input = "PENDING" \/ (UseBarcode /\ enabled /\ only) THEN "RETURN" ELSE "READY"

Publish ==
  /\ wpc = "publish"
  /\ slot' = [ReturnReady(TRUE) EXCEPT ![wi] = NewSlot]
  /\ NextRound
  /\ UNCHANGED <<mailVars, lifeVars, pubVars, vinVars>>

-----------------------------------------------------------------------------
Ui ==
  \/ Prepare \/ Start \/ Close \/ Destroy \/ SelectInput \/ BarcodePoll
  \/ \E e, o \in BOOLEAN : BarcodeConfigure(e, o)
  \/ \E p \in BOOLEAN : Pause(p)
  \/ \E i \in Index : PollClaim(i)
  \/ \E ok \in BOOLEAN : PollImage(ok)

Images == \E i \in Index : ReaderOpen(i) \/ ReaderClose(i) \/ ImageDestroy(i)

Worker ==
  \/ \E ok \in BOOLEAN : WorkerOpen(ok) \/ Control(ok)
  \/ Top \/ SkipSlot \/ GiveBack \/ GiveBackFails \/ SlotsDone \/ Finish \/ CloseLater
  \/ TakeSelect \/ NoSelect \/ StayPrepared \/ StartStream \/ SetPaused \/ StreamFails
  \/ Streaming \/ DequeueNone \/ ViewFails \/ Scan \/ Decoded \/ Publish
  \/ \E i \in Answers : Dequeue(i)

Next == Ui \/ Images \/ Worker

Spec == Init /\ [][Next]_vars

\* The threads run, every driver call returns, and nothing is asked of the UI.
WorkerFairness == WF_vars(Worker)

\* For a shutdown to end, readers must let their images go, and a driver that
\* refuses a buffer or STREAM_OFF must at last take it when asked again.
ShutdownFairness ==
  /\ WorkerFairness
  /\ SF_vars(GiveBack) /\ SF_vars(Finish)
  /\ WF_vars(\E ok \in BOOLEAN : PollImage(ok))
  /\ \A i \in Index : WF_vars(ReaderClose(i)) /\ WF_vars(ImageDestroy(i))

-----------------------------------------------------------------------------
(* Properties *)

\* The driver never fills a buffer that an image shows or is about to show.
ImagesAreStable ==
  \A i \in Index :
    slot[i] \in {"PUBLISHING", "PUBLISHED"} \/ image[i] # "none" \/ readers[i] > 0
      => i \in held /\ i \notin queued

\* Every dequeued buffer is in a slot on its way or in the worker's hands, and
\* nothing else is: none is lost to VIN, none is queued twice.
BuffersAccounted ==
  /\ TypeOK
  /\ \A i \in Index :
       i \in held <=> \/ slot[i] # "EMPTY"
                      \/ wpc \in {"scan", "decode", "publish"} /\ wi = i

\* The worker has finished only when no image, no claim of the UI thread and no
\* buffer is left: destroying the capture frees nothing that is used.
FinishedIsQuiet ==
  finished \/ ~active =>
    /\ held = {} /\ ~pool /\ ~streaming
    /\ upc = "idle"
    /\ \A i \in Index : image[i] = "none" /\ slot[i] = "EMPTY"

\* Together: every buffer is in one pair of hands, and only its holder's, to the
\* end.
CaptureInv == ImagesAreStable /\ BuffersAccounted /\ FinishedIsQuiet

\* A barcode result comes from a frame scanned after the latest configure or
\* input selection, and is not written while the UI may read it.
BarcodeCurrent == ready => readyGen = gen /\ wpc # "decode"

\* No frame from before an accepted input request, and none in barcode-only
\* mode, is still to be published.
PreviewIsCurrent == input = "PENDING" \/ (enabled /\ only) => \A i \in Index : slot[i] # "READY"

\* Neither a result nor a preview outlives the request it belongs to.
ResultsAreCurrent == BarcodeCurrent /\ PreviewIsCurrent

\* Every accepted input request is settled.
RequestsSettle == input = "PENDING" ~> input # "PENDING"

\* A shutdown ends once the readers are gone.
ShutdownEnds == closing ~> finished
=============================================================================
