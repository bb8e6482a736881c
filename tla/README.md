# Formal models of the ArtInChip LVGL port

This directory holds TLA+ models of the concurrency and ownership core of
lvgl-aic: the TLC runs that check them on small instances, and theorems, checked
by TLAPS, that hold for every value of the constants.  `PROJECT.json` ties every
definition to the lines it models and lists the runs, the theorems, the
divergences found and, for every property, a slip of the code (`mutants`) that
the property notices.

Everything here is translated from the code under `src/`.  LVGL, RT-Thread, the
SDK's media player, the VIN driver and the DMA engine are not part of the
repository; they appear as far as the code uses them, and are marked external.

## 1. The system

One *UI thread* runs LVGL and calls the public functions.  Every service that
talks to slow hardware has a *worker thread* of its own; the two share a small
record under a mutex, or a ring with atomic states.  Pixels are never copied on
the way: what travels between driver, worker, UI, display and draw unit is the
right to touch a buffer.  So the hard question is nearly always the same: *who
may touch this memory now, and does the right come back exactly once, on every
path of failure, retry, seek and shutdown?*

### Inventory

| Component | State | Operations | Works with | Hard because |
|---|---|---|---|---|
| SPI frame transfer, `common/lv_aic_spi_transfer.c` | buffers tx/back, pending, fault, active | submit, drain, close, set_transform, set_back_buffer | driver's start and wait, DMA | conversion overlaps the DMA; a failed wait or start leaves the DMA's state unknown |
| SPI pipeline, `port/lv_aic_spi_pipeline.c` | two slots, ring positions, stop/fault flags | submit, take, stop, close; worker | transfer, semaphore, display | single atomic loads and stores between two threads, lost wake-ups, shutdown |
| SPI handoff and worker | one slot, stopping, exited | put, take, run, stop, close | session | as the ring, with one job |
| SPI session, sdk, ge2d | registry of sessions, buffers, GE client | open, open_owned, enable_overlap, enable_ge2d, submit, close | bus, transfer | exclusive bus and memory, teardown in order and refusable |
| SPI display, `port/lv_aic_spi_display.c` | jobs, claim and blit flags, last result | flush, wait, poll, claim_blit, blit, blit_take, close | LVGL, ring or worker | events of several frames against one `result`; blit ownership; LVGL may delete the display |
| SPI panel | power, fault | open, start, close | session | order of power, reset and TE |
| VIN session, `port/lv_aic_vin_session.c` | held set, opened, pool, streaming, paused, faulted | open, start, pause, resume, acquire, release, stop, close | VIN driver | calls that fail after taking effect, wrong indices |
| Camera capture, `port/lv_aic_camera_capture.c` | slot states, input and barcode mailbox, life cycle | prepare, start, pause, poll, select_input, barcode_*, close, destroy; worker | VIN session, YUV images | two threads and readers on three buffers; requests that overtake a frame in work |
| YUV and RGB image leases, `image/mpp/lv_aic_*_image.c` | readers, retired | create, open/close, destroy | display, draw unit, decoder cache | freed by the last reader or the owner, whoever is later |
| Player allocator | frames, pins, retired | allocate, free (SDK threads); acquire, release | SDK decoder | decoder frees while a reader still looks |
| Player session, events | held leases, started, paused, faulted, quarantined; terminal | open, start, pause, volume, seek, acquire, release, close | SDK player | refused put, frame handed out twice, volume and end lost over a seek |
| Player mailbox, `port/lv_aic_player_frames.c` | slots, closing, quarantined, preserve | submit, drain, poll, preserve, close, reopen | allocator, session, images | submit decides in two locked sections |
| Media playback, `port/lv_aic_player_playback.c` | status, requests; worker's locals | prepare, start, pause, volume, seek, poll, preserve, close, destroy; worker | all four above, media runtime | seek replaces the session under a running UI |
| Media runtime, VE client | users, gate, audio_owner | acquire, release, enter, leave | players, APNG | one audio owner among several players |
| Player clock | reference pts/time | reset, sync, time, pause, schedule | nothing yet | 64-bit arithmetic |
| APNG playback, frames | slots, sequence; status, requests | prepare, start, pause, rate, restart, poll, preserve, close; worker | stream, RGB images, media runtime | restart against a frame in work |
| APNG stream, timeline, decoder, compose | disposal, plays, delays | tick, pause, rate, restart | PNG codec | time arithmetic |
| MPP image decoder, `image/mpp/lv_aic_mpp_decoder.c` | decoded sessions, refs, order of use, budget | open, close, drop, set_limit, init, deinit | LVGL cache, CMA | invalidation and eviction under readers |
| GE2D draw unit | task in work, draw buffers | evaluate, dispatch, execute | LVGL draw, display | geometry; layers and stripes |
| Lifecycle, `port/lv_aic.c` | what is initialised | init, deinit, set_*_provider | display, indev, decoder, GE2D | rollback; refused shutdown |
| Framebuffer display, `port/lv_aic_display.c` | planes, quarantine | create, flush, delete | framebuffer, GE2D | a faulted engine may still write |
| Touch, `port/lv_aic_indev.c` | context, active owner, semaphores, callbacks inside | init, cleanup; worker, interrupt callback | touch driver, lifecycle | stopping a worker and a callback that may be anywhere |
| Video plane | plane owner | show, hide | DE | one hardware layer |
| RT-Thread sync | event, mutex, thread | LVGL's OS interface | RT-Thread | binary notification |
| APNG widget and slaves, `widgets/lv_aic_apng_widget.c` | playback, frame, slaves, requests, orphans | create, set_src, start, pause, close, set_master, deletion; timers | APNG playback, LVGL's objects and draw tasks | replacement while images are drawn; clean-up after the object is gone |
| FreeType cache, other widgets | references; children and events | public widget interface | services above | life cycle |

### What makes each correct

- *SPI*: the DMA's buffer is not written; a frame's source is borrowed between
  submit and SOURCE_RELEASED only; COMPLETED/OK means that it was sent; every
  accepted frame yields both events, in order; after a fault nothing is reused.
- *Camera*: the driver never fills a buffer that is shown; each dequeued buffer
  is accounted for; results and previews belong to the current request;
  finished means that nothing is in use.
- *Player*: a shown frame is pinned, leased and not freed; leases are neither
  lost nor returned twice; preserved frames are kept and in order; the status
  tells the truth about seeks, volume and the end; seek and shutdown end.
- *APNG*: as the camera's mailbox, and no frame of before a restart after it.
- *Decoder cache*: no entry freed under a reader, none stale served, budget kept.
- *SPI display*: LVGL never renders into a buffer that is being sent; a verdict
  goes to whom the frame belonged to; a claim excludes LVGL; closing ends.
- *Media runtime*: the gate outlives its users; one player plays sound.
- *APNG widget*: no draw task refers to an image that is gone; what was asked of
  a playback is what the application said last; every clean-up is finished.
- *Lifecycle*: init is all or nothing; deinit does all or refuses; what a
  faulted engine may still access stays.

The hazards, each at its line with the properties that cover it, are in
`PROJECT.json`.

## 2. Plan

| | Modules | Composes | Abstract specification | Theorems | State |
|---|---|---|---|---|---|
| 1 | `SpiTransfer`, `SpiPipeline`, `SpiEvents`, `SpiProofs` | the pipeline runs the transfer | `SpiEvents`: the two events per frame | done | written |
| 2 | `VinSession`, `CameraCapture`, `CameraProofs` | capture over session and image leases | | done | written |
| 3 | `PlayerAllocator`, `PlayerSession`, `PlayerFrames`, `PlayerPlayback`, `PlayerProofs` | each extends the one before | | done | written |
| 4 | `SpiHandoff`, `SpiDisplay`, `DisplayProofs` | display over handoff or `SpiEvents` | | done | written |
| | `SpiSession`, `SpiPanel` | registry, panel under the session | one owner per bus | bus exclusivity | open |
| 5 | `ApngFrames`, `ApngPlayback`, `ApngProofs` | service over mailbox | | done | written |
| | `MediaRuntime`, `ApngWidget`, `MediaProofs` | players and APNGs over the runtime; a widget over APNGs | `MediaRuntime`, of `ApngWidget` | done | written |
| 6 | `DecoderCache`, `PictureStore`, `CacheProofs` | cache, readers, invalidation | `PictureStore`: what a reader sees | done | written |
| 7 | `PlayerClock`, `ApngTimeline`, `Ge2dGeometry` | pure operators | reference definitions over bounded inputs | bounds | open |
| 8 | `TouchInput`, `Platform`, `PlatformProofs` | lifecycle over touch and decoder | | done | written |
| | `OsSync`, `VideoPlane`, `FtCache`, player, camera and canvas widgets | | | | open |

The order is that of what a mistake costs: memory that hardware reads or writes
first, what an application is told second, sequential code last.  Modules that
theorems are about declare no RECURSIVE operator.

## 3. The models

Common conventions.  An action is one section under the lock (or one visible
atomic access) with the local steps and driver calls before it, since the other
threads see nothing in between.  A driver call that may fail is an action with
a Boolean or two actions.  A worker's locals that are dead at the end of a round
are reset, which keeps the state space small and hides nothing.  Definitions
whose name ends in a variation of the next one's (`UnreadAlways` before `Unread`)
are slips of the code for the mutation runs; no specification uses them.

### SPI transport

`SpiTransfer` (`common/lv_aic_spi_transfer.c`): `tx`/`back` with the contents of
both, `pending`, `fault`, `active` as in the struct; `pc`, `op`, `output`,
`source` are the place inside a call; `dma`, `sent` the hardware.  `SubmitEnter`
and `DrainEnter` are the entries of submit_ex, drain and close, `WaitOk`,
`WaitFail`, `ConvertOk`, `ConvertFail`, `StartOk`, `StartFail` the calls out, and
`DmaDone` the hardware.  A conversion first tears its output (`Torn`), so that
overlapping DMA reads are visible.  A failed start may or may not have started
the DMA, a failed wait says nothing of it.

`SpiPipeline` (`port/lv_aic_spi_pipeline.c`): per slot `state`, `released`,
`completed`, `cookie`; `put`, `take`, the worker's positions; `stopping`,
`exited`, the halting fault, and the semaphore's tokens.  The worker
(`SemTake`, `RunNext`, `RunSubmit`..`RunPublish`, `CheckStop`, `DrainCall`..,
`Exit`) runs the transfer of `SpiTransfer` step by step beside its DMA; the
producer (`Submit`, `Enqueue`, `Give`, `TakeRelease`, `TakeComplete`, `Stop`,
`Close`) runs in the UI thread.  Each atomic store is a step of its own.

`SpiEvents` is what `include/lv_aic_spi_pipeline.h` promises: at most two
frames, one release and one completion each, in order.  `EventsHonoured` is the
refinement, under a mapping that reads the slots in ring order.

### Camera

`VinSession` is the session as operators over `held`, `queued`, `pool`,
`streaming`, `paused`, `faulted`; the driver answers a dequeue with any index.
`CameraCapture` adds the slots (EMPTY, READY, PUBLISHING, PUBLISHED, RETURN), the
input mailbox (`input`, `inflight`), the barcode mailbox (`enabled`, `only`,
`gen`, `ready`, `readyGen`), the image of each slot with its readers, and the
worker's loop.  Formats, addresses and decoding are successes or failures.

### Player

`PlayerAllocator`: `mem` (free, live, retired) and `pins`; the SDK allocates and
frees from its own threads.  `PlayerSession`: the record `s` (player, started,
paused, volume, faulted, quarantined, terminal) and `held`.  Tickets are named
by their frames: session_acquire never has two tickets of one frame (a second
one is the quarantine of line 75), and `older` keeps their order.
`PlayerFrames`: per slot `st`, `lease`, `pinned`, `image`; the record `f`
(closing, quarantined, preserve); submit in its two sections with the pinning in
between, drain slot by slot, poll with the image's creation in between.
`PlayerPlayback`: the record `p` of status and requests, the worker's snapshot
`w`, its pending lease and `video_eos`.

### APNG

`ApngFrames`: the slots with their pixels (`pic`: a frame, or nothing while they
are written), the record `pool`, the image of each slot and `upoll`, the slot in
the UI thread's hands.  Publication and poll are two sections each.
`ApngPlayback`: the record `p` of requests and status; the worker `w` with its
place, snapshot and `pending`; the stream `c` (timeline and canvas); the history
`h` that the properties need.  A frame is named by its replay and number, which
order as the code's sequence numbers do.  The clock is a choice: whenever a
frame could be due, a tick composes it or waits.  A poll holds the player's
mutex from claim to image, so the worker's sections under that mutex
(`Locks`) wait for it, while those under the mailbox's alone (`At`) do not.

### SPI display

`SpiHandoff` (`port/lv_aic_spi_handoff.c`, `lv_aic_spi_worker.c`): the slot with
its verdict, the flags of both sides, the worker's place.  Its semaphore is left
out: the wait ends after ten milliseconds, so a wake-up only changes when the
worker looks.  The session cannot answer BUSY, since one thread uses it.

`SpiDisplay` (`port/lv_aic_spi_display.c`): the record `d` is the struct, `lv` is
LVGL's view (flushing, active buffer), `ui` the place in a call.  The transport is
the handoff or, `pipelined`, the ring as `SpiEvents` describes it: taking an
event is a step of `SpiEvents`, and `SpiPipeline` is shown to implement that.
Every call is cut where it looks at the transport.  A refresh may come whenever
the display exists, because a paused timer does not stop `lv_refr_now`.

### Decoder cache

`DecoderCache` (`image/mpp/lv_aic_mpp_decoder.c`): a session is a record (source,
version, arguments, memory, cost, readers, cached, dropped), `older` the list, as
what is older than each entry, `bytes`, `limit`, `opens` the counters, `has` the
readers.  An
action is one section under `g_mpp_lock`, with its evictions, and decoding is a
choice of outcomes.  A source changes with the drop that
`docs/resource-stage.md` demands.  `PictureStore` has neither cache nor
sessions: a reader opens a picture and keeps it.  `PicturesHonoured` is the
refinement.

### Platform

`TouchInput` (`port/lv_aic_indev.c`): the context `t` with what it has, the
active owner, the driver's callback, the semaphores as numbers; the places of
init and cleanup (`at`), of the worker and of each invocation of the callback.
`Platform` (`port/lv_aic.c` with the parts of `port/lv_aic_display.c` and
`draw/ge2d/lv_draw_aic_ge2d.c` that outlive a call) runs init, rollback and
deinit part by part over `TouchInput` and `DecoderCache`: `plan` is what is still
to be made or unmade, `handle` the static pointers, `made` what exists, `d` the
planes and the quarantine, `g` the engine's client and what a fault left it
writing to.

### Media runtime and APNG widget

`MediaRuntime` (`port/lv_aic_media_runtime.c`): `users`, `gate`, `audio` are the
statics, `inside` the mutex's holder.  Its callers are players and APNGs, reduced
to what they call: for each a place of its worker, `closing`, `owns` and what its
session plays.  The UI thread's prepare is two steps, because the worker may
start before it returns.

`ApngWidget` (`widgets/lv_aic_apng_widget.c`) extends it: `b` and `s` are the
bindings of widgets and slaves, which live on as orphans when their objects are
deleted, `frame` what each holds, `drawing` the images LVGL's draw tasks refer to.
`tick` is cut where it calls the playback, since the playback's worker may act
between any two calls; other calls of the UI thread are not possible there.
A frame is an image of a playback and is destroyed by its last holder.
`asked` is what a playback was told, for comparison with what the application
told the widget.  Rates are handled as pauses are and left out.

## 4. Runs

| Run | Instance | Question |
|---|---|---|
| `spi_pipeline` | 3 frames, 1 wake-up token | the ring with its transfer and DMA, and its refinement of `SpiEvents` |
| `spi_pipeline_live` | 2 frames | every frame ends, stop ends the worker |
| `spi_display` | complete: no parameters | sources, verdicts and claims over both transports; flush and close end |
| `camera` | 3 buffers, 1 reader, generations 0..2 | ownership and life cycle, stale results; requests settle, shutdown ends |
| `player` | 2 frames, 2 slots, no audio | ownership over seeks, policies, failures |
| `player_control` | 1 frame, audio, a volume | what the status says; seek and shutdown end |
| `player_order` | 3 frames, 3 slots, restricted | keeping and order under preserve |
| `player_dropped` | 2 frames | the divergence of section 6 |
| `apng` | 3 frames, 2 slots, 1 replay, no pause | pixels, order and freshness of what is shown; the final frame arrives, shutdown ends |
| `media` | 2 players and 1 APNG, or 1 APNG with a widget and a slave | gate, audio owner, images under draw tasks; workers finish, replacements and clean-ups happen |
| `cache` | 2 sources, 2 readers, 3 sessions, 2 entries | sharing, eviction, drops, budget; the refinement of `PictureStore` |
| `platform` | 2 callbacks, 1 token | all or nothing, stopping the touch device, containing a fault; calls return |

Why the bounds are enough.

- *SPI*: the ring holds two frames, so the third is the one that has to wait or
  displaces; names are reused once nothing holds them, so runs of any length are
  covered.  Frames are interchangeable (symmetry).  `MaxWake = 1`: a further
  token only makes the worker look again, and it may look at any time anyway,
  since the semaphore wait times out.  The pipeline run fixes `transform = TRUE`;
  without a callback a conversion has fewer outcomes, not other ones.
- *Camera*: the service opens three buffers (line 102 of the worker); one to show,
  one to fill and one to publish.  A reader that opens twice is like two readers
  for every property, so one suffices for `image`; generations are compared for
  equality only, and wrap around after 2^32 configurations.  A service without
  barcodes behaves as one that is never asked for them.
- *Player*: two slots are enough for a queued and a new frame, and for a shown
  and a retired one; a deferred frame behind a queued one with a newer coming
  needs three.  Three frames with every operation are out of reach, hence
  `player_order` restricts the behaviours: no seek, close, pause or fault, no
  reader but the owner.  The preserve policy may only be switched on in it:
  section 6 shows what goes wrong otherwise.  The control run needs one
  frame, because its properties speak of the status and not of two frames, and one
  volume beside the initial one, because a session that was reopened is back there.
- *APNG*: two slots are the least the code allows, and two images exhaust them;
  three frames make one that is skipped, one before and one after; a replay can
  come at any of them.  Sequence numbers only compare, so more replays repeat
  what one does; the number of plays only moves the end.  Left out are pauses
  (they only make a tick wait, which it may anyway, and a paused animation does
  not end) and readers of the second slot's images, which the code
  treats as the first's.
- *Media*: two players contend for the audio device, the APNG for the gate with
  either.  The widget uses the APNG while no player runs: a player matters to it
  only through the gate, and a worker kept out of the gate is one that is slow.
  Two images are the one shown and the next.  What limits the run is liveness;
  its invariants also hold with two slaves (221 034 states) and with two widgets
  on one APNG (1 662 940 states).
- *Cache*: two entries make one to evict and one to keep; three sessions make one
  that is open but no longer cached; one change per source tells fresh from stale.
- *Platform*: one callback may be entering while another leaves; a token more
  than the worker needs makes it read once more.  Providers are either both there
  or both absent, a board that polls draws directly, and the decoder has one
  entry: combinations that only multiply independent parts are left out.

Deadlock is checked in all runs but the SPI's, where a faulted transfer, a closed
pipeline or a freed display stops for good.

### Fairness

Safety needs none.  For liveness, `WorkerFairness` (weak) says that the
scheduler runs the worker and the driver's calls return: they all have time-outs
in the SDK, and the code sleeps 5 ms at most between rounds.  In the SPI pipeline
the transfer's calls are weakly fair as well, since ops.wait is bounded.  Nothing
is assumed of the semaphore: `EveryFrameEnds` holds even if wake-ups are lost.
A shutdown also needs what the code waits for: the application lets images and
readers go (weak, the UI thread returns from its calls), and a driver that
refuses a buffer, STREAM_OFF or the closing may refuse often but not for ever
(strong, on exactly the retried actions: the code retries without limit and has
no other way out).  A frame handed out twice quarantines the session for good;
`ShutdownEnds` of the player says so.  For the APNG's final frame the clock must
run, so that a frame which could be due is due at last, and the application must
keep polling and get memory for an image at last.

- *SPI display*: calls that have begun go on and the workers run (weak).  Events
  come at last (strong on taking one), which is what `EveryFrameEnds` proves of
  the ring, and the loops of flush and wait poll for them.  An owner whose close
  was refused calls it again (strong): the header asks for that.
- *Media*: the workers run (weak).  RT-Thread passes a mutex on to who waits for
  it, so a worker that waits at the gate gets in (strong).  A refused stream
  close is accepted at last (strong, it is retried for ever).  A player whose SDK
  session never closes would keep the audio device for good; the run's sessions
  do close.  For the widget: a tick that has begun goes on and draw tasks end
  (weak), and a timer that is not paused is called again and again, also between
  the refreshes (strong).
- *Platform*: a call of init or deinit runs on, and interrupt handlers and the
  touch worker get time (weak).

## 5. Proofs

All of these hold for every value of the constants.  Each starts from an
invariant that is inductive and that TLC checked first.  No leaf of a proof needs
more than a quarter of the time the prover allows it by default (`tlapm --stretch
0.25` proves all eight modules), so that they do not hang on a fast machine.

`SpiProofs` proves, for any set of frames, all that `spi_pipeline` checks
of the transfer, the type invariant, and that a freed transfer has no DMA running
(`FreedIsQuiet`).  Assumption: `Torn` is no frame.  The types alone are not
inductive, nor is `BufferHandover`: that a conversion goes to the idle buffer
depends on where the call came from.  `XferInv` adds

- *Ownership*: a DMA runs only on the active buffer and only while `pending`; a
  call past its guards is neither in quarantine nor after the free; with a back
  buffer the output is not the active buffer while one is pending;
- *Pixels*: which buffers hold a whole frame, and that an idle DMA with a
  pending unfaulted transfer has sent what `active` holds.

It is preserved action by action (one lemma per group of calls).  The action
properties follow from it in one step each: `PixelsStable` from the fact that only
conversions write, `ReceiptsTrue` from *Pixels*, `QuarantineIsFinal` from
*Ownership*.

It goes on with the pipeline, for any set of frames and any interleaving of UI
thread, worker and DMA: `RingInv`, the refinement of `SpiEvents`, and the
transfer's action properties under the worker.  `RingSafe` is inductive together
with `XferInv`: the types and, from `SpiPipeline.tla`,

- *RingOrder*: what the four indices say of the two slots' states, without which a
  worker that finds its slot empty could pass over a frame in the other one;
- *WorkerHolds*: which slots are the worker's, by its place;
- *NamesApart*, *CallsApart*: the frames held differ, and the session is called by
  one of worker and owner at a time;
- *LastRound*: after the stop is seen, the two jobs left are the last;
- *FlightHolds*, *StartHolds*, *PendingIsKnown*: which slot's frame is in the active
  buffer at each place between a start and its receipt.  This is what makes a
  completion true (`CompletedMeansSent`).

An action of the worker or UI thread is a step of `SpiEvents` or a stutter, by the
slots it changes.  A pipeline step is a step of the transfer without its rule for
naming frames (`AnyStep`), for which the transfer's lemmas are stated.

`CameraProofs` proves `CaptureInv`, for any number of buffers from two on, and
`ResultsAreCurrent`; assumptions `CountIsTwoOrMore` and `CameraBounds`.
`CameraInv` has three parts: the types; *Hands*, which says for each slot state
which of driver, session, image and reader have the buffer; and *Life*, where
worker and session can be together.  That a published image keeps its buffer needs
*Hands* for the driver's part and *Life* for the end, when the session is closed.
`ResultsInv` is about the two mailboxes and adds that nobody enables barcodes where
there are none; it is inductive with the types, since a configuration raises the
generation under the lock under which results are compared with it.

`ApngProofs` proves, for any number of slots, frames and replays, that
`PlaybackInv` is inductive and that `PictureIsStable` and `ReplayIsFresh` follow.
It assumes two slots or more and one frame or more (the named assumptions of the
modules).  Each of its parts needs the others:

- *MailboxAccounted*: every slot is in one pair of hands, with `slot` of the
  worker the one that is written.  This gives `PictureIsStable`;
- *Life*: where the worker can be in the life of an instance, and that the
  stream's replay and the status's count differ only while a replay is being
  reported.  A replay in work excludes a poll in work, so `Replay` finds no claimed
  slot that its discard would miss;
- *Work*: what is being published is pending and a composed frame, because the
  sequence test refuses a canvas on which nothing was composed yet;
- *Current*: a pending canvas, and all that waits or is claimed, is of the
  stream's present replay.  With *Life*, this gives `ReplayIsFresh`.

It also proves `NothingSkipped`, which relates the frame shown to the one before
it and to the timeline's.  Between the two lie the mailbox, a poll in work, a copy in
work and the pending canvas, and the policy may be switched at almost any of these
points.  Three more parts are inductive with `PlaybackInv`:

- *Shape*: when there is a mailbox and whether it follows the policy; the worker
  closes it in its last round only, so no publication meets a closed one;
- *Order*: the frame shown, those in hand, the last one published and the canvas are
  in this order, at most one frame waits, and under the policy none waits while
  another is polled or copied;
- *Keep*: under the policy every frame in hand or being copied follows the one shown;
  the canvas, if it is pending, follows the one shown or the one in hand, and if it is
  not, is one of these itself; and a tick that read the policy's flag finds nothing
  pending.  A round whose snapshot of the flag is stale has `mark = canvas`: what it
  composes next is the first frame the policy covers.

`PlayerProofs` proves, for any frames, leases, volumes and extra frames, with and
without audio, that the playback is safe (`FramesAreSafe`), that its status is true
(`StatusIsTrue`), that what is queued is kept (`QueuedIsKept`) and that a fault
stays visible (`FaultStaysVisible`); assumptions `LeasesArePositive`,
`NoFrameIsNone`, `PlaybackConstants`.  `PlayerSafe` has three parts:

- *FramesCohere*: a slot's state says who holds it and whether it has a lease, a
  pin and an image (*SlotsCohere*, *PinsCohere*, *NoPinLost*), each lease of the
  session is in one slot or with the worker (*LeasesCohere*), and what the worker
  holds between two sections (*WorkerHolds*).  That a shown frame is not freed
  follows from its pin;
- *StatusReasons*: where the worker is in the life of an instance, what its
  snapshot still tells, how a seek and a volume reach the session
  (*StatusCoheres* with what `StatusIsTrue` says of seek, volume and end);
- *FinishedIsQuiet*: nothing is left when the worker has gone, so that a new
  instance starts from what a fresh one expects.

The rest is about the preserve policy and has a hypothesis, `[][PolicyKept]_vars`:
within an instance the policy is switched on and not off again.  Section 6 says
what happens without it.  With it, `OneDeferred`,
`ShownInOrder` and `PreservedIsKept` hold of all behaviours, seeks, faults, closing
and readers included, which `player_order` leaves out.  `OrderCoheres` is inductive
then: which slots can wait together, and that none of them has an older lease than
one queued before it.

`PlatformProofs` proves `TouchSafe` for `PlatformSpec`, with any finite set of
callbacks; assumption `TouchConstants`.  A lemma reduces every step of the
platform to one of the touch device or a stutter of it.  `TouchInv` is *Types*,
*Counts* (the number of callbacks inside is `inflight`, and `irq` bounds those to
come), *Context* (who is active, installed and owns the driver's callback),
*Thread* (where the worker may be) and *Stages* (what init and cleanup have reached
and, with it, what exists).  That nothing is freed under a callback needs *Counts*
in the stage after `Quiesce`; that nothing is freed under the worker, *Thread* in the
stage after `Join`.  The counting uses the library's facts on finite sets.

It also proves `PlatformInv` and `FaultIsContained`; assumption
`PlatformConstants`.  `PlatformInd` says what is left of a call's plan (*Planned*: a
suffix of the order of init, rollback or deinit) and, by its head, which parts
there are (*Parts*, *TouchTurn*, *DecoderTurn*, *Faults*, *Planes*).  All or nothing
is what this says at the ends.  The touch device and the decoder come in by one
lemma each on what their steps leave alone.

`CacheProofs` proves `CacheInv`, which is inductive by itself, and that the cache
implements `PictureStore`; assumptions `CacheConstants` (finitely many sessions and
readers, positive costs, a budget of 0 among those asked for) and `FreeIsNone`.

- The bytes of the cache are a sum over its entries.  No induction theorem can be
  used for it; instead, the first lemmas take the smallest finite set for which a
  fact on sums would be wrong (`SmallestSubset`, from the well-foundedness of the
  subset order) and contradict it.  The result is `SumAdds` and `SumSplits`;
- `ListKept` and `ListNewest`: removing entries and making one the newest keep the
  list an order, `CostRemoved` and `CostAdded` the bytes, `ReaderCame` and
  `ReaderWent` the counts;
- the operations are evictions, drops, a hit, a decoded picture and two kinds of
  closing, with one lemma each on how `CacheInv` is kept;
- the refinement needs `PicturesFit` besides: a copy on the heap is only made for a
  request that needs one, so a hit on an entry of other arguments still serves.

`MediaProofs` proves `RuntimeInv` for any number of players and APNGs; assumption
`RuntimeConstants`.  `MediaInv` adds *Sessions*: a player that claims the audio
device has an audible session, one that plays sound owns the device, and one that
gives it up has closed its session.  That the last user deletes the gate and no earlier one does follows from
`users` being the number of instances, again by the finite-set facts.

It also proves, for any number of widgets, slaves, playbacks and images, that
`WidgetInv` holds and that the widgets implement the runtime (`WidgetSpec => Spec`),
so that `RuntimeInv` holds under them; assumptions `RuntimeConstants` and
`WidgetConstants`.  `WidgetInd` is the types and four parts, of which the last three
are stronger forms of `WidgetInv`'s own:

- *Ticks*: what the calls of a tick have established for the next one when the
  worker comes in between: nothing is drawn, the widget lives, and whether it has a
  playback yet.  Without it a step in the middle of a tick could do anything;
- *Bindings*: for each widget, the playback is its own, closing when it has to go,
  and told what the application said unless the tick is just about to tell it;
- *Images*: what is held is of a playback that some widget has and whose worker was
  started.  A playback that is prepared or destroyed has therefore no image;
- *Masters*: the master of a slave lives, and a slave with work has its timer.

What the workers and the application's other instances do is one lemma: none of
it makes or destroys a playback of a widget.  Calls that leave a widget its
playback, and steps of the tick, have one lemma each on what they must respect.

`DisplayProofs` proves `SpiDisplayInv` and `BlitIsExclusive`.  The model has no
parameters, so the run is exhaustive already; what the proof adds is the reason.
`DisplayInd` says what holds inside a call, where the books disagree for a while:

- *JobIsHanded*: the worker has the one job exactly where it works on it, and one
  more look after the stop leaves no queued job behind;
- *Books*: a job for each frame of the ring, at most one unreleased frame of LVGL's,
  and `pending` at least while something is out, exactly outside collect;
- *Claims*: a granted claim leaves room for one blit only, and its verdict can only
  be collected in blit_take and close;
- *Rendering*: when LVGL waits for nothing, or hands a frame over, the transport reads
  the client's pixels at most; with two buffers it never reads the active one.

What the ring does to what it holds is four lemmas (`RingCases`, `RingAccepts`,
`RingReleases`, `RingCompletes`), for both kinds of frame.

Only model-checked: liveness.  Fairness and ENABLED are out of reach of the prover's
backends.

## 6. Divergence found

At `port/lv_aic_player_frames.c:96`, the second locked section of submit.  The
first section counts a DEFERRED frame among those to wait for, the second does
not.  With preserve on, a frame is queued and another deferred; the policy is
switched off, the next frame passes the first section, and the policy is switched
on again while it is being pinned.  If the queued frame was taken meanwhile, the
deferred one is returned undisplayed (run `player_dropped`), though
`compat/lv_aic_player_frames.h:30` says that with the policy on an unconsumed frame
is never replaced.  Otherwise there are two deferred frames, though
`docs/player-group-stage.md:110-111` allows one in flight beyond the queued one,
and drain promotes whichever is in the lower slot, which may be the newer.

## 7. Not modelled

Section 1's components without a module, with the reasons in `PROJECT.json`:
those marked open in section 2 are planned; pixel arithmetic, parsing, register
set-up and tables have no behaviour in time and are covered by the repository's
host tests; `demos/official` is the SDK vendor's demonstration code.  Within the
modelled parts, left out are

- positions, counters, time stamps and formats of the status records, logging, and
  the statistics of the SPI display;
- the coordinates in a touch report and the controller's interrupt enable;
- pixels, rotation and the fit of a virtual resolution on the framebuffer;
- the limit of UINT_MAX users of the media runtime and a gate that cannot be
  made, both of which refuse a prepare without effect;
- open files of the decoder's fake file system, which count as open pictures when
  the decoder is shut down;
- rates, restarts, options and the event of the APNG widget.
