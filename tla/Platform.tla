------------------------------- MODULE Platform -------------------------------
(* The platform's life, port/lv_aic.c, with the framebuffer display of        *)
(* port/lv_aic_display.c, the client of the GE2D engine of                    *)
(* draw/ge2d/lv_draw_aic_ge2d.c, the touch device of TouchInput and the image *)
(* decoder of DecoderCache.  lv_aic_init makes its parts one after the other  *)
(* and unmakes them when one fails; lv_aic_deinit unmakes all, or refuses.    *)
(* Both run on the UI thread; worker and callback of the touch device run     *)
(* beside it.  A fault of the engine may leave its DMA on display memory for  *)
(* ever, so whatever it may reach must stay.                                  *)
EXTENDS TouchInput, DecoderCache, SequencesExt

CONSTANTS
  ProviderSets   \* the input providers the application may have set

ASSUME PlatformConstants == ProviderSets \subseteq SUBSET {"encoder", "mouse"}

VARIABLES
  phase,     \* "off", "init", "undo", "on" or "deinit"
  plan,      \* parts that are still to be made or unmade
  handle,    \* the static pointers of lv_aic.c that are not NULL
  made,      \* displays and input devices that exist
  provider,  \* lv_aic_encoder_provider, lv_aic_mouse_provider
  d,         \* lv_aic_display_ctx_t
  g          \* the client: open, and lv_draw_aic_ge2d_faulted()

platformVars == <<phase, plan, handle, made, provider, d, g>>
allVars == <<platformVars, touchVars, cacheVars>>

\* copies: use_rotation or use_vres; pan: two planes; waiting: LVGL has handed
\* its buffer to a flush that has not called flush_ready; present is the plane
\* the next flush shows, last the plane of the last good one, scan the plane
\* on the panel, dma what a faulted engine may still access.
NewDisplay(copies, pan) ==
  [copies |-> copies, pan |-> pan, quarantined |-> FALSE, waiting |-> FALSE, valid |-> FALSE,
   present |-> 0, last |-> 0, scan |-> 0]

PlatformInit ==
  /\ TouchInit /\ CacheInit
  /\ phase = "off" /\ plan = <<>> /\ handle = {} /\ made = {}
  /\ provider \in ProviderSets
  /\ \E copies, pan \in BOOLEAN : d = NewDisplay(copies, pan)
  /\ g = [open |-> FALSE, fault |-> FALSE, dma |-> {}]

-----------------------------------------------------------------------------
(* The order of the parts.  Slips the runs must notice precede originals.     *)

Setup == <<"display", "touch", "encoder", "mouse", "decoder", "ge">>
Rollback(part) ==
  CASE part = "display" -> <<>>
    [] part = "touch" -> <<"display">>
    [] part = "encoder" -> <<"touch", "display">>
    [] part = "mouse" -> <<"encoder", "touch", "display">>
    [] part = "decoder" -> <<"mouse", "encoder", "touch", "display">>
Teardown == <<"touch", "mouse", "encoder", "decoder", "ge", "display">>

Making(part) == phase = "init" /\ plan # <<>> /\ Head(plan) = part
Unmaking(part) == phase \in {"undo", "deinit"} /\ plan # <<>> /\ Head(plan) = part

Proceed ==
  /\ plan' = Tail(plan)
  /\ phase' = IF Tail(plan) # <<>> THEN phase ELSE IF phase = "init" THEN "on" ELSE "off"
FailAt(part) ==
  /\ plan' = Rollback(part)
  /\ phase' = IF Rollback(part) = <<>> THEN "off" ELSE "undo"

Keep(part) == handle' = handle \cup {part}
Forget(part) == handle' = handle \ {part}

BeginInit ==
  /\ phase = "off"
  /\ phase' = "init" /\ plan' = Setup /\ handle' = {}
  /\ UNCHANGED <<made, provider, d, g, touchVars, cacheVars>>

BeginDeinitAnyway ==
  /\ phase = "on" /\ phase' = "deinit" /\ plan' = Teardown
  /\ UNCHANGED <<handle, made, provider, d, g, touchVars, cacheVars>>

\* With pictures open the call is refused and leaves everything as it is.
BeginDeinit ==
  /\ phase = "on" /\ CanDeinit
  /\ phase' = "deinit" /\ plan' = Teardown
  /\ UNCHANGED <<handle, made, provider, d, g, touchVars, cacheVars>>

SetProvider(S) ==
  /\ phase = "off" /\ provider' = S
  /\ UNCHANGED <<phase, plan, handle, made, d, g, touchVars, cacheVars>>

-----------------------------------------------------------------------------
(* Display *)

DisplayMade ==
  /\ Making("display") /\ ~g.fault
  /\ d' = NewDisplay(d.copies, d.pan)
  /\ made' = made \cup {"display"} /\ Keep("display") /\ Proceed
  /\ UNCHANGED <<provider, g, touchVars, cacheVars>>

\* A faulted engine, the framebuffer or memory; what was taken is given back.
DisplayFails ==
  /\ Making("display") /\ FailAt("display")
  /\ UNCHANGED <<handle, made, provider, d, g, touchVars, cacheVars>>

RetainedLocally == d.quarantined
Retained == g.fault \/ d.quarantined

\* lv_aic_display_deinit keeps display, buffers and framebuffer after a fault.
DisplayUnmade ==
  /\ Unmaking("display")
  /\ IF Retained
       THEN d' = [d EXCEPT !.quarantined = TRUE, !.valid = FALSE] /\ UNCHANGED made
       ELSE made' = made \ {"display"} /\ UNCHANGED d
  /\ Forget("display") /\ Proceed
  /\ UNCHANGED <<provider, g, touchVars, cacheVars>>

\* lv_aic_present, the flip and flush_ready: pan, power or vsync may fail.
Present(panned, good) ==
  /\ good => panned
  /\ d' = [d EXCEPT !.valid = good, !.last = IF good THEN d.present ELSE @,
                    !.scan = IF panned /\ d.pan THEN d.present ELSE @,
                    !.present = IF d.pan THEN 1 - @ ELSE @]

\* lv_draw_aic_ge2d_display_rotate and _scale decline (0), copy (1) or fault (-1).
EngineOutcomes == IF g.fault THEN {-1} ELSE IF g.open THEN {-1, 0, 1} ELSE {0}

\* The last flush of a frame.  Without a copy LVGL has drawn into plane present.
Flush ==
  /\ "display" \in made /\ phase = "on" /\ ~d.waiting /\ ~d.quarantined
  /\ \E outcome \in IF d.copies THEN EngineOutcomes ELSE {1} :
       IF outcome = -1
         THEN /\ d' = [d EXCEPT !.quarantined = TRUE, !.valid = FALSE, !.waiting = TRUE]
              /\ g' = [g EXCEPT !.fault = TRUE,
                         !.dma = IF g.fault THEN @ ELSE {"source", "plane"}]
         ELSE /\ \E panned, good \in BOOLEAN : Present(panned, good)
              /\ UNCHANGED g
  /\ UNCHANGED <<phase, plan, handle, made, provider, touchVars, cacheVars>>

\* A display that was retained still refreshes; its first flush never ends.
FlushQuarantined ==
  /\ "display" \in made /\ phase \in {"on", "off"} /\ ~d.waiting /\ d.quarantined
  /\ d' = [d EXCEPT !.waiting = TRUE]
  /\ UNCHANGED <<phase, plan, handle, made, provider, g, touchVars, cacheVars>>

-----------------------------------------------------------------------------
(* Input devices, decoder, engine *)

\* lv_aic_indev_init runs its steps; the platform goes on when it returns.
TouchRuns ==
  /\ \/ Making("touch") /\ (Prepare \/ \E got \in Partial : PrepareFails(got))
     \/ Unmaking("touch") /\ "touch" \in handle /\ BeginStop
     \/ TouchSteps
  /\ UNCHANGED <<platformVars, cacheVars>>

Return == at' = "idle" /\ UNCHANGED <<mode, t, active, rx, irq, exit, cb, worker>>
TouchReturns ==
  /\ \/ Making("touch") /\ at = "up" /\ Return /\ Keep("touch") /\ Proceed
     \/ Making("touch") /\ at = "gone" /\ Return /\ FailAt("touch") /\ UNCHANGED handle
     \/ Unmaking("touch") /\ at = "gone" /\ Return /\ Forget("touch") /\ Proceed
  /\ UNCHANGED <<made, provider, d, g, cacheVars>>

\* lv_aic_input_init for a part with a provider; the others are passed over.
InputMade(part) ==
  /\ Making(part)
  /\ IF part \in provider THEN made' = made \cup {part} /\ Keep(part) ELSE UNCHANGED <<made, handle>>
  /\ Proceed
  /\ UNCHANGED <<provider, d, g, touchVars, cacheVars>>
InputFails(part) ==
  /\ Making(part) /\ part \in provider
  /\ FailAt(part)
  /\ UNCHANGED <<handle, made, provider, d, g, touchVars, cacheVars>>
InputUnmade(part) ==
  /\ Unmaking(part)
  /\ IF part \in handle THEN made' = made \ {part} ELSE UNCHANGED made
  /\ Forget(part) /\ Proceed
  /\ UNCHANGED <<provider, d, g, touchVars, cacheVars>>

DecoderMade ==
  /\ Making("decoder") /\ DecoderInit
  /\ Keep("decoder") /\ Proceed
  /\ UNCHANGED <<made, provider, d, g, touchVars>>
DecoderFails ==
  /\ Making("decoder") /\ FailAt("decoder")
  /\ UNCHANGED <<handle, made, provider, d, g, touchVars, cacheVars>>
\* lv_aic_mpp_decoder_deinit checks again, and lv_aic.c does not ask.
DecoderUnmade ==
  /\ Unmaking("decoder")
  /\ IF CanDeinit THEN DecoderDeinit ELSE UNCHANGED cacheVars
  /\ Forget("decoder") /\ Proceed
  /\ UNCHANGED <<made, provider, d, g, touchVars>>

\* lv_draw_aic_ge2d_init cannot fail: without a client it draws nothing.
EngineMade ==
  /\ Making("ge")
  /\ \E ok \in BOOLEAN : g' = IF g.fault THEN g ELSE [g EXCEPT !.open = @ \/ ok]
  /\ Proceed
  /\ UNCHANGED <<handle, made, provider, d, touchVars, cacheVars>>
EngineUnmade ==
  /\ Unmaking("ge")
  /\ g' = IF g.fault THEN g ELSE [g EXCEPT !.open = FALSE]
  /\ Proceed
  /\ UNCHANGED <<handle, made, provider, d, touchVars, cacheVars>>

\* A draw task of this display fails in the engine, which may keep its target.
DrawFaults ==
  /\ phase = "on" /\ g.open /\ ~g.fault /\ ~d.waiting
  /\ g' = [g EXCEPT !.fault = TRUE, !.dma = {"source"}]
  /\ UNCHANGED <<phase, plan, handle, made, provider, d, touchVars, cacheVars>>

PicturesUsed == phase = "on" /\ CacheOps /\ UNCHANGED <<platformVars, touchVars>>
TouchBackground == Background /\ UNCHANGED <<platformVars, cacheVars>>

-----------------------------------------------------------------------------

PlatformCalls ==
  \/ DisplayMade \/ DisplayFails \/ DisplayUnmade
  \/ TouchRuns \/ TouchReturns
  \/ \E part \in {"encoder", "mouse"} : InputMade(part) \/ InputFails(part) \/ InputUnmade(part)
  \/ DecoderMade \/ DecoderFails \/ DecoderUnmade
  \/ EngineMade \/ EngineUnmade

PlatformNext ==
  \/ BeginInit \/ BeginDeinit \/ \E S \in ProviderSets : SetProvider(S)
  \/ PlatformCalls \/ Flush \/ FlushQuarantined \/ DrawFaults
  \/ PicturesUsed \/ TouchBackground

\* A call that has begun runs on; interrupt handlers and the worker get time.
PlatformFairness ==
  /\ WF_allVars(PlatformCalls)
  /\ WF_allVars(CallbackRuns /\ UNCHANGED <<platformVars, cacheVars>>)
  /\ WF_allVars(WorkerRuns /\ UNCHANGED <<platformVars, cacheVars>>)
PlatformSpec == PlatformInit /\ [][PlatformNext]_allVars /\ PlatformFairness

-----------------------------------------------------------------------------
(* Properties *)

PlatformTypeOK ==
  /\ phase \in {"off", "init", "undo", "on", "deinit"} /\ plan \in Seq(ToSet(Setup))
  /\ handle \subseteq ToSet(Setup) /\ made \subseteq {"display", "encoder", "mouse"}
  /\ provider \in ProviderSets
  /\ d \in [copies : BOOLEAN, pan : BOOLEAN, quarantined : BOOLEAN, waiting : BOOLEAN,
            valid : BOOLEAN, present : 0..1, last : 0..1, scan : 0..1]
  /\ g \in [open : BOOLEAN, fault : BOOLEAN, dma : SUBSET {"source", "plane"}]

TouchExists == t # NoTouch

\* Initialisation makes everything or leaves nothing, and so does shutdown: the
\* pointers name what exists, and only a fault keeps more in existence.
AllOrNothing ==
  /\ phase = "on" =>
       /\ handle = {"display", "touch", "decoder"} \cup provider
       /\ made = {"display"} \cup provider /\ TouchExists /\ registered
  /\ phase = "off" =>
       /\ handle = {} /\ ~TouchExists /\ ~registered
       /\ made = IF d.quarantined THEN {"display"} ELSE {}
       /\ g.open => g.fault

\* Whatever draws or reads for a display ends before the display does.
UsersGoFirst ==
  "display" \notin made => ~TouchExists /\ ~registered /\ ~g.open /\ made = {}

\* A snapshot is taken from the plane on the panel, and the next frame is
\* copied or drawn into the other one where there are two.
PlanesApart == d.valid => d.last = d.scan /\ (d.pan => d.present # d.scan)

\* What holds between and inside the calls of lv_aic_init and lv_aic_deinit.
PlatformInv == PlatformTypeOK /\ AllOrNothing /\ UsersGoFirst /\ PlanesApart

\* What a faulted engine may still access: the client, the display with its
\* buffers and the framebuffer, and the buffer a flush was copying.
Contained ==
  /\ g.dma # {} => g.fault /\ g.open /\ "display" \in made
  /\ "plane" \in g.dma => d.waiting /\ d.quarantined /\ ~d.valid

\* All that stays until a reboot, through shutdown and new attempts to start;
\* the buffer is not handed back to LVGL, and no later frame is copied by
\* software over the plane the engine may be writing.
FaultIsContained ==
  [][/\ Contained'
     /\ g.fault => g'.fault /\ (d.copies => d'.scan = d.scan /\ d'.last = d.last)]_allVars

\* Every call of lv_aic_init and lv_aic_deinit returns.
CallsReturn == phase \in {"init", "undo", "deinit"} ~> phase \in {"on", "off"}
=============================================================================
