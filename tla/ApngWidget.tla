------------------------------ MODULE ApngWidget ------------------------------
(***************************************************************************)
(* The APNG widget and its slaves (widgets/lv_aic_apng_widget.c) over the  *)
(* playbacks of MediaRuntime.  A widget replaces its playback in its timer *)
(* callback and only there, since a playback ends when its worker and the  *)
(* images it gave out are gone; slaves show what their master shows.  All  *)
(* of it runs in the UI thread, with two kinds of things beside it: the    *)
(* playbacks' workers and the draw tasks of a refresh.                     *)
(*                                                                         *)
(* The binding of a deleted object lives on, an orphan, until its timer    *)
(* has freed it.  A frame is one of the images of a playback; it is        *)
(* destroyed when its last holder lets it go (frame_t.owners).  Rates are  *)
(* treated as pauses are and left out, so are the options.                 *)
(***************************************************************************)
EXTENDS MediaRuntime

CONSTANTS
  Widget, Slave,
  Snapshot       \* images a playback may have out

ASSUME WidgetConstants ==
  (Widget \cup Slave) \cap {Nobody} = {} /\ Widget \cap Slave = {}

VARIABLES
  b,         \* binding_t of each widget
  s,         \* slave_binding_t of each slave
  frame,     \* the frame each of both holds, or Nobody
  asked,     \* of a playback: what it was asked for
  tick,      \* how far which widget's tick is
  drawing    \* the frames draw tasks refer to

Holder == Widget \cup Slave
Frames == Apng \X Snapshot

widgetVars == <<b, s, frame, asked, tick, drawing>>
allVars == <<vars, widgetVars>>

NoBinding == [life |-> "none", playback |-> Nobody, closing |-> FALSE, replace |-> FALSE,
              start |-> FALSE, paused |-> FALSE, sourced |-> FALSE, fault |-> FALSE, timer |-> FALSE]
NoSlave == [life |-> "none", master |-> Nobody, timer |-> FALSE]
NotAsked == [start |-> FALSE, paused |-> FALSE]
NoTick == [of |-> Nobody, step |-> "idle"]

WidgetInit ==
  /\ Init
  /\ b = [w \in Widget |-> NoBinding] /\ s = [x \in Slave |-> NoSlave]
  /\ frame = [h \in Holder |-> Nobody] /\ asked = [c \in Apng |-> NotAsked]
  /\ tick = NoTick /\ drawing = {}

Idle == tick = NoTick /\ UiFree
Step(w, step) == tick = [of |-> w, step |-> step]
TickGoes(w, step) == tick' = [of |-> w, step |-> step]

Live(h) == IF h \in Widget THEN b[h].life = "live" ELSE s[h].life = "live"
Slaves(w) == {x \in Slave : s[x].master = w}
Held == {frame[h] : h \in Holder} \ {Nobody}

\* Bound(w, f): the binding becomes f, the rest of the widgets stays.
Bound(w, binding) == b' = [b EXCEPT ![w] = binding]

\* lv_aic_apng_playback_close, of no playback too
ClosePlayback(c) ==
  /\ closing' = IF c = Nobody THEN closing ELSE [closing EXCEPT ![c] = TRUE]
  /\ UNCHANGED <<runtimeVars, inside, at, owns, session>>

-----------------------------------------------------------------------------
(* The widget's functions *)

\* lv_aic_apng_create
CreateWidget(w) ==
  /\ Idle /\ b[w].life = "none"
  /\ Bound(w, [NoBinding EXCEPT !.life = "live"])
  /\ UNCHANGED <<vars, s, frame, asked, tick, drawing>>

\* lv_aic_apng_set_src
SetSrc(w) ==
  /\ Idle /\ b[w].life = "live"
  /\ Bound(w, [b[w] EXCEPT !.sourced = TRUE, !.replace = TRUE, !.start = FALSE, !.paused = FALSE,
                           !.closing = TRUE, !.fault = FALSE, !.timer = TRUE])
  /\ ClosePlayback(b[w].playback)
  /\ UNCHANGED <<s, frame, asked, tick, drawing>>

Refuses(c) == closing[c]
Absent(w) == b[w].playback = Nobody \/ b[w].closing

\* lv_aic_apng_start, of a playback to come or of the present one
StartLater(w) ==
  /\ Idle /\ b[w].life = "live" /\ b[w].sourced /\ ~b[w].fault /\ Absent(w)
  /\ Bound(w, [b[w] EXCEPT !.replace = TRUE, !.start = TRUE, !.timer = TRUE])
  /\ UNCHANGED <<vars, s, frame, asked, tick, drawing>>

StartNow(w) ==
  /\ Idle /\ b[w].life = "live" /\ b[w].sourced /\ ~b[w].fault /\ ~Absent(w)
  /\ ~Refuses(b[w].playback)
  /\ Bound(w, [b[w] EXCEPT !.start = TRUE])
  /\ asked' = [asked EXCEPT ![b[w].playback].start = TRUE]
  /\ UNCHANGED <<vars, s, frame, tick, drawing>>

\* lv_aic_apng_pause
PauseWidget(w, on) ==
  /\ Idle /\ b[w].life = "live" /\ ~b[w].fault
  /\ b[w].playback # Nobody \/ b[w].replace
  /\ ~Absent(w) => ~Refuses(b[w].playback)
  /\ Bound(w, [b[w] EXCEPT !.paused = on])
  /\ asked' = IF Absent(w) THEN asked ELSE [asked EXCEPT ![b[w].playback].paused = on]
  /\ UNCHANGED <<vars, s, frame, tick, drawing>>

\* lv_aic_apng_close
CloseWidget(w) ==
  /\ Idle /\ b[w].life = "live"
  /\ Bound(w, [b[w] EXCEPT !.replace = FALSE, !.start = FALSE, !.closing = TRUE,
                           !.fault = FALSE, !.timer = TRUE])
  /\ ClosePlayback(b[w].playback)
  /\ UNCHANGED <<s, frame, asked, tick, drawing>>

\* destructor: the slaves lose their master before it is gone.
DeleteWidget(w) ==
  /\ Idle /\ b[w].life = "live"
  /\ Bound(w, [b[w] EXCEPT !.life = "orphan", !.timer = TRUE])
  /\ s' = [x \in Slave |-> IF s[x].master = w
                             THEN [s[x] EXCEPT !.master = Nobody, !.timer = TRUE] ELSE s[x]]
  /\ ClosePlayback(b[w].playback)
  /\ UNCHANGED <<frame, asked, tick, drawing>>

-----------------------------------------------------------------------------
(* Slaves *)

\* lv_aic_apng_slave_create, lv_aic_apng_slave_set_master, slave_destructor
CreateSlave(x) ==
  /\ Idle /\ s[x].life = "none"
  /\ s' = [s EXCEPT ![x].life = "live"]
  /\ UNCHANGED <<vars, b, frame, asked, tick, drawing>>

SetMaster(x, w) ==
  /\ Idle /\ s[x].life = "live" /\ (w # Nobody => Live(w))
  /\ s' = [s EXCEPT ![x].master = w, ![x].timer = TRUE]
  /\ UNCHANGED <<vars, b, frame, asked, tick, drawing>>

DeleteSlave(x) ==
  /\ Idle /\ s[x].life = "live"
  /\ s' = [s EXCEPT ![x] = [life |-> "orphan", master |-> Nobody, timer |-> TRUE]]
  /\ UNCHANGED <<vars, b, frame, asked, tick, drawing>>

\* slave_tick; draws_idle
MayTickAnyway(x) == s[x].timer
MayTick(x) == s[x].timer /\ drawing = {}
SlaveTick(x) ==
  /\ Idle /\ MayTick(x)
  /\ frame' = [frame EXCEPT ![x] = IF s[x].master = Nobody THEN Nobody ELSE frame[s[x].master]]
  /\ s' = [s EXCEPT ![x] = IF s[x].life = "orphan" THEN NoSlave
                           ELSE [s[x] EXCEPT !.timer = (s[x].master # Nobody)]]
  /\ UNCHANGED <<vars, b, asked, tick, drawing>>

-----------------------------------------------------------------------------
(* tick: its calls of the playback in turn, with the workers in between *)

\* retire and publish_slaves: a widget and its slaves change their frame.
Shows(w, f) == frame' = [h \in Holder |-> IF h = w \/ h \in Slaves(w) THEN f ELSE frame[h]]

\* lv_aic_apng_playback_destroy, after the images
Gone(c) == c # Nobody => at[c] = "finished" /\ \A i \in Snapshot : <<c, i>> \notin Held'

EndsIfClosing(w) == b[w].closing
Ends(w) == b[w].life = "orphan" \/ b[w].closing

\* The playback is to go, but cannot yet.
TickWaits(w) ==
  /\ Idle /\ b[w].timer /\ drawing = {} /\ Ends(w)
  /\ Shows(w, Nobody) /\ ~Gone(b[w].playback)
  /\ UNCHANGED <<vars, b, s, asked, tick, drawing>>

\* What becomes of the binding when its playback is gone
Renewed(binding) ==
  IF binding.life = "orphan" THEN NoBinding
  ELSE [binding EXCEPT !.playback = Nobody, !.closing = FALSE, !.fault = FALSE,
                       !.timer = binding.replace]

TickDestroys(w) ==
  /\ Idle /\ b[w].timer /\ drawing = {} /\ Ends(w)
  /\ Shows(w, Nobody) /\ Gone(b[w].playback)
  /\ Bound(w, Renewed(b[w]))
  /\ IF b[w].playback = Nobody THEN UNCHANGED <<vars, asked>>
     ELSE /\ Destroy(b[w].playback)
          /\ asked' = [asked EXCEPT ![b[w].playback] = NotAsked]
  /\ IF b[w].life = "orphan" \/ ~b[w].replace THEN tick' = NoTick ELSE TickGoes(w, "prepare")
  /\ UNCHANGED <<s, drawing>>

TickBegins(w) ==
  /\ Idle /\ b[w].timer /\ drawing = {} /\ ~Ends(w)
  /\ TickGoes(w, IF b[w].replace /\ b[w].playback = Nobody THEN "prepare" ELSE "poll")
  /\ UNCHANGED <<vars, b, s, frame, asked, drawing>>

TickPrepares(w, c) ==
  /\ Step(w, "prepare") /\ Prepare(c)
  /\ Bound(w, [b[w] EXCEPT !.replace = FALSE, !.playback = c])
  /\ TickGoes(w, "spawn")
  /\ UNCHANGED <<s, frame, asked, drawing>>

TickSpawns(w) ==
  /\ Step(w, "spawn") /\ SpawnWorker(b[w].playback)
  /\ TickGoes(w, "ask")
  /\ UNCHANGED <<b, s, frame, asked, drawing>>

\* No playback: none is left, or something of it or its worker cannot be made.
Unprepared(binding) ==
  [binding EXCEPT !.replace = FALSE, !.playback = Nobody, !.fault = TRUE, !.timer = FALSE]
TickUnprepared(w) ==
  /\ \/ Step(w, "prepare") /\ UNCHANGED vars
     \/ Step(w, "spawn") /\ SpawnFails(b[w].playback)
  /\ Bound(w, Unprepared(b[w])) /\ tick' = NoTick
  /\ UNCHANGED <<s, frame, asked, drawing>>

\* What was asked for meanwhile, unless the worker has met a fault already
TickAsks(w) ==
  /\ Step(w, "ask")
  /\ LET c == b[w].playback IN
       IF Refuses(c)
         THEN /\ ClosePlayback(c) /\ UNCHANGED asked
              /\ Bound(w, [b[w] EXCEPT !.fault = TRUE]) /\ tick' = NoTick
         ELSE /\ asked' = [asked EXCEPT ![c] = [start |-> b[w].start, paused |-> b[w].paused]]
              /\ TickGoes(w, "poll") /\ UNCHANGED <<vars, b>>
  /\ UNCHANGED <<s, frame, drawing>>

\* A fault shows, a frame is taken, or nothing; the object's event comes last.
\* There may be a frame once the stream is loaded; when, module ApngPlayback says.
Polls(w) == b[w].playback # Nobody /\ ~b[w].fault
TickSeesFault(w) ==
  /\ Step(w, "poll") /\ Polls(w) /\ closing[b[w].playback]
  /\ Bound(w, [b[w] EXCEPT !.fault = TRUE]) /\ Shows(w, Nobody) /\ tick' = NoTick
  /\ UNCHANGED <<vars, s, asked, drawing>>

TickTakes(w, i) ==
  /\ Step(w, "poll") /\ Polls(w) /\ ~closing[b[w].playback]
  /\ at[b[w].playback] \in {"top", "tick", "ticking"} /\ <<b[w].playback, i>> \notin Held
  /\ Shows(w, <<b[w].playback, i>>) /\ tick' = NoTick
  /\ UNCHANGED <<vars, b, s, asked, drawing>>

TickTakesNothing(w) ==
  /\ Step(w, "poll") /\ tick' = NoTick
  /\ Polls(w) => ~closing[b[w].playback]
  /\ UNCHANGED <<vars, b, s, frame, asked, drawing>>

TickStarts(w) == TickWaits(w) \/ TickDestroys(w) \/ TickBegins(w)
TickRest(w) ==
  \/ \E c \in Apng : TickPrepares(w, c)
  \/ TickSpawns(w) \/ TickUnprepared(w) \/ TickAsks(w)
  \/ TickSeesFault(w) \/ (\E i \in Snapshot : TickTakes(w, i)) \/ TickTakesNothing(w)

-----------------------------------------------------------------------------
(* LVGL's refresh: tasks for what the objects show, which end by themselves *)

Render ==
  /\ Idle /\ drawing = {}
  /\ drawing' = {frame[h] : h \in {x \in Holder : Live(x)}} \ {Nobody}
  /\ UNCHANGED <<vars, b, s, frame, asked, tick>>

RenderEnds ==
  /\ drawing # {} /\ drawing' = {}
  /\ UNCHANGED <<vars, b, s, frame, asked, tick>>

\* Players, and APNGs that the application runs without a widget
Unbound == {c \in Client : \A w \in Widget : b[w].playback # c}
Direct ==
  /\ tick = NoTick /\ UNCHANGED widgetVars
  /\ \E c \in Unbound :
       Prepare(c) \/ SpawnWorker(c) \/ SpawnFails(c) \/ Close(c) \/ Destroy(c)

Workers ==
  /\ UNCHANGED widgetVars
  /\ \/ \E c \in Player : PlayerWorker(c)
     \/ \E c \in Apng : ApngWorker(c)

WidgetCalls ==
  \/ \E w \in Widget :
       \/ CreateWidget(w) \/ SetSrc(w) \/ StartLater(w) \/ StartNow(w)
       \/ (\E on \in BOOLEAN : PauseWidget(w, on)) \/ CloseWidget(w) \/ DeleteWidget(w)
  \/ \E x \in Slave :
       \/ CreateSlave(x) \/ DeleteSlave(x)
       \/ \E w \in Widget \cup {Nobody} : SetMaster(x, w)

WidgetNext ==
  \/ WidgetCalls \/ Direct \/ Workers \/ Render \/ RenderEnds
  \/ \E w \in Widget : TickStarts(w) \/ TickRest(w)
  \/ \E x \in Slave : SlaveTick(x)

WidgetSpec == WidgetInit /\ [][WidgetNext]_allVars

\* As MediaRuntime, and: a tick that has begun goes on, draw tasks end, and
\* timers that run are called again and again between the refreshes.
WidgetFairness ==
  /\ \A c \in Player :
       /\ WF_allVars(PlayerWorker(c) /\ UNCHANGED widgetVars)
       /\ SF_allVars(PlayerEnters(c) /\ UNCHANGED widgetVars)
  /\ \A c \in Apng :
       /\ WF_allVars(ApngWorker(c) /\ UNCHANGED widgetVars)
       /\ SF_allVars(ApngEnters(c) /\ UNCHANGED widgetVars)
       /\ SF_allVars(Shut(c, TRUE) /\ UNCHANGED widgetVars)
  /\ \A w \in Widget : WF_allVars(TickRest(w)) /\ SF_allVars(TickStarts(w))
  /\ \A x \in Slave : SF_allVars(SlaveTick(x))
  /\ WF_allVars(RenderEnds)

-----------------------------------------------------------------------------
(* Properties *)

WidgetBinding ==
  [life : {"none", "live", "orphan"}, playback : Apng \cup {Nobody}, closing : BOOLEAN,
   replace : BOOLEAN, start : BOOLEAN, paused : BOOLEAN, sourced : BOOLEAN, fault : BOOLEAN,
   timer : BOOLEAN]
SlaveBinding ==
  [life : {"none", "live", "orphan"}, master : Widget \cup {Nobody}, timer : BOOLEAN]
Asked == [start : BOOLEAN, paused : BOOLEAN]

WidgetTypeOK ==
  /\ b \in [Widget -> WidgetBinding] /\ s \in [Slave -> SlaveBinding]
  /\ frame \in [Holder -> Frames \cup {Nobody}] /\ drawing \subseteq Frames
  /\ asked \in [Apng -> Asked]

\* A draw task never refers to an image that nobody holds any more, and a frame
\* that is held is one of a playback that is still there.
FramesLive ==
  /\ drawing \subseteq Held
  /\ \A f \in Held : at[f[1]] # "none"

\* No work waits for a timer that is paused: a widget that has to close, to
\* replace or to free itself, a slave that shows what it should not.
NoTickIsLost ==
  /\ \A w \in Widget : Ends(w) \/ b[w].replace \/ (b[w].playback # Nobody) => b[w].timer
  /\ \A x \in Slave :
       LET m == s[x].master IN
       /\ m # Nobody => Live(m) /\ s[x].timer
       /\ frame[x] # Nobody \/ s[x].life = "orphan" => s[x].timer

\* A playback of a widget is its own, and was asked for what the application
\* said last, whenever it said so: before, while or after it was replaced.
AskedAsToldTo ==
  \A w \in Widget :
    LET c == b[w].playback IN
    c # Nobody =>
      /\ at[c] # "none" /\ \A v \in Widget : b[v].playback = c => v = w
      /\ ~closing[c] /\ tick.of # w =>
           asked[c].start = b[w].start /\ asked[c].paused = b[w].paused

WidgetInv == WidgetTypeOK /\ FramesLive /\ NoTickIsLost /\ AskedAsToldTo

\* A deleted object's binding is freed at last, with its playback and images.
OrphansGo ==
  /\ \A w \in Widget : b[w].life = "orphan" ~> b[w].life = "none"
  /\ \A x \in Slave : s[x].life = "orphan" ~> s[x].life = "none"
\* A source or a start that was asked for is tried at last.
ReplacementsHappen == \A w \in Widget : b[w].replace ~> ~b[w].replace
WidgetsSettle == OrphansGo /\ ReplacementsHappen
=============================================================================
