---------------------------- MODULE ApngPlayback ----------------------------
(***************************************************************************)
(* APNG playback (port/lv_aic_apng_playback.c): a worker thread composes   *)
(* the frames of a file along its timeline and publishes them; the UI      *)
(* thread controls it through fields under a mutex, and holds that mutex   *)
(* for the whole of a poll.  An action is one locked section (of this      *)
(* mutex or of the mailbox's) with the local steps before it: decoding,    *)
(* composing, the clock.  Time is a choice: a frame may be due at any      *)
(* tick.                                                                   *)
(***************************************************************************)
EXTENDS ApngFrames

CONSTANTS
  Length,    \* frames of the animation, all its plays together
  Replays    \* bound: accepted restarts of an instance

ASSUME PlaybackConstants == Length \in Nat \ {0} /\ Replays \in Nat

Frame == (0..Replays) \X (0..Length)

VARIABLES
  active,   \* an instance exists
  p,        \* its fields: options, requests and status
  w,        \* the worker: its place and locals; pending: the canvas waits for
            \* publication, ended: view.step.action, slot: publish's slot
  c,        \* its stream: timeline and canvas
  h         \* history: the newest frame polled (shown), and the canvas when the
            \* preserve policy was last switched on (mark)

vars == <<frameVars, active, p, w, c, h>>

States == {"OPENING", "READY", "PLAYING", "PAUSED", "TERMINAL", "CLOSING", "CLOSED", "FAULT"}

Places == {"none", "load", "nopool", "top", "close", "finish", "restart", "restarted",
           "control", "tick", "decide", "publish", "copy", "status"}
Fields == [state : States, finished : BOOLEAN, restart : BOOLEAN, restarts : 0..Replays,
           closing : BOOLEAN, start : BOOLEAN, paused : BOOLEAN, preserve : BOOLEAN]
Locals == [at : Places, start : BOOLEAN, paused : BOOLEAN, preserve : BOOLEAN,
           pending : BOOLEAN, ended : BOOLEAN, slot : 0..Snapshots]
Streams == [canvas : Frame, replay : 0..Replays, number : 0..Length, total : 1..Length,
            animated : BOOLEAN, paused : BOOLEAN, ended : BOOLEAN]

TypeOK ==
  /\ FramesTypeOK(Frame)
  /\ active \in BOOLEAN
  /\ p \in Fields /\ w \in Locals /\ c \in Streams
  /\ h \in [shown : Frame, mark : Frame]

Fresh == [state |-> "OPENING", finished |-> FALSE, restart |-> FALSE, restarts |-> 0,
          closing |-> FALSE, start |-> FALSE, paused |-> FALSE, preserve |-> FALSE]
Idle == [at |-> "none", start |-> FALSE, paused |-> FALSE, preserve |-> FALSE,
         pending |-> FALSE, ended |-> FALSE, slot |-> 0]
NoStream == [canvas |-> Nothing, replay |-> 0, number |-> 0, total |-> 1,
             animated |-> TRUE, paused |-> TRUE, ended |-> FALSE]
NoHistory == [shown |-> Nothing, mark |-> Nothing]

Init ==
  /\ FramesInit
  /\ active = FALSE /\ p = Fresh /\ w = Idle /\ c = NoStream /\ h = NoHistory

-----------------------------------------------------------------------------
(* The UI thread.  Between the sections of poll it holds the mutex.          *)

Ui == active /\ upoll = 0

\* lv_aic_apng_playback_prepare
Prepare ==
  /\ ~active /\ active' = TRUE
  /\ p' = Fresh /\ w' = [Idle EXCEPT !.at = "load"]
  /\ UNCHANGED <<frameVars, c, h>>

\* lv_aic_apng_playback_preserve
Preserve(on) ==
  /\ Ui /\ ~p.closing /\ ~p.finished
  /\ p' = [p EXCEPT !.preserve = on] /\ SetPreserve(on)
  /\ h' = IF on /\ ~p.preserve THEN [h EXCEPT !.mark = c.canvas] ELSE h
  /\ UNCHANGED <<active, w, c>>

\* lv_aic_apng_playback_start, _pause, _restart
Start ==
  /\ Ui /\ ~p.closing
  /\ p' = [p EXCEPT !.start = TRUE]
  /\ UNCHANGED <<frameVars, active, w, c, h>>

Pause(on) ==
  /\ Ui /\ ~p.closing
  /\ p' = [p EXCEPT !.paused = on]
  /\ UNCHANGED <<frameVars, active, w, c, h>>

Restart ==
  /\ Ui /\ ~p.closing /\ p.state # "OPENING" /\ ~p.restart
  /\ p.restarts < Replays
  /\ p' = [p EXCEPT !.restart = TRUE]
  /\ UNCHANGED <<frameVars, active, w, c, h>>

\* lv_aic_apng_playback_poll
Poll(i) ==
  /\ Ui /\ ~p.closing /\ ~p.restart /\ PollClaim(i)
  /\ UNCHANGED <<active, p, w, c, h>>

PollEnds(ok) ==
  /\ upoll # 0
  /\ IF ok THEN PollImage /\ h' = [h EXCEPT !.shown = pic[upoll]]
           ELSE PollFails /\ UNCHANGED h
  /\ UNCHANGED <<active, p, w, c>>

\* lv_aic_apng_playback_close
Close ==
  /\ Ui
  /\ p' = [p EXCEPT !.closing = TRUE,
             !.state = IF p.finished \/ @ = "FAULT" THEN @ ELSE "CLOSING"]
  /\ UNCHANGED <<frameVars, active, w, c, h>>

\* lv_aic_apng_playback_destroy: the fields are gone with the instance.
Destroy ==
  /\ Ui /\ p.finished /\ Free = Slot
  /\ active' = FALSE /\ p' = Fresh
  /\ pool' = NoPool /\ UNCHANGED <<st, pic, image, upoll>>
  /\ UNCHANGED <<w, c, h>>

Images(i) ==
  /\ upoll = 0
  /\ ImageOpen(i) \/ ImageClose(i) \/ ImageDestroy(i)
  /\ UNCHANGED <<active, p, w, c, h>>

-----------------------------------------------------------------------------
(* The worker *)

At(place) == w.at = place
Locks(place) == w.at = place /\ upoll = 0   \* a section under p->mutex
Goto(place) == w' = [w EXCEPT !.at = place]

\* fault(); every path to it continues with the next round.
Faulted == [p EXCEPT !.state = "FAULT", !.closing = TRUE, !.restart = FALSE]
Fault(place) ==
  /\ Locks(place)
  /\ p' = Faulted /\ Goto("top")
  /\ UNCHANGED <<frameVars, active, c, h>>

\* The file is read and the stream opened, paused and ticked for its size; then
\* the mailbox is made (ok), or not, which is a fault of its own.  A PNG that is
\* not animated has one frame.
Load(animated, ok) ==
  /\ Locks("load")
  /\ c' = [NoStream EXCEPT !.animated = animated, !.total = IF animated THEN Length ELSE 1]
  /\ IF ok THEN Make(p.preserve) ELSE UNCHANGED pool
  /\ p' = IF p.closing THEN p ELSE [p EXCEPT !.state = "READY"]
  /\ Goto(IF ok THEN "top" ELSE "nopool")
  /\ UNCHANGED <<st, pic, image, upoll, active, h>>

\* The snapshot of the requests decides the round.
Top ==
  /\ Locks("top")
  /\ w' = [w EXCEPT
       !.at = IF p.closing THEN "close" ELSE IF p.restart THEN "restart" ELSE "control",
       !.start = p.start, !.paused = p.paused, !.preserve = p.preserve]
  /\ UNCHANGED <<frameVars, active, p, c, h>>

\* Closing: the mailbox, then the stream, whose close may be refused for now.
CloseMailbox ==
  /\ At("close") /\ CloseFrames
  /\ Goto("finish")
  /\ UNCHANGED <<active, p, c, h>>

Finish ==
  /\ Locks("finish")
  /\ p' = [p EXCEPT !.restart = FALSE, !.finished = TRUE,
             !.state = IF @ = "FAULT" THEN @ ELSE "CLOSED"]
  /\ w' = Idle /\ c' = NoStream /\ h' = NoHistory
  /\ UNCHANGED <<frameVars, active>>

CloseLater ==
  /\ At("finish") /\ Goto("top")
  /\ UNCHANGED <<frameVars, active, p, c, h>>

\* lv_aic_apng_stream_restart: the timeline starts over, the canvas stays.
Rewound == [c EXCEPT !.replay = @ + 1, !.number = 0, !.ended = FALSE]

\* A replay: the stream starts over, queued frames of before are discarded, and
\* so is the canvas that waited for publication.
PendingAfterRestartKept == w.pending
PendingAfterRestart == FALSE
Replay ==
  /\ At("restart") /\ c.replay < Replays
  /\ c' = Rewound
  /\ Discard
  /\ w' = [w EXCEPT !.at = "restarted", !.pending = PendingAfterRestart, !.ended = FALSE]
  /\ UNCHANGED <<active, p, h>>

Replayed ==
  /\ Locks("restarted")
  /\ p' = [p EXCEPT !.restart = FALSE, !.restarts = @ + 1]
  /\ Goto("control")
  /\ UNCHANGED <<frameVars, active, c, h>>

\* Rate and pause are applied; then the timeline may advance, unless the canvas
\* or a frame in the mailbox must be kept.
MayAdvanceUnlessBlocked == ~(w.preserve /\ Blocked)
MayAdvance == ~(w.preserve /\ (w.pending \/ Blocked))
Control ==
  /\ At("control")
  /\ c' = [c EXCEPT !.paused = ~w.start \/ w.paused]
  /\ Goto(IF MayAdvance THEN "tick" ELSE "decide")
  /\ UNCHANGED <<frameVars, active, p, h>>

\* The next section: publish only if neither close nor a replay came in between.
AfterTick(pending) ==
  IF pending /\ ~p.closing /\ ~p.restart THEN "publish" ELSE "status"

\* lv_aic_apng_stream_tick composes the next frame, which is due, ...
NextFrame ==
  /\ Locks("tick") /\ ~c.ended /\ ~c.paused /\ c.number < c.total
  /\ c' = [c EXCEPT !.number = @ + 1, !.canvas = <<c.replay, c.number + 1>>,
             !.ended = ~c.animated]
  /\ w' = [w EXCEPT !.at = AfterTick(TRUE), !.pending = TRUE, !.ended = FALSE]
  /\ UNCHANGED <<frameVars, active, p, h>>

\* ... or finds that the last one has been shown for its time, ...
Ends ==
  /\ Locks("tick") /\ (c.ended \/ (~c.paused /\ c.number = c.total))
  /\ c' = [c EXCEPT !.ended = TRUE]
  /\ w' = [w EXCEPT !.at = AfterTick(w.pending), !.ended = TRUE]
  /\ UNCHANGED <<frameVars, active, p, h>>

\* ... or waits, for a frame to become due or in a pause.
Waits ==
  /\ Locks("tick") /\ ~c.ended /\ (c.paused \/ c.number > 0)
  /\ w' = [w EXCEPT !.at = AfterTick(w.pending), !.ended = FALSE]
  /\ UNCHANGED <<frameVars, active, p, c, h>>

\* No tick in this round: the view is that of the last one.
Holds ==
  /\ Locks("decide")
  /\ Goto(AfterTick(w.pending))
  /\ UNCHANGED <<frameVars, active, p, c, h>>

Publish(i) ==
  /\ At("publish") /\ Publishable(c.canvas) /\ PublishBegin(i)
  /\ w' = [w EXCEPT !.at = "copy", !.slot = i]
  /\ UNCHANGED <<active, p, c, h>>

\* A refused frame stays pending and is tried again.
PendingAfterRefusalLost == FALSE
PendingAfterRefusal == TRUE
PublishRefused ==
  /\ At("publish") /\ ~Publishable(c.canvas)
  /\ w' = [w EXCEPT !.at = "status", !.pending = PendingAfterRefusal]
  /\ UNCHANGED <<frameVars, active, p, c, h>>

Copied ==
  /\ At("copy") /\ PublishEnd(w.slot, c.canvas)
  /\ w' = [w EXCEPT !.at = "status", !.slot = 0, !.pending = pool.closed]
  /\ UNCHANGED <<active, p, c, h>>

Report ==
  /\ Locks("status")
  /\ p' = IF p.closing THEN p
          ELSE [p EXCEPT !.state = IF w.ended THEN "TERMINAL" ELSE IF ~w.start THEN "READY"
                                   ELSE IF w.paused THEN "PAUSED" ELSE "PLAYING"]
  /\ w' = [w EXCEPT !.at = "top", !.start = FALSE, !.paused = FALSE, !.preserve = FALSE]
  /\ UNCHANGED <<frameVars, active, c, h>>

-----------------------------------------------------------------------------
Owner ==
  \/ Prepare \/ Start \/ Restart \/ Close \/ Destroy
  \/ \E on \in BOOLEAN : Preserve(on) \/ Pause(on) \/ PollEnds(on)
  \/ \E i \in Slot : Poll(i) \/ Images(i)

Worker ==
  \/ \E animated, ok \in BOOLEAN : Load(animated, ok)
  \/ \E place \in {"load", "nopool", "restart", "control", "tick"} : Fault(place)
  \/ Top \/ CloseMailbox \/ Finish \/ CloseLater \/ Replay \/ Replayed \/ Control
  \/ NextFrame \/ Ends \/ Waits \/ Holds \/ PublishRefused \/ Copied \/ Report
  \/ \E i \in Slot : Publish(i)

Next == Owner \/ Worker

Spec == Init /\ [][Next]_vars

\* The worker runs and its calls return.  The application polls, gets an image at
\* last if it keeps polling, lets old images and their readers go and destroys
\* what is finished; a frame the timeline waits for becomes due, and a refused
\* close of the stream succeeds at last: the code has no other way on.
Fairness ==
  /\ WF_vars(Worker)
  /\ SF_vars(NextFrame) /\ SF_vars(Ends) /\ SF_vars(Finish)
  /\ WF_vars(\E i \in Slot : Poll(i)) /\ WF_vars(PollEnds(FALSE)) /\ SF_vars(PollEnds(TRUE))
  /\ WF_vars(Destroy)
  /\ \A i \in Slot : WF_vars(upoll = 0 /\ ImageClose(i) /\ UNCHANGED <<active, p, w, c, h>>)
  /\ \A i \in Slot : WF_vars(upoll = 0 /\ ImageDestroy(i) /\ UNCHANGED <<active, p, w, c, h>>)

-----------------------------------------------------------------------------
(* Properties *)

\* The slots of the mailbox are accounted for, and so is the worker's.
MailboxAccounted == SlotsAccounted /\ \A i \in Slot : st[i] = "WRITING" <=> w.slot = i

\* The life of an instance, and the place of the worker in it: the replays that
\* the status counts are those of the stream, but for the one being reported.
Life ==
  /\ p.finished => active /\ p.closing
  /\ w.at # "none" <=> active /\ ~p.finished
  /\ ~active => p = Fresh /\ Free = Slot
  /\ w.at \in {"none", "load"} => c.replay = 0
  /\ w.at = "load" => p.restarts = 0
  /\ w.at \notin {"none", "restarted"} => p.restarts = c.replay
  /\ w.at = "restarted" => c.replay = p.restarts + 1
  /\ w.at \in {"restart", "restarted"} => p.restart
  /\ w.at \in {"close", "finish"} => p.closing
  /\ p.restart => upoll = 0

\* What the worker is publishing is a composed frame ...
Work ==
  /\ w.slot # 0 <=> w.at = "copy"
  /\ w.at \in {"publish", "copy"} => w.pending
  /\ c.canvas[2] = 0 => c.canvas = Nothing
  /\ w.at = "copy" => c.canvas[2] # 0

\* ... and that, like what it has published, is of the stream's present replay.
Current ==
  /\ w.pending => c.canvas[1] = c.replay
  /\ w.at # "none" => \A i \in Slot : st[i] \in {"READY", "CLAIMED"} => pic[i][1] = c.replay

\* All of this holds between any two sections: the inductive invariant.
PlaybackInv == TypeOK /\ MailboxAccounted /\ Life /\ Work /\ Current

\* Once a replay is reported done, nothing from before it can still be polled:
\* what waits in the mailbox is of the replay that the status counts.
ReplayIsFresh ==
  ~p.restart /\ ~p.closing =>
    \A i \in Slot : st[i] \in {"WRITING", "READY", "CLAIMED"} =>
      (IF st[i] = "WRITING" THEN c.canvas ELSE pic[i])[1] = p.restarts

\* Frames are shown in order, and while the preserve policy is on none that was
\* composed under it is skipped, whatever happened to polls and to the pool.
NothingSkipped ==
  [][h'.shown # h.shown /\ h'.shown # Nothing =>
       /\ Newer(h'.shown, h.shown)
       /\ LET before == <<h'.shown[1], h'.shown[2] - 1>> IN
            p.preserve /\ before[2] > 0 /\ Newer(before, h.mark) => h.shown = before]_vars

\* An animation that has ended leaves its final frame with the application, or at
\* least published if the policy did not cover that frame, unless it is replayed
\* or closed.
Final == <<p.restarts, c.total>>
Kept == p.preserve /\ Newer(Final, h.mark)
FinalFrameArrives ==
  p.state = "TERMINAL" ~> \/ p.state # "TERMINAL" \/ p.restart
                          \/ (IF Kept THEN h.shown ELSE pool.last) = Final

\* A closed or faulted player can be destroyed once its images are gone.
ShutdownEnds == p.closing ~> ~active
=============================================================================
