--------------------------- MODULE PlayerPlayback ---------------------------
(***************************************************************************)
(* Media playback (port/lv_aic_player_playback.c): a worker thread owns    *)
(* the SDK session, seeks by replacing it, and feeds the publication       *)
(* mailbox; the UI thread controls it through fields under a mutex.  An    *)
(* action is one locked section (of this mutex or of the mailbox's) with   *)
(* the local steps and SDK calls before it.  A UI function that calls the  *)
(* mailbox within its own section is one action.                           *)
(***************************************************************************)
EXTENDS PlayerFrames

CONSTANTS
  HasAudio,      \* info.has_audio of the media (it has video)
  Volumes,       \* the volumes asked for (positive: NoVolume is 0)
  ExtraFrames    \* options.extra_frames, the leases taken at a time

ASSUME PlaybackConstants ==
  HasAudio \in BOOLEAN /\ Volumes \subseteq Nat \ {0} /\ ExtraFrames \in Nat

VARIABLES
  active,   \* an instance exists
  p,        \* its fields: status, requests and owns_audio
  upc,      \* the UI thread between the sections of poll ("poll") or close ("close")
  wpc,      \* the worker's program counter ...
  w,        \* ... what it holds for a round: the snapshot of the fields, the events'
            \* terminal, the drain's slot, and whether drain or submit failed
  wpending, \* its pending lease
  weos      \* its video_eos

mediaVars == <<frameVars, sessVars, memVars>>
workVars == <<wpc, w, wpending, weos>>
vars == <<mediaVars, active, p, upc, workVars>>

States == {"OPENING", "READY", "PLAYING", "PAUSED", "TERMINAL", "CLOSING", "CLOSED",
           "FAULT", "SEEKING"}
AnyVolume == Volumes \cup {NoVolume}

Fields == [state : States, finished : BOOLEAN, seekPending : BOOLEAN, volume : AnyVolume,
           sdkTerminal : BOOLEAN, closing : BOOLEAN, start : BOOLEAN, pause : BOOLEAN,
           volumeAsked : AnyVolume, ownsAudio : BOOLEAN]
Rounds == [closing : BOOLEAN, start : BOOLEAN, pause : BOOLEAN, volume : AnyVolume,
           seek : BOOLEAN, terminal : BOOLEAN, slot : 0..Leases, failed : BOOLEAN]
Places == {"none", "open", "fault", "top", "drain", "giveback", "close", "idle", "finish",
           "seek", "cancelled", "reopen", "reseek", "seekdone", "events", "report", "volume",
           "run", "fetch", "get", "submit", "build", "refused", "gone"}

TypeOK ==
  /\ MemTypeOK /\ SessTypeOK /\ FramesTypeOK
  /\ active \in BOOLEAN /\ p \in Fields
  /\ upc \in {"idle", "poll", "close"} /\ wpc \in Places /\ w \in Rounds
  /\ wpending \in Frame \cup {NoFrame} /\ weos \in BOOLEAN

Fresh == [state |-> "OPENING", finished |-> FALSE, seekPending |-> FALSE,
          volume |-> NoVolume, sdkTerminal |-> FALSE, closing |-> FALSE, start |-> FALSE,
          pause |-> FALSE, volumeAsked |-> NoVolume, ownsAudio |-> FALSE]
NoRound == [closing |-> FALSE, start |-> FALSE, pause |-> FALSE, volume |-> NoVolume,
            seek |-> FALSE, terminal |-> FALSE, slot |-> 0, failed |-> FALSE]

Init ==
  /\ MemInit /\ SessInit /\ FramesInit
  /\ active = FALSE /\ p = Fresh /\ upc = "idle"
  /\ wpc = "none" /\ w = NoRound /\ wpending = NoFrame /\ weos = FALSE

-----------------------------------------------------------------------------
(* The UI thread *)

UiIdle == active /\ upc = "idle" /\ upoll = 0
Open == ~p.closing /\ ~p.finished

\* lv_aic_player_playback_prepare
Prepare ==
  /\ ~active
  /\ active' = TRUE /\ wpc' = "open"
  /\ UNCHANGED <<mediaVars, p, upc, w, wpending, weos>>

\* lv_aic_player_playback_preserve
Preserve(on) ==
  /\ UiIdle /\ Open
  /\ FramesPreserve(on)
  /\ UNCHANGED <<sessVars, memVars, active, p, upc, workVars>>

\* lv_aic_player_playback_start, _pause and _volume
Request ==
  /\ UiIdle /\ Open
  /\ \/ /\ p.state # "TERMINAL"
        /\ \/ p' = [p EXCEPT !.start = TRUE]
           \/ \E on \in BOOLEAN : p' = [p EXCEPT !.pause = on]
     \/ \E v \in Volumes : p' = [p EXCEPT !.volumeAsked = v]
  /\ UNCHANGED <<mediaVars, active, upc, workVars>>

\* lv_aic_player_playback_seek; publication closes in the same section.
Seek ==
  /\ UiIdle /\ Open /\ ~p.seekPending /\ p.state # "OPENING"
  /\ p' = [p EXCEPT !.seekPending = TRUE, !.state = "SEEKING"]
  /\ FramesClose
  /\ UNCHANGED <<sessVars, memVars, active, upc, workVars>>

\* lv_aic_player_playback_poll: allowed? ...
Poll ==
  /\ UiIdle /\ Open /\ ~p.seekPending /\ (~p.pause \/ p.state = "TERMINAL")
  /\ upc' = "poll"
  /\ UNCHANGED <<mediaVars, active, p, workVars>>

\* ... then the mailbox's poll, in its sections.
PollSlot ==
  /\ upc = "poll" /\ upc' = "idle"
  /\ IF Pollable = {} THEN UNCHANGED frameVars ELSE \E i \in Slot : PollClaim(i)
  /\ UNCHANGED <<sessVars, memVars, active, p, workVars>>

PollEnd ==
  /\ PollImage \/ PollFails
  /\ UNCHANGED <<sessVars, memVars, active, p, upc, workVars>>

\* Slips the runs must notice come before their originals, as in PlayerFrames.
ClosingStateAnyway == IF ~p.finished THEN "CLOSING" ELSE p.state
ClosingState == IF ~p.finished /\ p.state # "FAULT" THEN "CLOSING" ELSE p.state

\* lv_aic_player_playback_close; the mailbox is closed in a second section.
Close ==
  /\ UiIdle
  /\ p' = [p EXCEPT !.closing = TRUE, !.seekPending = FALSE, !.state = ClosingState]
  /\ upc' = "close"
  /\ UNCHANGED <<mediaVars, active, workVars>>

CloseFrames ==
  /\ upc = "close" /\ upc' = "idle"
  /\ FramesClose
  /\ UNCHANGED <<sessVars, memVars, active, p, workVars>>

\* lv_aic_player_playback_destroy; the next instance starts afresh.
Destroy ==
  /\ UiIdle /\ p.finished /\ Idle /\ Unused /\ f.closing
  /\ active' = FALSE /\ wpc' = "none" /\ p' = Fresh
  /\ f' = [closing |-> FALSE, quarantined |-> FALSE, preserve |-> FALSE]
  /\ UNCHANGED <<st, lease, pinned, image, upoll, sessVars, memVars, upc, w, wpending, weos>>

Readers(A(_)) == \E i \in Slot : A(i) /\ UNCHANGED <<sessVars, memVars, active, p, upc, workVars>>

Ui ==
  \/ Prepare \/ Request \/ Seek \/ Poll \/ PollSlot \/ PollEnd \/ Close \/ CloseFrames \/ Destroy
  \/ \E on \in BOOLEAN : Preserve(on)
  \/ Readers(ReaderOpen) \/ Readers(ReaderClose) \/ Readers(ImageDestroy)

-----------------------------------------------------------------------------
(* The worker thread *)

Goto(pc) == wpc' = pc /\ UNCHANGED w
NextRound == wpc' = "top" /\ w' = NoRound
KeepStream == UNCHANGED <<wpending, weos>>

\* fault(): the fields, then (at "fault") the mailbox.  Only a round that is
\* closing goes on afterwards.
Faulted == [p EXCEPT !.state = "FAULT", !.seekPending = FALSE, !.closing = TRUE]
Fault == p' = Faulted /\ wpc' = "fault" /\ w' = NoRound

FaultFrames ==
  /\ wpc = "fault"
  /\ FramesClose
  /\ Goto(IF w.closing THEN "close" ELSE "top")
  /\ KeepStream /\ UNCHANGED <<sessVars, memVars, p>>

VolumeAfterOpenKept == p.volume
VolumeAfterOpen == NoVolume

\* open_session: the session, the audio device, mailbox and allocator, then the
\* status.  Reopening after a seek goes on at "reseek".
OpenSession ==
  /\ wpc \in {"open", "reopen"}
  /\ SessOpen
  /\ p' = [p EXCEPT !.ownsAudio = HasAudio, !.volume = VolumeAfterOpen,
                    !.state = IF ~p.closing /\ ~p.seekPending THEN "READY" ELSE @]
  /\ IF wpc = "open" THEN NextRound ELSE Goto("reseek")
  /\ KeepStream /\ UNCHANGED <<frameVars, memVars>>

\* It may have got the audio device before it failed.
OpenSessionFails ==
  /\ wpc \in {"open", "reopen"}
  /\ SessOpenFails
  /\ \E got \in BOOLEAN : 
       /\ got => HasAudio /\ s'.player
       /\ p' = [Faulted EXCEPT !.ownsAudio = @ \/ got]
  /\ wpc' = "fault" /\ w' = NoRound
  /\ KeepStream /\ UNCHANGED <<frameVars, memVars>>

\* The snapshot at the top of a round.
Top ==
  /\ wpc = "top" /\ wpc' = "drain"
  /\ w' = [NoRound EXCEPT !.closing = p.closing, !.start = p.start, !.pause = p.pause,
             !.seek = p.seekPending,
             !.volume = IF p.volumeAsked # p.volume THEN p.volumeAsked ELSE NoVolume]
  /\ KeepStream /\ UNCHANGED <<mediaVars, p>>

\* lv_aic_player_frames_drain: promote, then slot by slot.
Drain ==
  /\ wpc = "drain" /\ ~f.quarantined
  /\ Promote
  /\ wpc' = "giveback" /\ w' = [w EXCEPT !.slot = 1]
  /\ KeepStream /\ UNCHANGED <<sessVars, memVars, p>>

NextSlot == IF w.slot = Leases THEN 0 ELSE w.slot + 1

DrainSlot(ok) ==
  /\ wpc = "giveback" /\ w.slot \in Slot
  /\ IF st[w.slot] # "RETURNING"
       THEN ok /\ w' = [w EXCEPT !.slot = NextSlot] /\ UNCHANGED mediaVars
     ELSE IF PinLost(w.slot)
       THEN KeepAll(w.slot) /\ w' = [w EXCEPT !.slot = 0, !.failed = TRUE]
     ELSE GiveBack(w.slot, ok) /\ w' = [w EXCEPT !.slot = NextSlot, !.failed = @ \/ ~ok]
  /\ KeepStream /\ UNCHANGED <<wpc, p>>

\* The drain returned: where the round goes on.
DrainDone ==
  /\ wpc = "giveback" /\ w.slot = 0 /\ ~w.failed
  /\ Goto(IF w.closing THEN "close" ELSE IF w.seek THEN "seek" ELSE "events")
  /\ KeepStream /\ UNCHANGED <<mediaVars, p>>

DrainFailed ==
  /\ IF wpc = "drain" THEN f.quarantined ELSE wpc = "giveback" /\ w.slot = 0 /\ w.failed
  /\ p' = Faulted /\ wpc' = "fault" /\ w' = [NoRound EXCEPT !.closing = TRUE]
  /\ KeepStream /\ UNCHANGED mediaVars

\* Closing: close the mailbox again and return the pending lease ...
CloseBegins(ok) ==
  /\ wpc = "close"
  /\ FramesClose
  /\ IF wpending = NoFrame
       THEN ok /\ UNCHANGED <<sessVars, wpending>>
       ELSE SessRelease(wpending, ok) /\ wpending' = IF ok THEN NoFrame ELSE wpending
  /\ IF ok THEN Goto("idle") /\ UNCHANGED p ELSE Fault
  /\ UNCHANGED <<memVars, weos>>

\* ... and close the session once every slot is EMPTY.
TryLater == IF s'.faulted THEN Fault ELSE NextRound /\ UNCHANGED p

CloseSession ==
  /\ wpc = "idle" /\ Idle /\ SessClose
  /\ p' = [p EXCEPT !.ownsAudio = FALSE]
  /\ Goto("finish")
  /\ KeepStream /\ UNCHANGED frameVars

CloseLater ==
  /\ wpc = "idle"
  /\ IF Idle THEN SessCloseFails ELSE UNCHANGED <<sessVars, memVars>>
  /\ TryLater
  /\ KeepStream /\ UNCHANGED frameVars

\* The worker's last access.
Finish ==
  /\ wpc = "finish" /\ wpc' = "gone"
  /\ p' = [p EXCEPT !.finished = TRUE, !.state = IF @ = "FAULT" THEN @ ELSE "CLOSED"]
  /\ w' = NoRound /\ weos' = FALSE
  /\ UNCHANGED <<mediaVars, wpending>>

\* Seeking: return the pending lease, wait for the readers, close the session.
SeekReturns(ok) ==
  /\ wpc = "seek" /\ wpending # NoFrame
  /\ SessRelease(wpending, ok)
  /\ IF ok
       THEN wpending' = NoFrame /\ UNCHANGED <<wpc, w, p>>
       ELSE Fault /\ UNCHANGED wpending
  /\ UNCHANGED <<frameVars, memVars, weos>>

SeekWaits ==
  /\ wpc = "seek" /\ wpending = NoFrame /\ ~Idle
  /\ NextRound
  /\ KeepStream /\ UNCHANGED <<mediaVars, p>>

SeekCloses ==
  /\ wpc = "seek" /\ wpending = NoFrame /\ Idle
  /\ \/ SessClose /\ Goto("cancelled") /\ UNCHANGED p
     \/ SessCloseFails /\ Fault
  /\ KeepStream /\ UNCHANGED frameVars

SeekCancelled ==
  /\ wpc = "cancelled"
  /\ IF p.closing THEN NextRound ELSE Goto("reopen")
  /\ KeepStream /\ UNCHANGED <<mediaVars, p>>

\* Seek in the new session and reopen the mailbox.
Reseek ==
  /\ wpc = "reseek"
  /\ SessSeek(TRUE) /\ FramesReopen
  /\ Goto("seekdone") /\ weos' = FALSE
  /\ UNCHANGED <<memVars, p, wpending>>

ReseekFails ==
  /\ wpc = "reseek"
  /\ \E ok \in BOOLEAN : SessSeek(ok) /\ (ok => ~MayReopen)
  /\ Fault
  /\ KeepStream /\ UNCHANGED <<frameVars, memVars>>

TerminalAfterSeek == FALSE

SeekDone ==
  /\ wpc = "seekdone"
  /\ p' = [p EXCEPT !.seekPending = FALSE, !.sdkTerminal = TerminalAfterSeek,
                    !.state = IF p.closing THEN @ ELSE "READY"]
  /\ NextRound
  /\ KeepStream /\ UNCHANGED mediaVars

\* Playing: what the mailbox of events says (it may say failure) ...
Events(ok) ==
  /\ wpc = "events"
  /\ IF ok THEN wpc' = "report" /\ w' = [w EXCEPT !.terminal = s.terminal] /\ UNCHANGED p
     ELSE Fault
  /\ KeepStream /\ UNCHANGED mediaVars

\* ... goes into the status.
Report ==
  /\ wpc = "report"
  /\ p' = [p EXCEPT !.sdkTerminal = IF p.seekPending THEN @ ELSE w.terminal]
  /\ Goto(IF w.volume # NoVolume THEN "volume" ELSE "run")
  /\ KeepStream /\ UNCHANGED mediaVars

SetVolume ==
  /\ wpc = "volume"
  /\ \/ SessVolume(w.volume) /\ p' = [p EXCEPT !.volume = w.volume] /\ Goto("run")
     \/ UNCHANGED sessVars /\ Fault
  /\ KeepStream /\ UNCHANGED <<frameVars, memVars>>

\* Not asked to start: nothing more in this round.
NotStarted ==
  /\ wpc = "run" /\ ~w.start
  /\ NextRound
  /\ KeepStream /\ UNCHANGED <<mediaVars, p>>

StartSession(ok) ==
  /\ wpc = "run" /\ w.start /\ ~s.started
  /\ SessStart(ok)
  /\ IF ok THEN UNCHANGED <<wpc, w, p>> ELSE Fault
  /\ KeepStream /\ UNCHANGED <<frameVars, memVars>>

Running == wpc = "run" /\ w.start /\ s.started
Ended == wpending = NoFrame /\ (w.terminal \/ (weos /\ ~HasAudio))
Showable == ~p.closing /\ ~p.seekPending
Show(state) == p' = [p EXCEPT !.state = IF Showable THEN state ELSE @]

\* The last frame is delivered and the SDK has ended.
Terminal ==
  /\ Running /\ Ended
  /\ Show("TERMINAL") /\ NextRound
  /\ KeepStream /\ UNCHANGED mediaVars

SetPaused(ok) ==
  /\ Running /\ ~Ended /\ w.pause # s.paused
  /\ SessPause(w.pause, ok)
  /\ IF ok THEN UNCHANGED <<wpc, w, p>> ELSE Fault
  /\ KeepStream /\ UNCHANGED <<frameVars, memVars>>

Run ==
  /\ Running /\ ~Ended /\ w.pause = s.paused
  /\ Show(IF w.pause THEN "PAUSED" ELSE "PLAYING")
  /\ IF w.pause \/ (wpending = NoFrame /\ weos) THEN NextRound ELSE Goto("fetch")
  /\ KeepStream /\ UNCHANGED mediaVars

\* lv_aic_player_frames_blocked, and the limit on leases.
Fetch ==
  /\ wpc = "fetch"
  /\ IF MustWait THEN NextRound
     ELSE IF wpending # NoFrame THEN Goto("submit")
     ELSE IF Cardinality(held) >= ExtraFrames THEN NextRound ELSE Goto("get")
  /\ KeepStream /\ UNCHANGED <<mediaVars, p>>

\* get_frame, which may block, returned frame new, the last one or not; by now
\* it may be unwanted.
GetFrame(new, eos) ==
  /\ wpc = "get"
  /\ SessAcquire(new)
  /\ IF s'.quarantined THEN Fault /\ KeepStream
     ELSE /\ wpending' = new /\ weos' = eos
          /\ IF p.closing \/ p.seekPending THEN NextRound ELSE Goto("submit")
          /\ UNCHANGED p
  /\ UNCHANGED <<frameVars, memVars>>

\* No frame in time.
GetNothing ==
  /\ wpc = "get" /\ NextRound /\ KeepStream /\ UNCHANGED <<mediaVars, p>>

Delivers == NextRound /\ wpending' = NoFrame

\* lv_aic_player_frames_submit_checked
Submit ==
  /\ wpc = "submit"
  /\ IF Known(wpending) THEN Delivers /\ UNCHANGED frameVars
     ELSE /\ \/ SubmitBuilds(wpending) /\ Goto("build")
             \/ /\ \E bad \in BOOLEAN :
                     \/ SubmitWaits(bad) /\ w' = w
                     \/ SubmitFails(bad) /\ w' = [w EXCEPT !.failed = TRUE]
                /\ wpc' = "refused" /\ UNCHANGED frameVars
          /\ UNCHANGED wpending
  /\ UNCHANGED <<sessVars, memVars, p, weos>>

BuildDone ==
  /\ wpc = "build"
  /\ \/ \E i \in Slot : Build(i) /\ Delivers
     \/ /\ \E i \in Slot : BuildFails(i)
        /\ wpc' = "refused" /\ w' = [w EXCEPT !.failed = TRUE] /\ UNCHANGED wpending
  /\ UNCHANGED <<sessVars, p, weos>>

\* A refusal is a fault unless it is WAIT, or publication was closed meanwhile.
Refused ==
  /\ wpc = "refused"
  /\ IF w.failed /\ ~p.closing /\ ~p.seekPending THEN Fault ELSE NextRound /\ UNCHANGED p
  /\ KeepStream /\ UNCHANGED mediaVars

Worker ==
  /\ \/ FaultFrames \/ OpenSession \/ OpenSessionFails \/ Top \/ Drain \/ DrainDone
     \/ DrainFailed \/ CloseSession \/ CloseLater \/ Finish \/ SeekWaits \/ SeekCloses
     \/ SeekCancelled \/ Reseek \/ ReseekFails \/ SeekDone \/ Report \/ SetVolume
     \/ NotStarted \/ Terminal \/ Run \/ Fetch \/ GetNothing \/ Submit \/ BuildDone \/ Refused
     \/ \E ok \in BOOLEAN : \/ DrainSlot(ok) \/ CloseBegins(ok) \/ SeekReturns(ok)
                            \/ Events(ok) \/ StartSession(ok) \/ SetPaused(ok)
     \/ \E new \in Decoded, eos \in BOOLEAN : GetFrame(new, eos)
  /\ UNCHANGED <<active, upc>>

Decoder ==
  /\ PlayEnd \/ \E g \in Frame : DecoderAllocates(g) \/ DecoderFrees(g)
  /\ UNCHANGED <<frameVars, active, p, upc, workVars>>

Next == Ui \/ Worker \/ Decoder

Spec == Init /\ [][Next]_vars

\* The worker runs and the SDK's calls return.
WorkerFairness == WF_vars(Worker)

\* What a seek and a shutdown wait for: the UI's own calls return, the owner and
\* the readers let their images go, and an SDK that refuses a frame or its
\* closing must at last accept it when asked again and again.
ReadersLetGo ==
  /\ WF_vars(PollEnd) /\ WF_vars(PollSlot) /\ WF_vars(CloseFrames)
  /\ WF_vars(Readers(ImageDestroy)) /\ WF_vars(Readers(ReaderClose))
SdkAccepts ==
  LET Alone(A) == A /\ UNCHANGED <<active, upc>> IN
  SF_vars(Alone(DrainSlot(TRUE))) /\ SF_vars(Alone(CloseBegins(TRUE))) /\ SF_vars(Alone(CloseSession))
ShutdownFairness == WorkerFairness /\ ReadersLetGo /\ SdkAccepts

-----------------------------------------------------------------------------
(* What holds between the sections, part by part *)

\* No lease is in two slots or in a slot and in the worker's hands, and the session
\* knows no other; only the slot being built shares the worker's pending lease.
LeasesCohere ==
  /\ \A i, j \in Slot : i # j /\ lease[i] = lease[j] => lease[i] = NoFrame
  /\ \A i \in Slot : st[i] # "EMPTY" => lease[i] \in held
  /\ wpending # NoFrame => wpending \in held
  /\ \A g \in held : g = wpending \/ \E i \in Slot : lease[i] = g
  /\ \A i \in Slot : wpending # NoFrame /\ lease[i] = wpending => st[i] = "BUILDING"

\* Where the worker is says what it has in hand.
WorkerHolds ==
  /\ \A i \in Slot : st[i] = "BUILDING" => wpc = "build" /\ lease[i] = wpending
  /\ wpc \in {"submit", "build"} => wpending # NoFrame
  /\ wpc = "get" => wpending = NoFrame

FramesCohere == SlotsCohere /\ PinsCohere /\ NoPinLost /\ LeasesCohere /\ WorkerHolds

\* The life of an instance: who is there, what a closed session is, that the
\* UI thread makes one image at a time, and that the worker leaves nothing behind.
LifeCoheres ==
  /\ active <=> wpc # "none"
  /\ p.finished <=> wpc = "gone"
  /\ ~active => p = Fresh
  /\ ~s.player => s = Closed
  /\ upc # "idle" => upoll = 0
  /\ wpc \in {"gone", "none"} => w = NoRound

\* Closing is for good and excludes a seek, a fault closes, and the worker's
\* snapshot of closing and seeking is not out of date.
ClosingCoheres ==
  /\ p.closing => p.state \in {"CLOSING", "CLOSED", "FAULT"} /\ ~p.seekPending
  /\ p.state = "FAULT" => p.closing
  /\ p.finished => p.state \in {"CLOSED", "FAULT"}
  /\ w.closing => p.closing
  /\ wpc \in {"close", "idle", "finish", "gone"} => p.closing
  /\ w.seek \/ wpc \in {"seek", "cancelled", "reopen", "reseek", "seekdone"} =>
       p.seekPending \/ p.closing

\* The worker's snapshot of the end is this session's, and it fetches no frame while
\* the status says TERMINAL.
EndCoheres ==
  /\ w.terminal =>
       s.terminal /\ wpc \in {"report", "volume", "run", "fetch", "get", "submit", "build",
                              "refused"}
  /\ wpc \in {"fetch", "get"} => p.state # "TERMINAL"

StatusCoheres == LifeCoheres /\ ClosingCoheres /\ EndCoheres

-----------------------------------------------------------------------------
(* Properties *)

\* Every lease is in one slot or in the worker's hands, and nothing else is.
LeasesAccounted ==
  /\ SlotsDisjoint
  /\ held = {lease[i] : i \in {j \in Slot : st[j] # "EMPTY"}} \cup ({wpending} \ {NoFrame})
  /\ \A i \in Slot : wpending # NoFrame /\ lease[i] = wpending => st[i] = "BUILDING"

\* What is shown or read is pinned and leased, every lease is accounted for, and the
\* mailbox is as its own sections leave it.
FramesAreSafe == TypeOK /\ FramesCohere /\ FramesAreStable /\ LeasesAccounted

\* While a seek is pending the status says so, and no frame of before the seek
\* can be polled any more.
SeekIsShown ==
  p.seekPending => p.state = "SEEKING" /\ (f.closing \/ wpc = "seekdone")

\* The reported volume is the one the SDK has in this session.
VolumeIsTrue == p.volume # NoVolume /\ s.player /\ ~p.closing => s.volume = p.volume

\* The reported end is this session's, and TERMINAL strands no frame.
TerminalIsTrue ==
  /\ p.sdkTerminal /\ ~p.seekPending /\ ~p.closing => s.terminal
  /\ p.state = "TERMINAL" => wpending = NoFrame

\* From closing the session on, until the next instance, no reader, image, lease,
\* pin, session or audio device is left: destroying the instance frees nothing
\* that is used.
FinishedIsQuiet ==
  wpc \in {"finish", "gone", "none"} =>
    /\ ~s.player /\ held = {} /\ pins = {} /\ ~p.ownsAudio /\ Unused
    /\ upoll = 0 /\ \A i \in Slot : st[i] = "EMPTY" /\ image[i] = "none"

\* The status never says what the session is not: of a seek, the volume, the end,
\* and of having finished.
StatusIsTrue ==
  StatusCoheres /\ SeekIsShown /\ VolumeIsTrue /\ TerminalIsTrue /\ FinishedIsQuiet

\* FAULT stays visible until the instance is destroyed.
FaultStaysVisible == [][p.state = "FAULT" /\ active' => p'.state = "FAULT"]_vars

\* A seek ends: done, cancelled by close, or in a fault.
SeekEnds == p.seekPending ~> ~p.seekPending

\* A shutdown ends unless the SDK has handed out one frame twice.
ShutdownEnds == p.closing ~> p.finished \/ s.quarantined
=============================================================================
