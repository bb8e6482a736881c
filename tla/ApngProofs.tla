----------------------------- MODULE ApngProofs -----------------------------
(***************************************************************************)
(* The safety of APNG playback for any number of slots, frames and         *)
(* replays: PlaybackInv is inductive; that images keep their pixels and    *)
(* that nothing of before a replay is shown after it follow from it.  With *)
(* Shape, Order and Keep it shows that the preserve policy skips no frame. *)
(***************************************************************************)
EXTENDS ApngPlayback, TLAPS

-----------------------------------------------------------------------------
(* Types *)

\* The UI functions that only store a request keep the types
\* (lv_aic_apng_playback_preserve to _close).
LEMMA RequestTypes ==
  ASSUME TypeOK, NEW on \in BOOLEAN, Preserve(on) \/ Start \/ Pause(on) \/ Restart \/ Close
  PROVE  TypeOK'
<1>1. p' \in Fields /\ UNCHANGED <<active, st, pic, image, upoll, w, c>>
  <2> USE DEF TypeOK, Fields, States, frameVars
  <2>1. CASE Preserve(on)
    BY <2>1 DEF Preserve, SetPreserve
  <2>2. CASE Start \/ Pause(on)
    BY <2>2 DEF Start, Pause
  <2>3. CASE Restart
    BY <2>3 DEF Restart
  <2>4. CASE Close
    BY <2>4 DEF Close
  <2> QED BY <2>1, <2>2, <2>3, <2>4
<1>2. pool' \in [made : BOOLEAN, closed : BOOLEAN, preserve : BOOLEAN, last : Frame]
  BY DEF TypeOK, FramesTypeOK, Preserve, SetPreserve, Start, Pause, Restart, Close, frameVars
<1>3. h' \in [shown : Frame, mark : Frame]
  BY DEF TypeOK, Preserve, Start, Pause, Restart, Close, Streams
<1> QED BY <1>1, <1>2, <1>3 DEF TypeOK, FramesTypeOK

\* The constants the types are made of.
LEMMA Constants ==
  /\ Nothing \in Frame /\ Slot \subseteq 0..Snapshots /\ 0 \in 0..Snapshots /\ 0 \notin Slot
  /\ Fresh \in Fields /\ Idle \in Locals
  /\ NoStream \in Streams /\ NoHistory \in [shown : Frame, mark : Frame]
  /\ NoPool \in [made : BOOLEAN, closed : BOOLEAN, preserve : BOOLEAN, last : Frame]
<1>1. Nothing \in Frame /\ Slot \subseteq 0..Snapshots /\ 0 \in 0..Snapshots /\ 0 \notin Slot
  BY PlaybackConstants, SnapshotsAreTwoOrMore DEF Nothing, Frame, Slot
<1>2. Fresh \in Fields
  BY PlaybackConstants DEF Fresh, Fields, States
<1>3. Idle \in Locals
  BY <1>1 DEF Idle, Locals, Places
<1>4. NoStream \in Streams
  BY <1>1, PlaybackConstants DEF NoStream, Streams
<1> QED BY <1>1, <1>2, <1>3, <1>4 DEF NoHistory, NoPool

\* Giving up slots keeps their types (lv_aic_apng_frames_close, release).
LEMMA FreedTypes ==
  ASSUME st \in [Slot -> SlotStates], pic \in [Slot -> Frame], NEW S, Freed(S)
  PROVE  st' \in [Slot -> SlotStates] /\ pic' \in [Slot -> Frame]
BY Constants DEF Freed, SlotStates

\* Poll and the images keep the types (lv_aic_apng_frames_poll, lv_aic_rgb_image.c).
LEMMA ImageTypes ==
  ASSUME TypeOK, NEW i \in Slot, NEW ok \in BOOLEAN, Poll(i) \/ PollEnds(ok) \/ Images(i)
  PROVE  TypeOK'
<1> USE DEF FramesTypeOK
<1>1. CASE Poll(i)
  BY <1>1, Constants DEF TypeOK, Poll, PollClaim, SlotStates
<1>2. CASE PollEnds(ok)
  <2>1. upoll \in Slot
    BY <1>2 DEF TypeOK, PollEnds, Slot
  <2>2. CASE ok
    BY <1>2, <2>1, <2>2, Constants DEF TypeOK, PollEnds, PollImage, SlotStates
  <2>3. CASE ~ok
    <3>1. st' \in [Slot -> SlotStates] /\ pic' \in [Slot -> Frame]
      BY <1>2, <2>1, <2>3, FreedTypes DEF TypeOK, PollEnds, PollFails, SlotStates
    <3> QED BY <1>2, <2>3, <3>1, Constants DEF TypeOK, PollEnds, PollFails
  <2> QED BY <2>2, <2>3
<1>3. CASE Images(i)
  <2>1. UNCHANGED <<active, p, w, c, h, pool, upoll>>
    BY <1>3 DEF Images, ImageOpen, ImageClose, ImageDestroy
  <2>2. image' \in [Slot -> {"none", "shown", "read", "kept"}]
    BY <1>3 DEF TypeOK, Images, ImageOpen, ImageClose, ImageDestroy
  <2>3. st' \in [Slot -> SlotStates] /\ pic' \in [Slot -> Frame]
    BY <1>3, FreedTypes DEF TypeOK, Images, ImageOpen, ImageClose, ImageDestroy
  <2> QED BY <2>1, <2>2, <2>3 DEF TypeOK
<1> QED BY <1>1, <1>2, <1>3

\* An instance begins and ends with its types (lv_aic_apng_playback_prepare,
\* _destroy, the worker's return).
LEMMA InstanceTypes ==
  ASSUME TypeOK, Prepare \/ Destroy \/ Finish
  PROVE  TypeOK'
<1>1. p' \in Fields
  <2>1. CASE Prepare \/ Destroy
    BY <2>1, Constants DEF Prepare, Destroy, Fields, States
  <2>2. CASE Finish
    BY <2>2 DEF TypeOK, Finish, Fields, States
  <2> QED BY <2>1, <2>2
<1>2. w' \in Locals
  BY Constants DEF TypeOK, Prepare, Destroy, Finish, Locals, Places
<1>3. FramesTypeOK(Frame)' /\ active' \in BOOLEAN
  BY Constants DEF TypeOK, Prepare, Destroy, Finish, FramesTypeOK, frameVars
<1>4. c' \in Streams /\ h' \in [shown : Frame, mark : Frame]
  BY Constants DEF TypeOK, Prepare, Destroy, Finish
<1> QED BY <1>1, <1>2, <1>3, <1>4 DEF TypeOK

\* The worker's rounds keep the types of its locals and of the status (worker,
\* fault).
LEMMA WorkerTypes ==
  ASSUME TypeOK, Life, Worker, ~Finish
  PROVE  TypeOK'
<1> USE DEF At, Locks, Goto
<1>1. active' \in BOOLEAN /\ h' \in [shown : Frame, mark : Frame] /\ UNCHANGED <<active, h>>
  BY DEF TypeOK, Worker, Load, Fault, Top, CloseMailbox, CloseLater, Replay, Replayed, Control,
     NextFrame, Ends, Waits, Holds, PublishRefused, Copied, Report, Publish
<1>2. p' \in Fields
  <2> USE DEF TypeOK, Fields, States
  <2>1. CASE \E place \in {"load", "nopool", "restart", "control", "tick"} : Fault(place)
    <3>1. p' = Faulted
      BY <2>1 DEF Fault
    <3> QED BY <3>1 DEF Faulted
  <2>2. CASE \E animated, ok \in BOOLEAN : Load(animated, ok)
    BY <2>2 DEF Load
  <2>3. CASE Replayed
    BY <2>3 DEF Replayed, Life, Streams
  <2>4. CASE Report
    BY <2>4 DEF Report
  <2>5. CASE UNCHANGED p
    BY <2>5
  <2> QED BY <2>1, <2>2, <2>3, <2>4, <2>5
          DEF Worker, Top, CloseMailbox, CloseLater, Replay, Control, NextFrame, Ends, Waits,
              Holds, PublishRefused, Copied, Publish
<1>3. w' \in Locals
  <2> USE DEF Locals, Places
  <2>1. CASE \E animated, ok \in BOOLEAN : Load(animated, ok)
    BY <2>1 DEF TypeOK, Load
  <2>2. CASE \E place \in {"load", "nopool", "restart", "control", "tick"} : Fault(place)
    BY <2>2 DEF TypeOK, Fault
  <2>3. CASE Top
    BY <2>3 DEF TypeOK, Top, Fields
  <2>4. CASE CloseMailbox \/ CloseLater \/ Replayed \/ Control
    BY <2>4 DEF TypeOK, CloseMailbox, CloseLater, Replayed, Control
  <2>5. CASE Replay
    BY <2>5 DEF TypeOK, Replay, PendingAfterRestart
  <2>6. CASE NextFrame \/ Ends \/ Waits \/ Holds
    <3>1. CASE NextFrame
      BY <3>1 DEF TypeOK, NextFrame, AfterTick
    <3>2. CASE Ends
      BY <3>2 DEF TypeOK, Ends, AfterTick
    <3>3. CASE Waits
      BY <3>3 DEF TypeOK, Waits, AfterTick
    <3>4. CASE Holds
      BY <3>4 DEF TypeOK, Holds, AfterTick
    <3> QED BY <2>6, <3>1, <3>2, <3>3, <3>4
  <2>7. ASSUME NEW i \in Slot, Publish(i) PROVE w' \in Locals
    BY <2>7, Constants DEF TypeOK, Publish
  <2>8. CASE PublishRefused \/ Report
    <3>1. CASE PublishRefused
      BY <3>1 DEF TypeOK, PublishRefused, PendingAfterRefusal
    <3>2. CASE Report
      BY <3>2 DEF TypeOK, Report
    <3> QED BY <2>8, <3>1, <3>2
  <2>9. CASE Copied
    BY <2>9, Constants DEF TypeOK, FramesTypeOK, Copied
  <2> QED BY <2>1, <2>2, <2>3, <2>4, <2>5, <2>6, <2>7, <2>8, <2>9 DEF Worker
<1>4. c' \in Streams
  <2>1. CASE \E animated, ok \in BOOLEAN : Load(animated, ok)
    <3>1. PICK animated, ok \in BOOLEAN : Load(animated, ok)
      BY <2>1
    <3>2. (IF animated THEN Length ELSE 1) \in 1..Length
      BY PlaybackConstants
    <3>3. c' = [NoStream EXCEPT !.animated = animated, !.total = IF animated THEN Length ELSE 1]
      BY <3>1 DEF Load
    <3> QED BY <3>2, <3>3, Constants DEF Streams
  <2>2. CASE Replay
    <3>1. c \in Streams
      BY DEF TypeOK
    <3>2. c.replay + 1 \in 0..Replays /\ 0 \in 0..Length
      BY <2>2, <3>1, PlaybackConstants DEF Replay, Streams
    <3>3. c' = [c EXCEPT !.replay = c.replay + 1, !.number = 0, !.ended = FALSE]
      BY <2>2 DEF Replay, Rewound
    <3> QED BY <3>1, <3>2, <3>3 DEF Streams
  <2>3. CASE Control
    <3>1. w.start \in BOOLEAN /\ w.paused \in BOOLEAN
      BY DEF TypeOK, Locals
    <3> QED BY <2>3, <3>1 DEF TypeOK, Streams, Control
  <2>4. CASE NextFrame
    <3>1. c \in Streams
      BY DEF TypeOK
    <3>2. c.number + 1 \in 0..Length /\ c.replay \in 0..Replays
      BY <2>4, <3>1, PlaybackConstants DEF NextFrame, Streams
    <3>3. <<c.replay, c.number + 1>> \in Frame
      BY <3>2 DEF Frame
    <3>4. c' = [c EXCEPT !.number = c.number + 1, !.canvas = <<c.replay, c.number + 1>>,
                         !.ended = ~c.animated]
      BY <2>4 DEF NextFrame
    <3> QED BY <3>1, <3>2, <3>3, <3>4 DEF Streams
  <2>5. CASE Ends
    BY <2>5 DEF TypeOK, Streams, Ends
  <2>6. CASE UNCHANGED c
    BY <2>6 DEF TypeOK
  <2> QED BY <2>1, <2>2, <2>3, <2>4, <2>5, <2>6
          DEF Worker, Fault, Top, CloseMailbox, CloseLater, Replayed, Waits, Holds,
              PublishRefused, Copied, Report, Publish
<1>5. FramesTypeOK(Frame)'
  <2> USE DEF TypeOK, FramesTypeOK, SlotStates
  <2>1. CASE \E animated, ok \in BOOLEAN : Load(animated, ok)
    <3>1. UNCHANGED <<st, pic, image, upoll>>
      BY <2>1 DEF Load
    <3>2. p.preserve \in BOOLEAN
      BY DEF Fields
    <3>3. pool' = pool \/ pool' = [NoPool EXCEPT !.made = TRUE, !.preserve = p.preserve]
      BY <2>1 DEF Load, Make
    <3>4. pool' \in [made : BOOLEAN, closed : BOOLEAN, preserve : BOOLEAN, last : Frame]
      <4>1. pool \in [made : BOOLEAN, closed : BOOLEAN, preserve : BOOLEAN, last : Frame]
        OBVIOUS
      <4>2. NoPool \in [made : BOOLEAN, closed : BOOLEAN, preserve : BOOLEAN, last : Frame]
        BY Constants
      <4> QED BY <3>2, <3>3, <4>1, <4>2
    <3> QED BY <3>1, <3>4
  <2>2. CASE CloseMailbox
    <3>1. st' \in [Slot -> SlotStates] /\ pic' \in [Slot -> Frame]
      BY <2>2, FreedTypes DEF CloseMailbox, CloseFrames
    <3>2. pool' \in [made : BOOLEAN, closed : BOOLEAN, preserve : BOOLEAN, last : Frame]
      BY <2>2 DEF CloseMailbox, CloseFrames
    <3> QED BY <2>2, <3>1, <3>2 DEF CloseMailbox, CloseFrames
  <2>3. CASE Replay
    BY <2>3, FreedTypes DEF Replay, Discard
  <2>4. ASSUME NEW i \in Slot, Publish(i) PROVE FramesTypeOK(Frame)'
    BY <2>4, Constants DEF Publish, PublishBegin
  <2>5. CASE Copied
    <3>1. c.canvas \in Frame
      BY DEF Streams
    <3>2. st' \in [Slot -> SlotStates] /\ pic' \in [Slot -> Frame]
      BY <2>5, <3>1, Constants DEF Copied, PublishEnd
    <3>3. pool' \in [made : BOOLEAN, closed : BOOLEAN, preserve : BOOLEAN, last : Frame]
      BY <2>5, <3>1 DEF Copied, PublishEnd
    <3> QED BY <2>5, <3>2, <3>3 DEF Copied, PublishEnd
  <2>6. CASE UNCHANGED frameVars
    BY <2>6 DEF frameVars
  <2> QED BY <2>1, <2>2, <2>3, <2>4, <2>5, <2>6
          DEF Worker, Fault, Top, CloseLater, Replayed, Control, NextFrame, Ends, Waits,
              Holds, PublishRefused, Report
<1> QED BY <1>1, <1>2, <1>3, <1>4, <1>5 DEF TypeOK

\* Every step keeps the types.
LEMMA Types ==
  ASSUME TypeOK, Life, [Next]_vars
  PROVE  TypeOK'
<1>1. CASE Owner
  <2>1. ASSUME NEW on \in BOOLEAN, Preserve(on) \/ Pause(on) \/ Start \/ Restart \/ Close
        PROVE  TypeOK'
    BY <2>1, RequestTypes
  <2>2. Slot # {}
    BY SnapshotsAreTwoOrMore DEF Slot
  <2>3. ASSUME NEW on \in BOOLEAN, NEW i \in Slot, PollEnds(on) \/ Poll(i) \/ Images(i)
        PROVE  TypeOK'
    BY <2>3, ImageTypes
  <2>4. CASE Prepare \/ Destroy
    BY <2>4, InstanceTypes
  <2> QED BY <1>1, <2>1, <2>2, <2>3, <2>4 DEF Owner
<1>2. CASE Worker
  BY <1>2, WorkerTypes, InstanceTypes
<1>3. CASE UNCHANGED vars
  BY <1>3 DEF vars, frameVars, TypeOK, FramesTypeOK
<1> QED BY <1>1, <1>2, <1>3 DEF Next

-----------------------------------------------------------------------------
(* The mailbox *)

\* Giving up slots that are in nobody's hands keeps the accounts
\* (lv_aic_apng_frames_discard, _close).
LEMMA WaitingFreed ==
  ASSUME TypeOK, MailboxAccounted, Freed({}) \/ Freed(Waiting),
         UNCHANGED <<image, upoll>>, w'.slot = w.slot
  PROVE  MailboxAccounted'
<1> SUFFICES ASSUME NEW i \in Slot
             PROVE  /\ st'[i] = "CLAIMED" <=> upoll = i
                    /\ st'[i] = "LEASED" <=> image[i] # "none"
                    /\ st'[i] \in {"FREE", "WRITING"} <=> pic'[i][2] = 0
                    /\ st'[i] = "WRITING" <=> w.slot = i
  BY DEF MailboxAccounted, SlotsAccounted
<1>1. \/ st'[i] = st[i] /\ pic'[i] = pic[i]
      \/ st[i] = "READY" /\ st'[i] = "FREE" /\ pic'[i] = Nothing
  BY DEF Freed, Waiting, TypeOK, FramesTypeOK
<1> QED BY <1>1 DEF MailboxAccounted, SlotsAccounted, Nothing

\* The UI thread's side (lv_aic_apng_frames_poll, lv_aic_rgb_image.c).
LEMMA ImagesAccounted ==
  ASSUME TypeOK, MailboxAccounted, NEW j \in Slot, NEW ok \in BOOLEAN,
         Poll(j) \/ PollEnds(ok) \/ Images(j)
  PROVE  MailboxAccounted'
<1> SUFFICES ASSUME NEW i \in Slot
             PROVE  /\ st'[i] = "CLAIMED" <=> upoll' = i
                    /\ st'[i] = "LEASED" <=> image'[i] # "none"
                    /\ st'[i] \in {"FREE", "WRITING"} <=> pic'[i][2] = 0
                    /\ st'[i] = "WRITING" <=> w.slot = i
  BY DEF MailboxAccounted, SlotsAccounted, Poll, PollEnds, Images
<1> USE DEF MailboxAccounted, SlotsAccounted, TypeOK, FramesTypeOK
<1>1. CASE Poll(j)
  <2>1. st[j] = "READY" /\ upoll = 0 /\ upoll' = j
    BY <1>1 DEF Poll, PollClaim, Ui, First, Waiting, Slot
  <2> QED BY <1>1, <2>1, Constants DEF Poll, PollClaim
<1>2. CASE PollEnds(ok)
  <2>1. upoll \in Slot /\ upoll' = 0 /\ 0 \notin Slot
    BY <1>2 DEF PollEnds, PollImage, PollFails, Slot
  <2> QED BY <1>2, <2>1 DEF PollEnds, PollImage, PollFails, Freed, Nothing
<1>3. CASE Images(j)
  BY <1>3 DEF Images, ImageOpen, ImageClose, ImageDestroy, Unread, Freed, Nothing
<1> QED BY <1>1, <1>2, <1>3

\* The worker's side (lv_aic_apng_frames_publish).
LEMMA PublicationAccounted ==
  ASSUME TypeOK, MailboxAccounted, Work, NEW j \in Slot, Publish(j) \/ Copied
  PROVE  MailboxAccounted'
<1> SUFFICES ASSUME NEW i \in Slot
             PROVE  /\ st'[i] = "CLAIMED" <=> upoll = i
                    /\ st'[i] = "LEASED" <=> image[i] # "none"
                    /\ st'[i] \in {"FREE", "WRITING"} <=> pic'[i][2] = 0
                    /\ st'[i] = "WRITING" <=> w'.slot = i
  BY DEF MailboxAccounted, SlotsAccounted, Publish, PublishBegin, Copied, PublishEnd
<1>0. w \in Locals /\ c.canvas \in Frame
  BY DEF TypeOK, Streams
<1> USE DEF MailboxAccounted, SlotsAccounted, At
<1>1. CASE Publish(j)
  <2>1. st[j] \in {"READY", "FREE"} /\ w.slot = 0 /\ 0 \notin Slot /\ w'.slot = j
    BY <1>1, <1>0, Constants
       DEF Publish, PublishBegin, First, Targets, Waiting, Free, Slot, Work, Locals
  <2> QED BY <1>1, <2>1 DEF Publish, PublishBegin, TypeOK, FramesTypeOK, Nothing
<1>2. CASE Copied
  <2>1. w.slot # 0 /\ w'.slot = 0 /\ c.canvas[2] # 0 /\ 0 \notin Slot
    BY <1>2, <1>0, Constants DEF Copied, Work, Locals
  <2> QED BY <1>2, <2>1 DEF Copied, PublishEnd, TypeOK, FramesTypeOK, Nothing
<1> QED BY <1>1, <1>2

\* Every step keeps the accounts.
LEMMA Mailbox ==
  ASSUME PlaybackInv, [Next]_vars
  PROVE  MailboxAccounted'
<1> USE DEF PlaybackInv
<1>1. CASE UNCHANGED <<st, pic, image, upoll>> /\ w'.slot = w.slot
  BY <1>1 DEF MailboxAccounted, SlotsAccounted
<1>2. ASSUME NEW j \in Slot, NEW ok \in BOOLEAN, Poll(j) \/ PollEnds(ok) \/ Images(j)
      PROVE  MailboxAccounted'
  BY <1>2, ImagesAccounted
<1>3. ASSUME NEW j \in Slot, Publish(j) \/ Copied
      PROVE  MailboxAccounted'
  BY <1>3, PublicationAccounted
<1>4. CASE CloseMailbox \/ Replay
  <2>1. w'.slot = w.slot
    BY <1>4 DEF TypeOK, Locals, CloseMailbox, Goto, Replay
  <2> QED BY <1>4, <2>1, WaitingFreed DEF CloseMailbox, CloseFrames, Dropped, Replay, Discard
<1>5. CASE Prepare \/ Finish
  <2>1. w.slot = 0 /\ w'.slot = 0
    BY <1>5 DEF Prepare, Finish, Idle, Life, Work, Locks
  <2> QED BY <1>5, <2>1, <1>1 DEF Prepare, Finish, frameVars
<1>6. ASSUME NEW on \in BOOLEAN,
             Preserve(on) \/ Pause(on) \/ Start \/ Restart \/ Close \/ Destroy \/ UNCHANGED vars
      PROVE  MailboxAccounted'
  BY <1>1, <1>6
     DEF Preserve, SetPreserve, Pause, Start, Restart, Close, Destroy, vars, frameVars
<1>7. CASE \/ \E animated, ok \in BOOLEAN : Load(animated, ok)
           \/ \E place \in {"load", "nopool", "restart", "control", "tick"} : Fault(place)
           \/ Top \/ CloseLater \/ Replayed \/ Control \/ NextFrame \/ Ends \/ Waits \/ Holds
           \/ PublishRefused \/ Report
  <2>1. w'.slot = w.slot
    BY <1>7
       DEF TypeOK, Locals, Goto, Load, Fault, Top, CloseLater, Replayed, Control, NextFrame,
       Ends, Waits, Holds, PublishRefused, Report
  <2> QED BY <1>1, <1>7, <2>1 DEF frameVars, Load, Fault, Top, CloseLater, Replayed, Control,
       NextFrame, Ends, Waits, Holds, PublishRefused, Report
<1>8. Slot # {}
  BY SnapshotsAreTwoOrMore DEF Slot
<1> QED BY <1>1, <1>2, <1>3, <1>4, <1>5, <1>6, <1>7, <1>8 DEF Next, Owner, Worker

-----------------------------------------------------------------------------
(* The life of an instance *)

\* Where a step of the worker leads, and what it does to the status (worker,
\* fault): a replay is the only way to count one.
LEMMA WorkerMoves ==
  ASSUME TypeOK, Life, Worker, ~Finish
  PROVE  /\ w.at # "none" /\ w'.at \notin {"none", "load"} /\ UNCHANGED <<active, upoll>>
         /\ w'.at \in {"close", "finish"} => p'.closing
         /\ p'.finished = p.finished /\ (p.closing => p'.closing) /\ (p'.restart => p.restart)
         /\ \/ /\ w.at # "restarted" /\ w'.at \notin {"restart", "restarted"}
               /\ p'.restarts = p.restarts /\ c'.replay = c.replay
            \/ w.at = "top" /\ w'.at = "restart" /\ p.restart /\ UNCHANGED <<p, c>>
            \/ w.at = "restart" /\ w'.at = "restarted" /\ p' = p /\ c'.replay = c.replay + 1
            \/ /\ w.at = "restarted" /\ w'.at = "control"
               /\ p'.restarts = p.restarts + 1 /\ c' = c
<1>0. p \in Fields /\ w \in Locals /\ c \in Streams
  BY DEF TypeOK
<1> USE DEF At, Locks, Goto
<1>1. CASE \E animated, ok \in BOOLEAN : Load(animated, ok)
  <2>1. c'.replay = 0
    BY <1>1, Constants DEF Load, Streams, NoStream
  <2>2. /\ p'.finished = p.finished /\ p'.closing = p.closing
        /\ p'.restart = p.restart /\ p'.restarts = p.restarts
    BY <1>1, <1>0 DEF Load, Fields
  <2>3. w.at = "load" /\ w'.at \in {"top", "nopool"} /\ UNCHANGED <<active, upoll>>
    BY <1>1, <1>0 DEF Load, Locals
  <2> QED BY <2>1, <2>2, <2>3 DEF Life
<1>2. CASE \E place \in {"load", "nopool", "restart", "control", "tick"} : Fault(place)
  <2>1. /\ p'.finished = p.finished /\ p'.closing = TRUE
        /\ p'.restart = FALSE /\ p'.restarts = p.restarts
    BY <1>2, <1>0 DEF Fault, Faulted, Fields
  <2>2. w.at \in {"load", "nopool", "restart", "control", "tick"} /\ w'.at = "top"
    BY <1>2, <1>0 DEF Fault, Locals
  <2> QED BY <1>2, <2>1, <2>2 DEF Fault, frameVars
<1>3. CASE Top
  BY <1>3, <1>0 DEF Top, Locals, frameVars
<1>4. CASE CloseMailbox \/ CloseLater
  BY <1>4, <1>0 DEF Life, CloseMailbox, CloseFrames, CloseLater, Locals, frameVars
<1>5. CASE Replay
  <2>1. w.at = "restart" /\ w'.at = "restarted"
    BY <1>5, <1>0 DEF Replay, Locals
  <2>2. c'.replay = c.replay + 1
    BY <1>5, <1>0 DEF Replay, Rewound, Streams
  <2> QED BY <1>5, <2>1, <2>2 DEF Replay, Discard
<1>6. CASE Replayed
  <2>1. /\ p'.finished = p.finished /\ p'.closing = p.closing
        /\ p'.restart = FALSE /\ p'.restarts = p.restarts + 1
    BY <1>6, <1>0 DEF Replayed, Fields
  <2>2. w.at = "restarted" /\ w'.at = "control"
    BY <1>6, <1>0 DEF Replayed, Locals
  <2> QED BY <1>6, <2>1, <2>2 DEF Replayed, frameVars
<1>7. CASE Control \/ NextFrame \/ Ends \/ Waits \/ Holds
  <2>1. c'.replay = c.replay
    BY <1>7, <1>0 DEF Control, NextFrame, Ends, Waits, Holds, Streams
  <2>2. /\ w.at \in {"control", "tick", "decide"}
        /\ w'.at \in {"tick", "decide", "publish", "status"}
    BY <1>7, <1>0 DEF Control, NextFrame, Ends, Waits, Holds, AfterTick, Locals
  <2> QED BY <1>7, <2>1, <2>2 DEF Control, NextFrame, Ends, Waits, Holds, frameVars
<1>8. ASSUME NEW i \in Slot, Publish(i) \/ PublishRefused \/ Copied
      PROVE  /\ w.at \in {"publish", "copy"} /\ w'.at \in {"copy", "status"}
             /\ UNCHANGED <<active, upoll, p, c>>
  BY <1>8, <1>0 DEF Publish, PublishBegin, PublishRefused, Copied, PublishEnd, Locals, frameVars
<1>9. CASE Report
  <2>1. /\ p'.finished = p.finished /\ p'.closing = p.closing
        /\ p'.restart = p.restart /\ p'.restarts = p.restarts
    BY <1>9, <1>0 DEF Report, Fields
  <2>2. w.at = "status" /\ w'.at = "top"
    BY <1>9, <1>0 DEF Report, Locals
  <2> QED BY <1>9, <2>1, <2>2 DEF Report, frameVars
<1>10. Slot # {}
  BY SnapshotsAreTwoOrMore DEF Slot
<1> QED BY <1>1, <1>2, <1>3, <1>4, <1>5, <1>6, <1>7, <1>8, <1>9, <1>10 DEF Worker

\* A step of the UI thread that leaves the instance there, and the worker alone.
LEMMA OwnerMoves ==
  ASSUME TypeOK, MailboxAccounted, Life, Owner, ~Prepare, ~Destroy
  PROVE  /\ active /\ UNCHANGED <<active, w, c>>
         /\ p'.finished = p.finished /\ p'.restarts = p.restarts
         /\ (p.closing => p'.closing) /\ (p.restart => p'.restart)
         /\ p'.restart => upoll' = 0
<1>0. p \in Fields /\ upoll \in 0..Snapshots
  BY DEF TypeOK, FramesTypeOK
<1>1. ASSUME NEW on \in BOOLEAN, Preserve(on) \/ Pause(on) \/ Start \/ Restart \/ Close
      PROVE  /\ active /\ UNCHANGED <<active, w, c, upoll>> /\ upoll = 0
             /\ p'.finished = p.finished /\ p'.restarts = p.restarts
             /\ (p.closing => p'.closing) /\ (p.restart => p'.restart)
  BY <1>0, <1>1 DEF Fields, Ui, Preserve, SetPreserve, Pause, Start, Restart, Close, frameVars
<1>2. \A i \in Slot : st[i] # "FREE" => active
  BY DEF Life, Free
<1>3. ASSUME NEW i \in Slot, NEW ok \in BOOLEAN, Poll(i) \/ PollEnds(ok) \/ Images(i)
      PROVE  active /\ UNCHANGED <<active, p, w, c>> /\ (p.restart => upoll' = 0)
  <2>1. CASE Poll(i)
    BY <2>1 DEF Poll, Ui
  <2>2. CASE PollEnds(ok)
    <3>1. upoll \in Slot
      BY <2>2, <1>0 DEF PollEnds, Slot
    <3> QED BY <2>2, <3>1, <1>2 DEF PollEnds, Life, MailboxAccounted, SlotsAccounted
  <2>3. CASE Images(i)
    <3>1. st[i] = "LEASED"
      BY <2>3 DEF Images, ImageOpen, ImageClose, ImageDestroy, MailboxAccounted, SlotsAccounted
    <3> QED BY <2>3, <3>1, <1>2 DEF Images, ImageOpen, ImageClose, ImageDestroy
  <2> QED BY <1>3, <2>1, <2>2, <2>3
<1>4. Slot # {}
  BY SnapshotsAreTwoOrMore DEF Slot
<1> QED BY <1>1, <1>3, <1>4 DEF Owner

\* Every step keeps the life of the instance.
LEMMA Lives ==
  ASSUME PlaybackInv, [Next]_vars
  PROVE  Life'
<1> USE DEF PlaybackInv
<1>0. p \in Fields /\ c \in Streams
  BY DEF TypeOK
<1>1. CASE Prepare
  BY <1>1 DEF Prepare, Life, Fresh, Idle, frameVars
<1>2. CASE Destroy
  BY <1>2 DEF Destroy, Life, Fresh, Free
<1>3. CASE Finish
  <2>1. p'.finished = TRUE /\ p'.closing = p.closing /\ p'.restart = FALSE
    BY <1>3, <1>0 DEF Finish, Fields
  <2>2. w'.at = "none" /\ c'.replay = 0 /\ active' = active /\ w.at = "finish"
    BY <1>3 DEF Finish, Idle, NoStream, Locks
  <2> QED BY <2>1, <2>2 DEF Life
<1>4. CASE Owner /\ ~Prepare /\ ~Destroy
  BY <1>4, OwnerMoves DEF Life
<1>5. CASE Worker /\ ~Finish
  BY <1>5, <1>0, WorkerMoves DEF Life, Streams, Fields
<1>6. CASE UNCHANGED vars
  BY <1>6 DEF vars, frameVars, Life, Free
<1> QED BY <1>1, <1>2, <1>3, <1>4, <1>5, <1>6 DEF Next, Owner, Worker

-----------------------------------------------------------------------------
(* What the worker publishes *)

\* A step that leaves the canvas and the slots alone, and begins no publication.
Aside ==
  /\ UNCHANGED <<st, pic>> /\ w'.slot = w.slot /\ (w'.pending => w.pending)
  /\ c'.canvas = c.canvas /\ c'.replay = c.replay
  /\ w.at \notin {"none", "copy"} /\ w'.at \notin {"publish", "copy"}

\* These steps are such (worker, fault).
LEMMA AsideSteps ==
  ASSUME TypeOK, NEW place \in {"load", "nopool", "restart", "control", "tick"},
         Fault(place) \/ Top \/ CloseLater \/ Replayed \/ Control \/ Report
  PROVE  Aside
<1>0. w \in Locals /\ c \in Streams
  BY DEF TypeOK
<1>1. UNCHANGED <<st, pic>>
  BY DEF Fault, Top, CloseLater, Replayed, Control, Report, frameVars
<1>2. /\ w'.slot = w.slot /\ w'.pending = w.pending
      /\ w.at \notin {"none", "copy"} /\ w'.at \notin {"publish", "copy"}
  BY <1>0 DEF Fault, Top, CloseLater, Replayed, Control, Report, At, Locks, Goto, Locals
<1>3. c'.canvas = c.canvas /\ c'.replay = c.replay
  BY <1>0 DEF Fault, Top, CloseLater, Replayed, Control, Report, Streams
<1> QED BY <1>1, <1>2, <1>3 DEF Aside

\* What the timeline does to the canvas and the round (worker,
\* lv_aic_apng_stream_tick).
LEMMA TickSteps ==
  ASSUME TypeOK, Work, NextFrame \/ Ends \/ Waits \/ Holds
  PROVE  /\ UNCHANGED <<frameVars, active, p>> /\ c'.replay = c.replay
         /\ w.at \in {"tick", "decide"} /\ w'.at \in {"publish", "status"} /\ w'.slot = w.slot
         /\ w'.at = "publish" => w'.pending
         /\ \/ c'.canvas = c.canvas /\ w'.pending = w.pending
            \/ c'.canvas[1] = c.replay /\ c'.canvas[2] # 0
<1>0. w \in Locals /\ c \in Streams
  BY DEF TypeOK
<1>1. UNCHANGED <<frameVars, active, p>> /\ w.at \in {"tick", "decide"}
  BY DEF NextFrame, Ends, Waits, Holds, Locks
<1>2. CASE NextFrame
  <2>1. c'.canvas = <<c.replay, c.number + 1>> /\ c'.replay = c.replay
    BY <1>2, <1>0 DEF NextFrame, Streams
  <2>2. c.number + 1 # 0
    BY <1>0 DEF Streams
  <2>3. w'.at \in {"publish", "status"} /\ w'.slot = w.slot /\ w'.pending
    BY <1>2, <1>0 DEF NextFrame, AfterTick, Locals
  <2>4. c'.canvas[1] = c.replay /\ c'.canvas[2] # 0
    BY <2>1, <2>2
  <2> QED BY <1>1, <2>1, <2>3, <2>4
<1>3. CASE Ends \/ Waits \/ Holds
  <2>1. c'.canvas = c.canvas /\ c'.replay = c.replay
    BY <1>3, <1>0 DEF Ends, Waits, Holds, Streams
  <2>2. /\ w'.at \in {"publish", "status"} /\ w'.slot = w.slot /\ w'.pending = w.pending
        /\ w'.at = "publish" => w'.pending
    BY <1>3, <1>0 DEF Ends, Waits, Holds, AfterTick, Goto, Locals
  <2> QED BY <1>1, <2>1, <2>2
<1> QED BY <1>2, <1>3

\* What publication leaves of the round (lv_aic_apng_frames_publish).
LEMMA PublishSteps ==
  ASSUME TypeOK, Work, NEW i \in Slot, Publish(i) \/ PublishRefused \/ Copied
  PROVE  /\ UNCHANGED <<active, p, c>> /\ w.at \in {"publish", "copy"} /\ w.pending
         /\ \/ w'.at = "copy" /\ w'.slot # 0 /\ w'.pending /\ c.canvas[2] # 0
            \/ w'.at = "status" /\ w'.slot = 0
<1>0. w \in Locals /\ c.canvas \in Frame /\ pool.last \in Frame
  BY DEF TypeOK, FramesTypeOK, Streams
<1>1. UNCHANGED <<active, p, c>> /\ w.at \in {"publish", "copy"} /\ w.pending
  BY DEF Publish, PublishRefused, Copied, At, Work
<1>2. CASE Publish(i)
  <2>1. c.canvas # Nothing
    BY <1>2, <1>0 DEF Publish, Publishable, Newer, Nothing, Frame
  <2> QED BY <1>0, <1>1, <1>2, <2>1, Constants DEF Publish, Work, Locals
<1>3. CASE PublishRefused
  <2>1. w.slot = 0
    BY <1>3 DEF PublishRefused, At, Work
  <2> QED BY <1>0, <1>1, <1>3, <2>1 DEF PublishRefused, Locals
<1>4. CASE Copied
  BY <1>0, <1>1, <1>4 DEF Copied, Locals
<1> QED BY <1>2, <1>3, <1>4

\* Every step keeps what the worker publishes a composed frame.
LEMMA Works ==
  ASSUME PlaybackInv, [Next]_vars
  PROVE  Work'
<1> USE DEF PlaybackInv
<1>0. p \in Fields /\ w \in Locals /\ c \in Streams
  BY DEF TypeOK
<1>1. CASE Aside
  BY <1>1 DEF Aside, Work
<1>2. CASE NextFrame \/ Ends \/ Waits \/ Holds
  BY <1>2, TickSteps DEF Work
<1>3. ASSUME NEW i \in Slot, Publish(i) \/ PublishRefused \/ Copied PROVE Work'
  BY <1>3, PublishSteps DEF Work
<1>4. CASE UNCHANGED <<w, c>>
  BY <1>4 DEF Work
<1>5. CASE Prepare
  BY <1>5 DEF Prepare, Work, Idle
<1>6. CASE Finish
  BY <1>6 DEF Finish, Work, Idle, NoStream, Nothing
<1>7. CASE \E animated, ok \in BOOLEAN : Load(animated, ok)
  <2>1. c'.canvas = Nothing
    BY <1>7, Constants DEF Load, Streams, NoStream
  <2>2. w'.slot = w.slot /\ w.at = "load" /\ w'.at \in {"top", "nopool"}
    BY <1>7, <1>0 DEF Load, Locks, Goto, Locals
  <2> QED BY <2>1, <2>2 DEF Work
<1>8. CASE CloseMailbox
  <2>1. w'.slot = w.slot /\ w.at = "close" /\ w'.at = "finish" /\ c' = c
    BY <1>8, <1>0 DEF CloseMailbox, At, Goto, Locals
  <2> QED BY <2>1 DEF Work
<1>9. CASE Replay
  <2>1. w'.slot = w.slot /\ w.at = "restart" /\ w'.at = "restarted"
    BY <1>9, <1>0 DEF Replay, At, Locals
  <2>2. c'.canvas = c.canvas
    BY <1>9, <1>0 DEF Replay, Rewound, Streams
  <2> QED BY <2>1, <2>2 DEF Work
<1>10. CASE UNCHANGED vars
  BY <1>10, <1>4 DEF vars
<1>11. CASE Owner /\ ~Prepare
  BY <1>11, <1>4, OwnerMoves DEF Destroy
<1>12. Slot # {}
  BY SnapshotsAreTwoOrMore DEF Slot
<1> QED BY <1>1, <1>2, <1>3, <1>5, <1>6, <1>7, <1>8, <1>9, <1>10, <1>11, <1>12, AsideSteps
        DEF Next, Worker, Owner

\* Frames in the mailbox stay of the stream's replay if they come from the
\* mailbox, as they do in every step but a publication.
LEMMA StaysCurrent ==
  ASSUME Current, c'.replay = c.replay, c'.canvas = c.canvas, w'.pending => w.pending,
         w'.at # "none" => w.at # "none",
         \A i \in Slot : st'[i] \in {"READY", "CLAIMED"} =>
           st[i] \in {"READY", "CLAIMED"} /\ pic'[i] = pic[i]
  PROVE  Current'
BY DEF Current

\* So it is for the UI thread (lv_aic_apng_frames_poll, lv_aic_rgb_image.c).
LEMMA ImagesKeep ==
  ASSUME TypeOK, NEW j \in Slot, NEW ok \in BOOLEAN, Poll(j) \/ PollEnds(ok) \/ Images(j),
         NEW i \in Slot, st'[i] \in {"READY", "CLAIMED"}, MailboxAccounted
  PROVE  st[i] \in {"READY", "CLAIMED"} /\ pic'[i] = pic[i]
<1> USE DEF TypeOK, FramesTypeOK
<1>1. CASE Poll(j)
  BY <1>1 DEF Poll, PollClaim, First, Waiting
<1>2. CASE PollEnds(ok)
  <2>1. upoll \in Slot /\ st[upoll] = "CLAIMED"
    BY <1>2 DEF PollEnds, Slot, MailboxAccounted, SlotsAccounted
  <2> QED BY <1>2, <2>1 DEF PollEnds, PollImage, PollFails, Freed
<1>3. CASE Images(j)
  BY <1>3 DEF Images, ImageOpen, ImageClose, ImageDestroy, Freed
<1> QED BY <1>1, <1>2, <1>3

\* Every step keeps what is published current.
LEMMA Currents ==
  ASSUME PlaybackInv, [Next]_vars
  PROVE  Current'
<1> USE DEF PlaybackInv
<1>0. p \in Fields /\ w \in Locals /\ c \in Streams /\ upoll \in 0..Snapshots
  BY DEF TypeOK, FramesTypeOK
<1>1. CASE Aside
  BY <1>1, StaysCurrent DEF Aside
<1>2. CASE NextFrame \/ Ends \/ Waits \/ Holds
  BY <1>2, TickSteps DEF Current, frameVars
<1>3. ASSUME NEW i \in Slot, Publish(i) PROVE Current'
  <2>1. /\ w.at = "publish" /\ w.pending /\ UNCHANGED c
        /\ \A j \in Slot : st'[j] \in {"READY", "CLAIMED"} => st'[j] = st[j] /\ pic'[j] = pic[j]
    BY <1>3 DEF Publish, PublishBegin, At, Work, TypeOK, FramesTypeOK
  <2> QED BY <2>1 DEF Current
<1>4. CASE PublishRefused
  BY <1>4 DEF PublishRefused, At, Work, Current, frameVars
<1>5. CASE Copied
  <2>1. w.pending /\ w.at = "copy" /\ UNCHANGED c
    BY <1>5 DEF Copied, At, Work
  <2>2. ASSUME NEW j \in Slot, st'[j] \in {"READY", "CLAIMED"}
        PROVE  \/ pic'[j] = c.canvas
               \/ st[j] \in {"READY", "CLAIMED"} /\ pic'[j] = pic[j]
    BY <1>5, <2>2 DEF Copied, PublishEnd, TypeOK, FramesTypeOK
  <2> QED BY <2>1, <2>2 DEF Current
<1>6. CASE Prepare
  BY <1>6 DEF Prepare, Idle, Life, Free, Current, frameVars
<1>7. CASE Finish
  BY <1>7 DEF Finish, Idle, Current
<1>8. CASE \E animated, ok \in BOOLEAN : Load(animated, ok)
  <2>1. c'.canvas = Nothing /\ c'.replay = 0
    BY <1>8, Constants DEF Load, Streams, NoStream
  <2>2. w.at = "load" /\ UNCHANGED <<st, pic>>
    BY <1>8 DEF Load, Locks
  <2> QED BY <2>1, <2>2 DEF Current, Life, Nothing
<1>9. CASE CloseMailbox
  <2>1. w'.pending = w.pending /\ w.at = "close" /\ c' = c
    BY <1>9, <1>0 DEF CloseMailbox, At, Goto, Locals
  <2>2. \A i \in Slot : st'[i] \in {"READY", "CLAIMED"} =>
          st[i] \in {"READY", "CLAIMED"} /\ pic'[i] = pic[i]
    BY <1>9 DEF CloseMailbox, CloseFrames, Freed, TypeOK, FramesTypeOK
  <2> QED BY <2>1, <2>2, StaysCurrent
<1>10. CASE Replay
  <2>1. w'.pending = FALSE /\ w.at = "restart"
    BY <1>10, <1>0 DEF Replay, At, Locals, PendingAfterRestart
  <2>2. \A i \in Slot : st[i] # "CLAIMED"
    BY <2>1, Constants DEF Life, MailboxAccounted, SlotsAccounted
  <2>3. \A i \in Slot : st'[i] \notin {"READY", "CLAIMED"}
    BY <1>10, <2>2 DEF Replay, Discard, Freed, Waiting, TypeOK, FramesTypeOK
  <2> QED BY <2>1, <2>3 DEF Current
<1>11. CASE Destroy
  BY <1>11, StaysCurrent DEF Destroy
<1>12. ASSUME NEW j \in Slot, NEW ok \in BOOLEAN, Poll(j) \/ PollEnds(ok) \/ Images(j)
       PROVE  Current'
  BY <1>12, ImagesKeep, StaysCurrent DEF Poll, PollEnds, Images
<1>13. ASSUME NEW on \in BOOLEAN,
              Preserve(on) \/ Pause(on) \/ Start \/ Restart \/ Close \/ UNCHANGED vars
       PROVE  Current'
  BY <1>13, StaysCurrent
     DEF Preserve, SetPreserve, Pause, Start, Restart, Close, vars, frameVars
<1>14. Slot # {}
  BY SnapshotsAreTwoOrMore DEF Slot
<1> QED BY <1>1, <1>2, <1>3, <1>4, <1>5, <1>6, <1>7, <1>8, <1>9, <1>10, <1>11, <1>12, <1>13,
           <1>14, AsideSteps
        DEF Next, Worker, Owner

-----------------------------------------------------------------------------
(* The theorems *)

\* At any point between two sections the mailbox is accounted for: a slot is in
\* one pair of hands, the worker publishes whole frames, and those are of the
\* replay that it plays (lv_aic_apng_playback.c, lv_aic_apng_frames.c).
THEOREM PlaybackIsConsistent == Spec => []PlaybackInv
<1>1. Init => PlaybackInv
  <2> SUFFICES ASSUME Init PROVE PlaybackInv
    OBVIOUS
  <2>1. TypeOK
    BY Constants DEF Init, FramesInit, TypeOK, FramesTypeOK, SlotStates
  <2>2. MailboxAccounted /\ Life
    BY Constants DEF Init, FramesInit, MailboxAccounted, SlotsAccounted, Life, Idle, Fresh,
       NoStream, Nothing, Free
  <2>3. Work /\ Current
    BY DEF Init, FramesInit, Work, Current, Idle, NoStream, Nothing
  <2> QED BY <2>1, <2>2, <2>3 DEF PlaybackInv
<1>2. PlaybackInv /\ [Next]_vars => PlaybackInv'
  BY Types, Mailbox, Lives, Works, Currents DEF PlaybackInv
<1> QED BY <1>1, <1>2, PTL DEF Spec

\* Nobody writes to the pixels of an image, or of one being made
\* (lv_aic_apng_frames_publish takes READY and FREE slots only).
THEOREM PicturesAreStable == Spec => []PictureIsStable
<1>1. PlaybackInv => PictureIsStable
  <2> SUFFICES ASSUME PlaybackInv, NEW i \in Slot, image[i] # "none" \/ upoll = i
               PROVE  pic[i][2] > 0
    BY DEF PictureIsStable
  <2>1. pic[i][2] # 0
    BY DEF PlaybackInv, MailboxAccounted, SlotsAccounted
  <2>2. pic[i][2] \in Nat
    BY PlaybackConstants DEF PlaybackInv, TypeOK, FramesTypeOK, Frame
  <2> QED BY <2>1, <2>2
<1> QED BY <1>1, PlaybackIsConsistent, PTL

\* A replay that is reported done leaves nothing from before it in the mailbox
\* (the worker's restart branch discards what waits, and poll does not run).
THEOREM ReplaysAreFresh == Spec => []ReplayIsFresh
<1>1. PlaybackInv => ReplayIsFresh
  <2> SUFFICES ASSUME PlaybackInv, ~p.restart, ~p.closing, NEW i \in Slot,
                      st[i] \in {"WRITING", "READY", "CLAIMED"}
               PROVE  (IF st[i] = "WRITING" THEN c.canvas ELSE pic[i])[1] = p.restarts
    BY DEF ReplayIsFresh
  <2>1. w.at # "none" /\ c.replay = p.restarts
    BY DEF PlaybackInv, Life, Free
  <2>2. CASE st[i] = "WRITING"
    <3>1. w.at = "copy"
      BY <2>2, Constants DEF PlaybackInv, MailboxAccounted, Work
    <3> QED BY <2>1, <2>2, <3>1 DEF PlaybackInv, Work, Current
  <2>3. CASE st[i] # "WRITING"
    BY <2>1, <2>3 DEF PlaybackInv, Current
  <2> QED BY <2>2, <2>3
<1> QED BY <1>1, PlaybackIsConsistent, PTL

-----------------------------------------------------------------------------
(* The order of frames.  The rest of this module shows that none is skipped: *)
(* what holds between two sections, in three parts.                          *)

\* The slots whose frame waits for the UI thread, or is in its hands.
InHand == {i \in Slot : st[i] \in {"READY", "CLAIMED"}}
Held(f) == \E i \in InHand : pic[i] = f

\* The places of a round of the worker that does not close.
Round == {"restart", "restarted", "control", "tick", "decide", "publish", "copy", "status"}

\* When there is a mailbox, when it is closed, and what it then holds.
Shape ==
  /\ ~pool.made => ~pool.preserve /\ ~pool.closed /\ Waiting = {} /\ upoll = 0
  /\ pool.made => pool.preserve = p.preserve
  /\ pool.closed => p.closing /\ Waiting = {} /\ w.at \notin Round
  /\ w.at = "finish" => pool.closed \/ ~pool.made
  /\ w.at = "none" => Waiting = {} /\ upoll = 0 /\ c = NoStream /\ h = NoHistory /\ ~w.pending
  /\ ~active \/ w.at \in {"load", "nopool"} =>
       ~pool.made /\ pool.last = Nothing /\ h.shown = Nothing /\ c.canvas = Nothing /\ ~w.pending
  /\ w.at \in Round \/ (w.at = "top" /\ ~p.closing) => pool.made

\* Frames grow from the one shown, over those in hand, to the last published and
\* to the canvas, which is the newest frame of the timeline.
Order ==
  /\ c.canvas[1] <= c.replay /\ c.number = (IF c.canvas[1] = c.replay THEN c.canvas[2] ELSE 0)
  /\ w.at # "none" => /\ ~Newer(pool.last, c.canvas) /\ ~Newer(h.shown, pool.last)
                      /\ ~Newer(h.mark, c.canvas)
  /\ w.pending => Newer(c.canvas, pool.last)
  /\ \A i \in InHand : Newer(pic[i], h.shown) /\ ~Newer(pic[i], pool.last)
  /\ \A i, j \in InHand : st[i] = "READY" => i = j \/ (st[j] = "CLAIMED" /\ Newer(pic[i], pic[j]))
  /\ w.at = "copy" \/ (pool.preserve /\ upoll # 0) => Waiting = {}
  /\ pool.preserve /\ upoll # 0 => w.at # "copy"

\* A frame composed under the policy follows the one that is shown.
Prev(f) == <<f[1], f[2] - 1>>
Follows(f) == f[2] > 1 /\ Newer(Prev(f), h.mark) => h.shown = Prev(f)

\* Under the policy the frames in hand and the one being copied follow the one
\* shown; the canvas follows it, too, or one in hand, or was shown, or is in hand
\* itself; and nothing is composed but on top of what was shown.
Keep ==
  p.preserve =>
    /\ ~w.preserve /\ w.at \in {"restart", "restarted", "control", "tick"} => h.mark = c.canvas
    /\ \A i \in InHand : Follows(pic[i])
    /\ w.at = "copy" => Follows(c.canvas)
    /\ w.pending /\ w.at # "copy" /\ ~pool.closed => Follows(c.canvas) \/ Held(Prev(c.canvas))
    /\ ~w.pending /\ ~pool.closed /\ c.canvas[1] = c.replay /\ Newer(c.canvas, h.mark) =>
         h.shown = c.canvas \/ Held(c.canvas)
    /\ w.at = "tick" /\ w.preserve /\ Newer(c.canvas, h.mark) => ~w.pending /\ ~Pending

\* Frames are ordered.
LEMMA NewerOrders ==
  ASSUME NEW f \in Frame, NEW g \in Frame, NEW k \in Frame
  PROVE  /\ ~Newer(f, f)
         /\ Newer(f, g) \/ Newer(g, f) \/ f = g
         /\ Newer(f, g) => ~Newer(g, f)
         /\ ~Newer(g, f) /\ ~Newer(k, g) => ~Newer(k, f)
         /\ Newer(f, g) /\ ~Newer(k, g) => Newer(f, k)
         /\ ~Newer(g, f) /\ Newer(g, k) => Newer(f, k)
BY DEF Frame, Newer

\* Nothing comes between a frame and the one before it.
LEMMA PrevIsNext ==
  ASSUME NEW f \in Frame, NEW g \in Frame, f[2] > 1
  PROVE  /\ Prev(f) \in Frame /\ Newer(f, Prev(f))
         /\ ~(Newer(g, Prev(f)) /\ Newer(f, g))
BY PlaybackConstants DEF Frame, Newer, Prev

-----------------------------------------------------------------------------
(* The mailbox's life *)

\* The types of the parts.
LEMMA Parts ==
  ASSUME PlaybackInv
  PROVE  /\ p \in Fields /\ w \in Locals /\ c \in Streams /\ upoll \in 0..Snapshots
         /\ pool \in [made : BOOLEAN, closed : BOOLEAN, preserve : BOOLEAN, last : Frame]
         /\ st \in [Slot -> SlotStates] /\ pic \in [Slot -> Frame]
         /\ h \in [shown : Frame, mark : Frame]
         /\ c.canvas \in Frame /\ pool.last \in Frame /\ h.shown \in Frame /\ h.mark \in Frame
         /\ c.replay \in Nat /\ c.number \in Nat
BY DEF PlaybackInv, TypeOK, FramesTypeOK, Streams

\* There is a slot.
LEMMA Slotted == Slot # {}
BY SnapshotsAreTwoOrMore DEF Slot

\* The UI thread (lv_aic_apng_playback_prepare to _destroy).
LEMMA OwnerShapes ==
  ASSUME PlaybackInv, Shape, Owner
  PROVE  Shape'
<1>1. CASE Prepare
  BY <1>1, Parts
    DEF Prepare, Shape, Fresh, Idle, NoHistory, NoStream, NoPool, frameVars, Waiting, PlaybackInv,
        Life, Free, Round
<1>2. CASE Destroy
  BY <1>2, Parts
    DEF Destroy, Shape, Fresh, NoHistory, NoStream, NoPool, Waiting, PlaybackInv, Life, Free,
        Round, Ui
<1>3. ASSUME NEW on \in BOOLEAN, Preserve(on) PROVE Shape'
  <2>1. /\ pool'.preserve = (on /\ pool.made) /\ pool'.made = pool.made
        /\ pool'.closed = pool.closed /\ pool'.last = pool.last
    BY <1>3, Parts DEF Preserve, SetPreserve
  <2>2. p'.preserve = on /\ p'.closing = p.closing /\ h'.shown = h.shown
    BY <1>3, Parts DEF Preserve, Fields
  <2>3. active /\ UNCHANGED <<active, st, upoll, w, c>> /\ w.at # "none"
    BY <1>3 DEF Preserve, SetPreserve, Ui, PlaybackInv, Life
  <2>4. Waiting' = Waiting
    BY <2>3 DEF Waiting
  <2> QED BY <2>1, <2>2, <2>3, <2>4 DEF Shape
<1>4. ASSUME NEW on \in BOOLEAN, Start \/ Pause(on) \/ Restart \/ Close PROVE Shape'
  <2>1. p'.preserve = p.preserve /\ (p.closing => p'.closing)
    BY <1>4, Parts DEF Start, Pause, Restart, Close, Fields
  <2> QED BY <1>4, <2>1 DEF Start, Pause, Restart, Close, frameVars, Shape, Waiting
<1>5. ASSUME NEW i \in Slot, Poll(i) PROVE Shape'
  <2>1. Waiting' \subseteq Waiting
    BY <1>5, Parts DEF Poll, PollClaim, Waiting
  <2> QED BY <1>5, <2>1 DEF Poll, PollClaim, Shape, First
<1>6. ASSUME NEW ok \in BOOLEAN, PollEnds(ok) PROVE Shape'
  <2>1. upoll \in Slot /\ upoll # 0
    BY <1>6, Parts DEF PollEnds, Slot
  <2>2. pool.closed => Waiting' = {}
    BY <1>6, Parts, <2>1 DEF PollEnds, PollImage, PollFails, Requeues, Freed, Waiting, Shape
  <2>3. h' = h \/ h'.shown = pic[upoll]
    BY <1>6, Parts DEF PollEnds
  <2>4. w.at # "none" /\ w.at \notin {"load", "nopool"} /\ active
    BY <2>1 DEF Shape, NoPool
  <2>5. upoll' = 0 /\ UNCHANGED <<pool, active, p, w, c>>
    BY <1>6 DEF PollEnds, PollImage, PollFails
  <2> QED BY <2>1, <2>2, <2>4, <2>5 DEF Shape
<1>7. ASSUME NEW i \in Slot, Images(i) PROVE Shape'
  <2>1. Waiting' = Waiting
    BY <1>7, Parts
      DEF Images, ImageOpen, ImageClose, ImageDestroy, Freed, Waiting, PlaybackInv,
          MailboxAccounted, SlotsAccounted
  <2> QED BY <1>7, <2>1 DEF Images, ImageOpen, ImageClose, ImageDestroy, Shape
<1> QED BY <1>1, <1>2, <1>3, <1>4, <1>5, <1>6, <1>7, Slotted DEF Owner

\* The worker: it makes the mailbox when it has loaded the file, and closes it in its
\* last round only.
LEMMA WorkerShapes ==
  ASSUME PlaybackInv, Shape, Worker
  PROVE  Shape'
<1> USE DEF At, Locks, Goto
<1>1. ASSUME NEW animated \in BOOLEAN, NEW ok \in BOOLEAN, Load(animated, ok) PROVE Shape'
  <2>1. /\ ~pool.made /\ pool.last = Nothing /\ w.at = "load" /\ Waiting = {} /\ upoll = 0
        /\ h.shown = Nothing /\ ~w.pending
    BY <1>1 DEF Load, Shape, NoPool
  <2>2. p'.preserve = p.preserve /\ p'.closing = p.closing /\ p.preserve \in BOOLEAN
    BY <1>1, Parts DEF Load, Fields
  <2>3. c'.canvas = Nothing
    BY <1>1, Constants DEF Load, NoStream, Streams
  <2>4. w'.pending = w.pending /\ w'.at = IF ok THEN "top" ELSE "nopool"
    BY <1>1, Parts DEF Load, Locals
  <2>5. active /\ UNCHANGED <<st, upoll, active, h>>
    BY <1>1, <2>1 DEF Load, PlaybackInv, Life
  <2>6. Waiting' = Waiting
    BY <2>5 DEF Waiting
  <2>7. CASE ok
    <3>1. pool'.made /\ ~pool'.closed /\ pool'.preserve = p.preserve
      BY <1>1, <2>7, <2>2 DEF Load, Make, NoPool
    <3> QED BY <2>1, <2>2, <2>3, <2>4, <2>5, <2>6, <2>7, <3>1 DEF Shape, Round
  <2>8. CASE ~ok
    <3>1. pool' = pool
      BY <1>1, <2>1, <2>8 DEF Load
    <3> QED BY <2>1, <2>2, <2>3, <2>4, <2>5, <2>6, <2>8, <3>1 DEF Shape, Round, NoPool
  <2> QED BY <2>7, <2>8
<1>2. ASSUME NEW place \in {"load", "nopool", "restart", "control", "tick"}, Fault(place)
      PROVE  Shape'
  <2>1. p'.preserve = p.preserve /\ p'.closing
    BY <1>2, Parts DEF Fault, Faulted, Fields
  <2>2. w'.at = "top" /\ w'.pending = w.pending /\ w.at # "none"
    BY <1>2, Parts DEF Fault, Locals
  <2> QED BY <1>2, <2>1, <2>2 DEF Fault, Shape, frameVars, Waiting, Round, PlaybackInv, Life
<1>3. CASE Top
  <2>1. w'.at = (IF p.closing THEN "close" ELSE IF p.restart THEN "restart" ELSE "control")
        /\ w'.pending = w.pending /\ w.at = "top"
    BY <1>3, Parts DEF Top, Locals
  <2> QED BY <1>3, <2>1 DEF Top, Shape, frameVars, Waiting, Round, PlaybackInv, Life
<1>4. CASE CloseMailbox
  <2>1. Waiting' = {}
    BY <1>4, Parts DEF CloseMailbox, CloseFrames, Freed, Waiting, Dropped
  <2>2. w.at = "close" /\ w'.at = "finish" /\ w'.pending = w.pending /\ p.closing
    BY <1>4, Parts DEF CloseMailbox, Locals, PlaybackInv, Life
  <2>3. /\ pool'.closed = (pool.closed \/ pool.made) /\ pool'.made = pool.made
        /\ pool'.preserve = pool.preserve
    BY <1>4, Parts DEF CloseMailbox, CloseFrames
  <2> QED BY <1>4, <2>1, <2>2, <2>3 DEF CloseMailbox, CloseFrames, Shape, Round, PlaybackInv, Life
<1>5. CASE Finish
  <2>1. p'.preserve = p.preserve /\ p'.closing = p.closing
    BY <1>5, Parts DEF Finish, Fields
  <2>2. w.at = "finish" /\ w'.at = "none" /\ ~w'.pending /\ upoll = 0
    BY <1>5, Parts DEF Finish, Idle
  <2> QED BY <1>5, <2>1, <2>2
     DEF Finish, Shape, Round, PlaybackInv, Life, frameVars, Waiting, NoHistory, NoStream
<1>6. CASE CloseLater
  <2>1. w.at = "finish" /\ w'.at = "top" /\ w'.pending = w.pending
    BY <1>6, Parts DEF CloseLater, Locals
  <2> QED BY <1>6, <2>1 DEF CloseLater, Shape, Round, PlaybackInv, Life, frameVars, Waiting
<1>7. CASE Replay
  <2>1. w.at = "restart" /\ w'.at = "restarted"
    BY <1>7, Parts DEF Replay, Locals
  <2>2. Waiting' \subseteq Waiting
    BY <1>7, Parts DEF Replay, Discard, Freed, Waiting
  <2> QED BY <1>7, <2>1, <2>2 DEF Replay, Discard, Shape, Round, PlaybackInv, Life
<1>8. CASE Replayed
  <2>1. w.at = "restarted" /\ w'.at = "control"
    BY <1>8, Parts DEF Replayed, Locals
  <2>2. p'.preserve = p.preserve /\ p'.closing = p.closing
    BY <1>8, Parts DEF Replayed, Fields
  <2> QED BY <1>8, <2>1, <2>2 DEF Replayed, Shape, Round, PlaybackInv, Life, frameVars, Waiting
<1>9. CASE Control
  <2>1. w.at = "control" /\ w'.at \in {"tick", "decide"}
    BY <1>9, Parts DEF Control, Locals
  <2> QED BY <1>9, <2>1 DEF Control, Shape, Round, PlaybackInv, Life, frameVars, Waiting
<1>10. CASE NextFrame \/ Ends \/ Waits \/ Holds
  <2>1. UNCHANGED Waiting /\ UNCHANGED h
    BY <1>10, TickSteps DEF PlaybackInv, frameVars, Waiting, NextFrame, Ends, Waits, Holds
  <2> QED BY <1>10, <2>1, TickSteps DEF PlaybackInv, Shape, Round, Life, frameVars
<1>11. ASSUME NEW i \in Slot, Publish(i) \/ PublishRefused \/ Copied PROVE Shape'
  <2>1. /\ UNCHANGED <<active, p, c, h>> /\ w.at \in {"publish", "copy"}
        /\ w'.at \in {"copy", "status"}
    BY <1>11, PublishSteps DEF PlaybackInv, Publish, PublishRefused, Copied
  <2>2. pool.made /\ ~pool.closed /\ w.at # "none" /\ active
    BY <2>1 DEF Shape, Round, PlaybackInv, Life
  <2>3. /\ pool'.made = pool.made /\ pool'.closed = pool.closed
        /\ pool'.preserve = pool.preserve
    BY <1>11, Parts DEF Publish, PublishBegin, PublishRefused, Copied, PublishEnd, frameVars
  <2> QED BY <2>1, <2>2, <2>3 DEF Shape, Round
<1>12. CASE Report
  <2>1. w.at = "status" /\ w'.at = "top"
    BY <1>12, Parts DEF Report, Locals
  <2>2. p'.preserve = p.preserve /\ p'.closing = p.closing
    BY <1>12, Parts DEF Report, Fields
  <2> QED BY <1>12, <2>1, <2>2 DEF Report, Shape, Round, PlaybackInv, Life, frameVars, Waiting
<1> QED BY <1>1, <1>2, <1>3, <1>4, <1>5, <1>6, <1>7, <1>8, <1>9, <1>10, <1>11, <1>12, Slotted
   DEF Worker

\* Every step.
LEMMA Shapes ==
  ASSUME PlaybackInv, Shape, [Next]_vars
  PROVE  Shape'
<1>1. CASE UNCHANGED vars
  BY <1>1 DEF vars, frameVars, Shape, Waiting
<1> QED BY <1>1, OwnerShapes, WorkerShapes DEF Next

-----------------------------------------------------------------------------
(* The order of what is in hand *)

\* A step that moves neither the canvas nor what was published or shown, and hands
\* on no frame.
Quiet ==
  /\ c'.canvas = c.canvas /\ c'.replay = c.replay /\ c'.number = c.number
  /\ h' = h /\ pool'.last = pool.last
  /\ w'.at # "none" => w.at # "none"
  /\ w'.at = "copy" => w.at = "copy"
  /\ w'.pending => w.pending
  /\ \A i \in InHand' : i \in InHand /\ pic'[i] = pic[i] /\ st'[i] = st[i]
  /\ pool'.preserve /\ upoll' # 0 => pool.preserve /\ upoll # 0

\* It leaves the frames in order.
LEMMA QuietOrders ==
  ASSUME Order, Quiet
  PROVE  Order'
<1>1. Waiting' \subseteq Waiting
  BY DEF Quiet, InHand, Waiting
<1> QED BY <1>1 DEF Order, Quiet

\* The requests, and the end of images (lv_aic_apng_playback_start to _close,
\* lv_aic_rgb_image.c).
LEMMA OwnerQuiet ==
  ASSUME PlaybackInv, NEW on \in BOOLEAN, NEW i \in Slot,
         Start \/ Pause(on) \/ Restart \/ Close \/ Images(i)
  PROVE  Quiet
<1>1. UNCHANGED <<w, c, h, pool, upoll>>
  BY DEF Start, Pause, Restart, Close, Images, ImageOpen, ImageClose, ImageDestroy, frameVars
<1>2. ASSUME NEW j \in InHand' PROVE j \in InHand /\ pic'[j] = pic[j] /\ st'[j] = st[j]
  <2>1. CASE Start \/ Pause(on) \/ Restart \/ Close
    BY <2>1, <1>2 DEF Start, Pause, Restart, Close, frameVars, InHand
  <2>2. CASE Images(i)
    BY <2>2, <1>2, Parts DEF Images, ImageOpen, ImageClose, ImageDestroy, Freed, InHand
  <2> QED BY <2>1, <2>2
<1> QED BY <1>1, <1>2 DEF Quiet

\* The worker but for its timeline and publication (worker, fault).
LEMMA WorkerQuiet ==
  ASSUME PlaybackInv, NEW place \in {"load", "nopool", "restart", "control", "tick"},
         \/ Fault(place) \/ Top \/ CloseMailbox \/ CloseLater \/ Replayed \/ Control
         \/ Ends \/ Waits \/ Holds \/ PublishRefused \/ Report
  PROVE  Quiet
<1> USE DEF At, Locks, Goto
<1>1. c'.canvas = c.canvas /\ c'.replay = c.replay /\ c'.number = c.number /\ h' = h
  BY Parts DEF Fault, Top, CloseMailbox, CloseLater, Replayed, Control, Ends, Waits, Holds,
               PublishRefused, Report, Streams
<1>2. /\ w.at # "none" /\ w'.at # "copy"
      /\ w'.pending => w.pending
  <2>1. CASE Fault(place) \/ Top \/ CloseMailbox \/ CloseLater \/ Replayed \/ Control \/ Report
    BY <2>1, Parts DEF Fault, Top, CloseMailbox, CloseLater, Replayed, Control, Report, Locals
  <2>2. CASE Ends \/ Waits \/ Holds
    BY <2>2, Parts DEF Ends, Waits, Holds, AfterTick, Locals
  <2>3. CASE PublishRefused
    BY <2>3, Parts DEF PublishRefused, Locals, PlaybackInv, Work
  <2> QED BY <2>1, <2>2, <2>3
<1>3. pool'.last = pool.last /\ pool'.preserve = pool.preserve /\ upoll' = upoll
  BY Parts DEF Fault, Top, CloseMailbox, CloseFrames, CloseLater, Replayed, Control, Ends, Waits,
               Holds, PublishRefused, Report, frameVars
<1>4. ASSUME NEW j \in InHand' PROVE j \in InHand /\ pic'[j] = pic[j] /\ st'[j] = st[j]
  <2>1. CASE CloseMailbox
    BY <1>4, <2>1, Parts DEF CloseMailbox, CloseFrames, Freed, InHand
  <2>2. CASE UNCHANGED <<st, pic>>
    BY <1>4, <2>2 DEF InHand
  <2> QED BY <2>1, <2>2 DEF Fault, Top, CloseLater, Replayed, Control, Ends, Waits, Holds,
               PublishRefused, Report, frameVars
<1> QED BY <1>1, <1>2, <1>3, <1>4 DEF Quiet

\* The UI thread: what it shows is older than what still waits (lv_aic_apng_frames_poll).
LEMMA OwnerOrders ==
  ASSUME PlaybackInv, Shape, Order, Owner
  PROVE  Order'
<1>1. CASE Prepare
  <2>1. w.at = "none" /\ c = NoStream /\ h = NoHistory /\ ~active
    BY <1>1 DEF Prepare, PlaybackInv, Life, Shape
  <2>2. Waiting = {} /\ upoll = 0 /\ pool.last = Nothing /\ ~pool.made
    BY <2>1 DEF Shape
  <2>3. InHand' = {}
    BY <1>1, <2>1, Parts DEF Prepare, PlaybackInv, Life, Free, InHand, frameVars
  <2>4. ~Newer(Nothing, Nothing)
    BY NewerOrders, Constants
  <2>5. w'.at = "load" /\ ~w'.pending /\ UNCHANGED <<pool, st, upoll, c, h>>
    BY <1>1 DEF Prepare, Idle, frameVars
  <2>6. Waiting' = Waiting
    BY <2>5 DEF Waiting
  <2> QED BY <2>1, <2>2, <2>3, <2>4, <2>5, <2>6 DEF Order, NoStream, NoHistory
<1>2. CASE Destroy
  <2>1. w.at = "none" /\ UNCHANGED <<w, c, upoll, st>> /\ w'.at = "none"
    BY <1>2 DEF Destroy, PlaybackInv, Life, Ui
  <2>2. InHand' = {} /\ Waiting' = {}
    BY <1>2, Parts DEF Destroy, InHand, Waiting, Free
  <2>3. ~w.pending /\ c = NoStream
    BY <2>1 DEF Shape
  <2> QED BY <2>1, <2>2, <2>3 DEF Order, NoStream
<1>3. ASSUME NEW on \in BOOLEAN, Preserve(on) PROVE Order'
  <2>1. upoll' = 0 /\ UNCHANGED <<w, c, st, pic>> /\ pool'.last = pool.last
    BY <1>3, Parts DEF Preserve, SetPreserve, Ui
  <2>2. h'.shown = h.shown /\ (h'.mark = h.mark \/ h'.mark = c.canvas)
    BY <1>3, Parts DEF Preserve
  <2>3. ~Newer(c.canvas, c.canvas)
    BY NewerOrders, Parts
  <2>4. Waiting' = Waiting /\ InHand' = InHand
    BY <2>1 DEF Waiting, InHand
  <2> QED BY <2>1, <2>2, <2>3, <2>4 DEF Order
<1>4. ASSUME NEW on \in BOOLEAN, NEW i \in Slot,
             Start \/ Pause(on) \/ Restart \/ Close \/ Images(i)
      PROVE  Order'
  BY <1>4, OwnerQuiet, QuietOrders
<1>5. ASSUME NEW i \in Slot, Poll(i) PROVE Order'
  <2>1. /\ UNCHANGED <<pool, w, c, h, pic>> /\ st' = [st EXCEPT ![i] = "CLAIMED"]
        /\ upoll = 0 /\ i \in Waiting
    BY <1>5 DEF Poll, PollClaim, Ui, First
  <2>2. InHand' = InHand /\ i \in InHand
    BY <2>1, Parts DEF InHand, Waiting
  <2>3. \A j \in Slot : st[j] # "CLAIMED"
    BY <2>1, Constants DEF PlaybackInv, MailboxAccounted, SlotsAccounted
  <2>4. \A j \in InHand : j = i
    BY <2>1, <2>2, <2>3 DEF Order, InHand, Waiting
  <2>5. Waiting' = {} /\ w.at # "copy"
    BY <2>1, <2>4, Parts DEF Waiting, InHand, Order
  <2> QED BY <2>1, <2>2, <2>4, <2>5 DEF Order
<1>6. ASSUME NEW ok \in BOOLEAN, PollEnds(ok) PROVE Order'
  <2>1. upoll \in Slot /\ upoll # 0 /\ st[upoll] = "CLAIMED" /\ upoll' = 0
    BY <1>6, Parts DEF PollEnds, Slot, PlaybackInv, MailboxAccounted, SlotsAccounted,
                       PollImage, PollFails
  <2>2. UNCHANGED <<pool, w, c>> /\ w.at # "none"
    BY <1>6, <2>1 DEF PollEnds, PollImage, PollFails, Shape
  <2>3. upoll \in InHand
    BY <2>1 DEF InHand
  <2>4. CASE ok
    <3>1. UNCHANGED pic /\ h'.shown = pic[upoll] /\ h'.mark = h.mark
      BY <1>6, <2>4, Parts DEF PollEnds, PollImage
    <3>2. st' = [st EXCEPT ![upoll] = "LEASED"]
      BY <1>6, <2>4 DEF PollEnds, PollImage
    <3>3. \A j \in InHand' : j \in InHand /\ st[j] = "READY" /\ st'[j] = "READY"
      BY <2>1, <3>2, Parts DEF InHand, PlaybackInv, MailboxAccounted, SlotsAccounted
    <3>4. Waiting' = Waiting
      BY <2>1, <3>2, Parts DEF Waiting
    <3>5. ~Newer(pic[upoll], pool.last)
      BY <2>3 DEF Order
    <3>6. \A j \in InHand' : Newer(pic[j], pic[upoll]) /\ ~Newer(pic[j], pool.last)
      BY <2>1, <2>3, <3>3 DEF Order
    <3>7. \A j, k \in InHand' : j = k
      BY <3>3 DEF Order
    <3> QED BY <2>1, <2>2, <3>1, <3>3, <3>4, <3>5, <3>6, <3>7 DEF Order
  <2>5. CASE ~ok /\ Requeues
    <3>1. UNCHANGED <<pic, h>> /\ st' = [st EXCEPT ![upoll] = "READY"]
      BY <1>6, <2>5 DEF PollEnds, PollFails
    <3>2. pool.preserve /\ Waiting = {} /\ w.at # "copy"
      BY <2>1, <2>5 DEF Order, Requeues
    <3>3. \A j \in InHand' : j = upoll
      BY <2>1, <3>1, <3>2, Parts
        DEF InHand, Waiting, PlaybackInv, MailboxAccounted, SlotsAccounted
    <3> QED BY <2>1, <2>2, <2>3, <3>1, <3>2, <3>3 DEF Order
  <2>6. CASE ~ok /\ ~Requeues
    <3>1. UNCHANGED h /\ Freed({upoll})
      BY <1>6, <2>6 DEF PollEnds, PollFails
    <3>2. \A j \in InHand' : j \in InHand /\ pic'[j] = pic[j] /\ st'[j] = st[j]
      BY <3>1, Parts DEF InHand, Freed
    <3> QED BY <2>1, <2>2, <3>1, <3>2, QuietOrders DEF Quiet
  <2> QED BY <2>4, <2>5, <2>6
<1> QED BY <1>1, <1>2, <1>3, <1>4, <1>5, <1>6, Slotted DEF Owner

\* Nothing waits and no poll is going on: nothing is in hand.
LEMMA NoneInHand ==
  ASSUME PlaybackInv, Waiting = {}, upoll = 0
  PROVE  InHand = {}
<1>1. SUFFICES ASSUME NEW i \in Slot, st[i] = "CLAIMED" PROVE FALSE
  BY DEF InHand, Waiting
<1>2. upoll = i
  BY <1>1 DEF PlaybackInv, MailboxAccounted, SlotsAccounted
<1> QED BY <1>2, Constants

\* The worker: what it composes is newer than all before, and so is what it publishes
\* (lv_aic_apng_stream_tick, lv_aic_apng_frames_publish).
LEMMA WorkerOrders ==
  ASSUME PlaybackInv, Shape, Order, Worker
  PROVE  Order'
<1>1. ASSUME NEW animated \in BOOLEAN, NEW ok \in BOOLEAN, Load(animated, ok) PROVE Order'
  <2>1. /\ w.at = "load" /\ ~pool.made /\ h.shown = Nothing /\ c.canvas = Nothing /\ ~w.pending
        /\ Waiting = {} /\ upoll = 0 /\ pool.last = Nothing
    BY <1>1 DEF Load, Locks, Shape
  <2>2. UNCHANGED <<st, pic, upoll, h>>
    BY <1>1 DEF Load
  <2>3. InHand' = {} /\ Waiting' = {}
    BY <2>1, <2>2, NoneInHand DEF InHand, Waiting
  <2>4. c'.canvas = Nothing /\ c'.replay = 0 /\ c'.number = 0
    BY <1>1, Constants DEF Load, NoStream, Streams
  <2>5. pool'.last = Nothing
    BY <1>1, <2>1 DEF Load, Make, NoPool
  <2>6. ~w'.pending /\ w'.at # "copy"
    BY <1>1, <2>1, Parts DEF Load, Goto, Locals
  <2>7. ~Newer(Nothing, Nothing)
    BY NewerOrders, Constants
  <2>8. ~Newer(h.mark, Nothing)
    BY <2>1 DEF Order
  <2> QED BY <2>1, <2>2, <2>3, <2>4, <2>5, <2>6, <2>7, <2>8 DEF Order, Nothing
<1>2. ASSUME NEW place \in {"load", "nopool", "restart", "control", "tick"},
             \/ Fault(place) \/ Top \/ CloseMailbox \/ CloseLater \/ Replayed \/ Control
             \/ Ends \/ Waits \/ Holds \/ PublishRefused \/ Report
      PROVE  Order'
  BY <1>2, WorkerQuiet, QuietOrders
<1>3. CASE Finish
  <2>1. w'.at = "none" /\ ~w'.pending /\ c' = NoStream /\ UNCHANGED <<st, upoll>> /\ upoll = 0
    BY <1>3 DEF Finish, Idle, frameVars, Locks
  <2>2. Waiting = {}
    BY <1>3 DEF Finish, Locks, Shape
  <2>3. InHand' = {} /\ Waiting' = {}
    BY <2>1, <2>2, NoneInHand DEF InHand, Waiting
  <2> QED BY <2>1, <2>3 DEF Order, NoStream, Nothing
<1>4. CASE Replay
  <2>1. /\ w.at = "restart" /\ w'.at = "restarted" /\ ~w'.pending /\ UNCHANGED <<pool, upoll, h>>
        /\ upoll = 0
    BY <1>4, Parts DEF Replay, At, PendingAfterRestart, Discard, Locals, PlaybackInv, Life
  <2>2. c'.canvas = c.canvas /\ c'.replay = c.replay + 1 /\ c'.number = 0
    BY <1>4, Parts DEF Replay, Rewound, Streams
  <2>3. Freed(Waiting)
    BY <1>4 DEF Replay, Discard
  <2>4. InHand' = {} /\ Waiting' = {}
    <3>1. \A i \in Slot : st[i] # "CLAIMED"
      BY <2>1, Constants DEF PlaybackInv, MailboxAccounted, SlotsAccounted
    <3>2. \A i \in Slot : st'[i] = IF st[i] = "READY" THEN "FREE" ELSE st[i]
      BY <2>3 DEF Freed, Waiting
    <3> QED BY <3>1, <3>2 DEF InHand, Waiting
  <2>5. c.canvas[1] <= c.replay /\ c.canvas[1] \in Nat
    BY Parts, PlaybackConstants DEF Order, Frame
  <2> QED BY <2>1, <2>2, <2>4, <2>5, Parts DEF Order
<1>5. CASE NextFrame
  <2>1. /\ w.at = "tick" /\ w'.at \in {"publish", "status"} /\ w'.pending
        /\ UNCHANGED <<pool, st, pic, upoll, h>>
    BY <1>5, Parts DEF NextFrame, Locks, AfterTick, Locals, frameVars
  <2>2. c'.canvas = <<c.replay, c.number + 1>> /\ c'.replay = c.replay /\ c'.number = c.number + 1
    BY <1>5, Parts DEF NextFrame, Streams
  <2>3. c'.canvas \in Frame
    BY <1>5, <2>2, Parts, PlaybackConstants DEF NextFrame, Frame, Streams
  <2>4. Newer(c'.canvas, c.canvas)
    <3>1. /\ c.canvas[1] <= c.replay /\ (c.canvas[1] = c.replay => c.number = c.canvas[2])
          /\ c.canvas[1] \in Nat /\ c.canvas[2] \in Nat
      BY Parts, PlaybackConstants DEF Order, Frame
    <3>2. c'.canvas[1] = c.replay /\ c'.canvas[2] = c.number + 1
      BY <2>2
    <3> QED BY <3>1, <3>2, Parts DEF Newer
  <2>5. /\ Newer(c'.canvas, pool.last) /\ ~Newer(pool.last, c'.canvas)
        /\ ~Newer(h.mark, c'.canvas) /\ ~Newer(h.shown, pool.last)
    BY <2>1, <2>3, <2>4, Parts, NewerOrders DEF Order
  <2>6. InHand' = InHand /\ Waiting' = Waiting
    BY <2>1 DEF InHand, Waiting
  <2>7. c'.canvas[1] = c'.replay /\ c'.canvas[2] = c'.number /\ c'.canvas[1] <= c'.replay
    BY <2>2, Parts
  <2> QED BY <2>1, <2>5, <2>6, <2>7, Parts DEF Order
<1>6. ASSUME NEW i \in Slot, Publish(i) PROVE Order'
  <2>1. /\ UNCHANGED <<pool, upoll, c, h>> /\ w.at = "publish" /\ w'.at = "copy" /\ w.pending
        /\ w'.pending = w.pending
    BY <1>6, Parts DEF Publish, At, PublishBegin, Locals, PlaybackInv, Work
  <2>2. st' = [st EXCEPT ![i] = "WRITING"] /\ pic' = [pic EXCEPT ![i] = Nothing]
    BY <1>6 DEF Publish, PublishBegin
  <2>3. Waiting # {} => i \in Waiting
    BY <1>6 DEF Publish, PublishBegin, First, Targets
  <2>4. \A j \in InHand' : j # i /\ j \in InHand /\ pic'[j] = pic[j] /\ st'[j] = st[j]
    BY <2>2, Parts DEF InHand
  <2>5. \A j, k \in Waiting : j = k
    BY DEF Waiting, Order, InHand
  <2>6. Waiting' = {}
    BY <2>2, <2>3, <2>5, Parts DEF Waiting
  <2>7. pool.preserve => upoll = 0
    <3>1. SUFFICES ASSUME pool.preserve, upoll # 0 PROVE FALSE
      OBVIOUS
    <3>2. upoll \in Slot /\ st[upoll] = "CLAIMED"
      BY <3>1, Parts DEF Slot, PlaybackInv, MailboxAccounted, SlotsAccounted
    <3> QED BY <1>6, <3>1, <3>2 DEF Publish, Publishable, Blocked, Pending
  <2> QED BY <2>1, <2>4, <2>6, <2>7 DEF Order
<1>7. CASE Copied
  <2>1. w.at = "copy" /\ w'.at = "status" /\ w'.pending = pool.closed /\ UNCHANGED <<c, h, upoll>>
    BY <1>7, Parts DEF Copied, At, PublishEnd, Locals
  <2>2. ~pool.closed /\ ~w'.pending
    BY <2>1 DEF Shape, Round
  <2>3. /\ st' = [st EXCEPT ![w.slot] = "READY"] /\ pic' = [pic EXCEPT ![w.slot] = c.canvas]
        /\ pool' = [pool EXCEPT !.last = c.canvas]
    BY <1>7, <2>2 DEF Copied, PublishEnd
  <2>4. w.slot \in Slot /\ st[w.slot] = "WRITING" /\ w.pending
    BY <2>1, Parts DEF PlaybackInv, MailboxAccounted, Work, Locals, Slot
  <2>5. Newer(c.canvas, pool.last) /\ Waiting = {} /\ (pool.preserve => upoll = 0)
    BY <2>1, <2>4 DEF Order
  <2>6. \A j \in InHand' : j # w.slot =>
          j \in InHand /\ st[j] = "CLAIMED" /\ pic'[j] = pic[j] /\ st'[j] = st[j]
    BY <2>3, <2>4, <2>5, Parts DEF InHand, Waiting
  <2>7. pic'[w.slot] = c.canvas /\ st'[w.slot] = "READY"
    BY <2>3, <2>4, Parts
  <2>8. pool'.last = c.canvas /\ pool'.preserve = pool.preserve
    BY <2>3, Parts
  <2>9. ~Newer(h.shown, c.canvas) /\ ~Newer(c.canvas, c.canvas) /\ Newer(c.canvas, h.shown)
    BY <2>1, <2>5, Parts, NewerOrders DEF Order
  <2>10. \A j \in InHand : Newer(c.canvas, pic[j]) /\ ~Newer(pic[j], c.canvas)
    <3>1. SUFFICES ASSUME NEW j \in InHand
                   PROVE  Newer(c.canvas, pic[j]) /\ ~Newer(pic[j], c.canvas)
      OBVIOUS
    <3>2. pic[j] \in Frame /\ ~Newer(pic[j], pool.last)
      BY Parts DEF InHand, Order
    <3>3. Newer(c.canvas, pic[j])
      BY <2>5, <3>2, Parts, NewerOrders
    <3> QED BY <3>2, <3>3, Parts, NewerOrders
  <2>11. \A j \in InHand' : Newer(pic'[j], h.shown) /\ ~Newer(pic'[j], c.canvas)
    BY <2>6, <2>7, <2>9, <2>10 DEF Order
  <2>12. \A j, k \in InHand' : st'[j] = "READY" =>
           j = k \/ (st'[k] = "CLAIMED" /\ Newer(pic'[j], pic'[k]))
    BY <2>6, <2>7, <2>10
  <2> QED BY <2>1, <2>2, <2>5, <2>8, <2>9, <2>11, <2>12 DEF Order
<1> QED BY <1>1, <1>2, <1>3, <1>4, <1>5, <1>6, <1>7, Slotted DEF Worker

\* Every step.
LEMMA Orders ==
  ASSUME PlaybackInv, Shape, Order, [Next]_vars
  PROVE  Order'
<1>1. CASE UNCHANGED vars
  BY <1>1 DEF vars, frameVars, Order, InHand, Waiting
<1> QED BY <1>1, OwnerOrders, WorkerOrders DEF Next

-----------------------------------------------------------------------------
(* No gaps *)

\* Pending is that something is in hand.
LEMMA PendingInHand == Pending <=> InHand # {}
BY DEF Pending, InHand

\* A step that leaves what is in hand, and neither begins nor ends a copy.
Same ==
  /\ h' = h /\ pool'.closed = pool.closed /\ p'.preserve = p.preserve
  /\ c'.canvas = c.canvas /\ c'.replay = c.replay
  /\ InHand' = InHand /\ \A i \in InHand : pic'[i] = pic[i]
  /\ w'.pending = w.pending

\* Such a step of the UI thread leaves no gap.
LEMMA OwnerSame ==
  ASSUME PlaybackInv, Keep, Same, w' = w
  PROVE  Keep'
<1>1. Held(c.canvas)' = Held(c.canvas) /\ Held(Prev(c.canvas))' = Held(Prev(c.canvas))
  BY DEF Same, Held, Prev
<1>2. Pending' = Pending
  BY PendingInHand DEF Same, Pending, InHand
<1>3. Follows(c.canvas)' = Follows(c.canvas)
      /\ \A i \in InHand' : i \in InHand /\ (Follows(pic[i])' <=> Follows(pic[i]))
  BY DEF Same, Follows, Prev
<1> QED BY <1>1, <1>2, <1>3 DEF Same, Keep

\* Nor does one of the worker, unless it enters a tick.
LEMMA WorkerSame ==
  ASSUME PlaybackInv, Keep, Same, w.at # "copy", w'.at # "copy",
         \/ w'.preserve \/ w'.at \notin {"restart", "restarted", "control", "tick"}
         \/ w.at \in {"restart", "restarted", "control", "tick"} /\ w'.preserve = w.preserve,
         p.preserve /\ w'.at = "tick" /\ w'.preserve => ~w'.pending /\ ~Pending'
  PROVE  Keep'
<1>1. Held(c.canvas)' = Held(c.canvas) /\ Held(Prev(c.canvas))' = Held(Prev(c.canvas))
  BY DEF Same, Held, Prev
<1>2. Follows(c.canvas)' = Follows(c.canvas)
      /\ \A i \in InHand' : i \in InHand /\ (Follows(pic[i])' <=> Follows(pic[i]))
  BY DEF Same, Follows, Prev
<1> QED BY <1>1, <1>2 DEF Same, Keep

\* The UI thread: a policy that is switched on begins at the canvas, and the frame that
\* is shown is the only one in hand (lv_aic_apng_playback_preserve, _poll).
LEMMA OwnerKeeps ==
  ASSUME PlaybackInv, Shape, Order, Keep, Owner
  PROVE  Keep'
<1>1. CASE Prepare \/ Destroy
  BY <1>1 DEF Prepare, Destroy, Fresh, Keep
<1>2. ASSUME NEW on \in BOOLEAN, Preserve(on) PROVE Keep'
  <2>1. /\ UNCHANGED <<w, c, st, pic, upoll>> /\ p'.preserve = on
        /\ pool'.closed = pool.closed
    BY <1>2, Parts DEF Preserve, SetPreserve, Fields
  <2>2. InHand' = InHand
    BY <2>1 DEF InHand
  <2>3. CASE ~on
    BY <2>1, <2>3 DEF Keep
  <2>4. CASE on /\ p.preserve
    <3>1. h' = h /\ p'.preserve = p.preserve
      BY <1>2, <2>1, <2>4, Parts DEF Preserve, Fields
    <3> QED BY <2>1, <2>2, <3>1, OwnerSame DEF Same
  <2>5. CASE on /\ ~p.preserve
    <3>1. h'.mark = c.canvas /\ w.at # "none"
      BY <1>2, <2>5, Parts DEF Preserve, Ui, PlaybackInv, Life
    <3>2. ASSUME NEW f \in Frame, ~Newer(f, c.canvas), f[2] > 1 PROVE ~Newer(Prev(f), c.canvas)
      <4>1. Prev(f) \in Frame /\ Newer(f, Prev(f))
        BY <3>2, PrevIsNext
      <4> QED BY <3>2, <4>1, NewerOrders, Parts
    <3>3. \A i \in InHand : pic[i] \in Frame /\ ~Newer(pic[i], c.canvas)
      <4>1. SUFFICES ASSUME NEW i \in InHand PROVE pic[i] \in Frame /\ ~Newer(pic[i], c.canvas)
        OBVIOUS
      <4>2. pic[i] \in Frame /\ ~Newer(pic[i], pool.last) /\ ~Newer(pool.last, c.canvas)
        BY <3>1, Parts DEF InHand, Order
      <4> QED BY <4>2, NewerOrders, Parts
    <3>4. ~Newer(c.canvas, c.canvas)
      BY NewerOrders, Parts
    <3>5. \A i \in InHand' : Follows(pic[i])'
      BY <2>1, <2>2, <3>1, <3>2, <3>3 DEF Follows, Prev
    <3>6. Follows(c.canvas)'
      BY <2>1, <3>1, <3>2, <3>4, Parts DEF Follows, Prev
    <3> QED BY <2>1, <3>1, <3>4, <3>5, <3>6 DEF Keep
  <2> QED BY <2>3, <2>4, <2>5
<1>3. ASSUME NEW on \in BOOLEAN, Start \/ Pause(on) \/ Restart \/ Close PROVE Keep'
  <2>1. UNCHANGED <<frameVars, w, c, h>> /\ p'.preserve = p.preserve
    BY <1>3, Parts DEF Start, Pause, Restart, Close, Fields
  <2> QED BY <2>1, OwnerSame DEF Same, frameVars, InHand
<1>4. ASSUME NEW i \in Slot, Poll(i) PROVE Keep'
  <2>1. UNCHANGED <<p, w, c, h, pool, pic>> /\ st' = [st EXCEPT ![i] = "CLAIMED"] /\ i \in Waiting
    BY <1>4 DEF Poll, PollClaim, First
  <2>2. InHand' = InHand
    BY <2>1, Parts DEF InHand, Waiting
  <2> QED BY <2>1, <2>2, OwnerSame DEF Same
<1>5. ASSUME NEW i \in Slot, Images(i) PROVE Keep'
  <2>1. UNCHANGED <<p, w, c, h, pool>>
    BY <1>5 DEF Images, ImageOpen, ImageClose, ImageDestroy
  <2>2. \A j \in Slot : \/ st'[j] = st[j] /\ pic'[j] = pic[j]
                        \/ st[j] = "LEASED" /\ st'[j] = "FREE"
    BY <1>5, Parts DEF Images, ImageOpen, ImageClose, ImageDestroy, Freed, PlaybackInv,
                       MailboxAccounted, SlotsAccounted
  <2>3. InHand' = InHand /\ \A j \in InHand : pic'[j] = pic[j]
    BY <2>2 DEF InHand
  <2> QED BY <2>1, <2>3, OwnerSame DEF Same
<1>6. ASSUME NEW ok \in BOOLEAN, PollEnds(ok) PROVE Keep'
  <2>1. SUFFICES ASSUME p.preserve PROVE Keep'
    BY <1>6 DEF PollEnds, Keep
  <2>2. upoll \in Slot /\ upoll # 0 /\ st[upoll] = "CLAIMED" /\ upoll \in InHand
    BY <1>6, Parts DEF PollEnds, Slot, PlaybackInv, MailboxAccounted, SlotsAccounted, InHand
  <2>3. pool.preserve /\ Waiting = {} /\ w.at # "copy" /\ w.at # "none"
    BY <2>1, <2>2 DEF Shape, Order
  <2>4. \A j \in InHand : j = upoll
    BY <2>3 DEF InHand, Waiting, PlaybackInv, MailboxAccounted, SlotsAccounted
  <2>5. UNCHANGED <<p, w, c, pool>>
    BY <1>6 DEF PollEnds, PollImage, PollFails
  <2>6. CASE ok
    <3>1. h'.shown = pic[upoll] /\ h'.mark = h.mark /\ st' = [st EXCEPT ![upoll] = "LEASED"]
      BY <1>6, <2>6, Parts DEF PollEnds, PollImage
    <3>2. InHand' = {}
      BY <2>2, <2>4, <3>1, Parts DEF InHand
    <3>3. /\ pic[upoll] \in Frame /\ Newer(pic[upoll], h.shown)
          /\ ~Newer(pic[upoll], pool.last) /\ ~Newer(pool.last, c.canvas)
      BY <2>2, <2>3, Parts DEF Order, InHand
    <3>4. ~Newer(pic[upoll], c.canvas)
      BY <3>3, NewerOrders, Parts
    <3>5. ASSUME w.pending, ~pool.closed PROVE Follows(c.canvas)'
      <4>1. Newer(c.canvas, pool.last)
        BY <3>5 DEF Order
      <4>2. Newer(c.canvas, pic[upoll])
        BY <3>3, <4>1, NewerOrders, Parts
      <4>3. SUFFICES ASSUME c.canvas[2] > 1, Newer(Prev(c.canvas), h.mark)
                     PROVE  pic[upoll] = Prev(c.canvas)
        BY <2>5, <3>1 DEF Follows, Prev
      <4>4. CASE Follows(c.canvas)
        <5>1. h.shown = Prev(c.canvas)
          BY <4>3, <4>4 DEF Follows
        <5> QED BY <3>3, <4>2, <4>3, <5>1, PrevIsNext, Parts
      <4>5. CASE Held(Prev(c.canvas))
        BY <2>4, <4>5 DEF Held
      <4> QED BY <2>1, <2>3, <3>5, <4>4, <4>5 DEF Keep
    <3>6. ASSUME ~w.pending, ~pool.closed, c.canvas[1] = c.replay, Newer(c.canvas, h.mark)
          PROVE  h'.shown = c.canvas
      <4>1. CASE h.shown = c.canvas
        BY <3>3, <3>4, <4>1
      <4>2. CASE Held(c.canvas)
        BY <2>4, <3>1, <4>2 DEF Held
      <4> QED BY <2>1, <3>6, <4>1, <4>2 DEF Keep
    <3>7. Pending
      BY <2>2, PendingInHand
    <3> QED BY <2>1, <2>3, <2>5, <3>1, <3>2, <3>5, <3>6, <3>7 DEF Keep
  <2>7. CASE ~ok /\ Requeues
    <3>1. UNCHANGED <<pic, h>> /\ st' = [st EXCEPT ![upoll] = "READY"]
      BY <1>6, <2>7 DEF PollEnds, PollFails
    <3>2. InHand' = InHand
      BY <2>2, <3>1, Parts DEF InHand
    <3> QED BY <2>5, <3>1, <3>2, OwnerSame DEF Same
  <2>8. CASE ~ok /\ ~Requeues
    <3>1. pool.closed /\ w.at \notin Round
      BY <2>3, <2>8 DEF Requeues, Shape
    <3>2. Freed({upoll}) /\ h' = h
      BY <1>6, <2>8 DEF PollEnds, PollFails
    <3>3. InHand' = {}
      BY <2>4, <3>2, Parts DEF InHand, Freed
    <3> QED BY <2>5, <3>1, <3>2, <3>3 DEF Keep, Round
  <2> QED BY <2>6, <2>7, <2>8
<1> QED BY <1>1, <1>2, <1>3, <1>4, <1>5, <1>6, Slotted DEF Owner

\* The worker: it composes only when nothing is pending, and publishes only when nothing
\* is in hand (worker, lv_aic_apng_frames_publish).
LEMMA WorkerKeeps ==
  ASSUME PlaybackInv, Shape, Order, Keep, Worker
  PROVE  Keep'
<1> USE DEF At, Locks, Goto
<1>1. ASSUME NEW animated \in BOOLEAN, NEW ok \in BOOLEAN, Load(animated, ok) PROVE Keep'
  <2>1. /\ w.at = "load" /\ Waiting = {} /\ upoll = 0 /\ UNCHANGED <<st, h>>
        /\ ~w.pending /\ c.canvas = Nothing
    BY <1>1 DEF Load, Shape
  <2>2. InHand' = {}
    BY <2>1, NoneInHand DEF InHand
  <2>3. c'.canvas = Nothing
    BY <1>1, Constants DEF Load, NoStream, Streams
  <2>4. ~w'.pending /\ w'.at \in {"top", "nopool"}
    BY <1>1, <2>1, Parts DEF Load, Locals
  <2>5. ~Newer(Nothing, h.mark)
    BY Parts, Constants, PlaybackConstants DEF Newer, Nothing, Frame
  <2> QED BY <2>1, <2>2, <2>3, <2>4, <2>5 DEF Keep
<1>2. ASSUME NEW place \in {"load", "nopool", "restart", "control", "tick"},
             Fault(place) \/ CloseLater \/ Report
      PROVE  Keep'
  <2>1. UNCHANGED <<frameVars, c, h>> /\ p'.preserve = p.preserve
    BY <1>2, Parts DEF Fault, Faulted, CloseLater, Report, Fields
  <2>2. w'.at = "top" /\ w'.pending = w.pending /\ w.at # "copy"
    BY <1>2, Parts DEF Fault, CloseLater, Report, Locals
  <2> QED BY <2>1, <2>2, WorkerSame DEF Same, frameVars, InHand
<1>3. CASE Top
  <2>1. UNCHANGED <<frameVars, p, c, h>>
    BY <1>3 DEF Top
  <2>2. /\ w.at = "top" /\ w'.at \in {"close", "restart", "control"}
        /\ w'.pending = w.pending /\ w'.preserve = p.preserve
    BY <1>3, Parts DEF Top, Locals
  <2>3. CASE p.preserve
    BY <2>1, <2>2, <2>3, WorkerSame DEF Same, frameVars, InHand
  <2> QED BY <2>1, <2>3 DEF Keep
<1>4. CASE CloseMailbox
  <2>1. /\ w.at = "close" /\ w'.at = "finish" /\ w'.pending = w.pending /\ UNCHANGED <<p, c, h>>
        /\ Freed(Waiting) /\ pool'.closed = (pool.closed \/ pool.made)
    BY <1>4, Parts DEF CloseMailbox, CloseFrames, Dropped, Locals
  <2>2. CASE pool.made
    <3>1. \A i \in InHand' : i \in InHand /\ pic'[i] = pic[i]
      BY <2>1, Parts DEF Freed, InHand
    <3>2. \A i \in InHand' : Follows(pic[i])' <=> Follows(pic[i])
      BY <2>1, <3>1 DEF Follows, Prev
    <3> QED BY <2>1, <2>2, <3>1, <3>2 DEF Keep
  <2>3. CASE ~pool.made
    <3>1. Waiting = {} /\ upoll = 0 /\ ~pool.closed
      BY <2>3 DEF Shape
    <3>2. InHand' = InHand /\ \A i \in InHand : pic'[i] = pic[i]
      BY <2>1, <3>1, Parts DEF Freed, InHand
    <3>3. pool'.closed = pool.closed
      BY <2>1, <2>3, Parts
    <3> QED BY <2>1, <3>2, <3>3, WorkerSame DEF Same
  <2> QED BY <2>2, <2>3
<1>5. CASE Finish
  <2>1. /\ w'.at = "none" /\ ~w'.pending /\ c' = NoStream /\ h' = NoHistory
        /\ UNCHANGED <<st, upoll>> /\ upoll = 0 /\ w.at = "finish"
    BY <1>5 DEF Finish, Idle, frameVars
  <2>2. Waiting = {}
    BY <2>1 DEF Shape
  <2>3. InHand' = {}
    BY <2>1, <2>2, NoneInHand DEF InHand
  <2>4. ~Newer(Nothing, Nothing)
    BY NewerOrders, Constants
  <2> QED BY <2>1, <2>3, <2>4 DEF Keep, NoStream, NoHistory
<1>6. CASE Replay
  <2>1. /\ w.at = "restart" /\ w'.at = "restarted" /\ ~w'.pending /\ w'.preserve = w.preserve
        /\ UNCHANGED <<pool, upoll, h, p>> /\ upoll = 0 /\ Freed(Waiting)
    BY <1>6, Parts DEF Replay, PendingAfterRestart, Discard, Locals, PlaybackInv, Life
  <2>2. c'.canvas = c.canvas /\ c'.replay = c.replay + 1
    BY <1>6, Parts DEF Replay, Rewound, Streams
  <2>3. InHand' = {}
    <3>1. \A i \in Slot : st[i] # "CLAIMED"
      BY <2>1, Constants DEF PlaybackInv, MailboxAccounted, SlotsAccounted
    <3>2. \A i \in Slot : st'[i] = IF st[i] = "READY" THEN "FREE" ELSE st[i]
      BY <2>1 DEF Freed, Waiting
    <3> QED BY <3>1, <3>2 DEF InHand
  <2>4. c'.canvas[1] # c'.replay
    BY <2>2, Parts, PlaybackConstants DEF Order, Frame
  <2> QED BY <2>1, <2>2, <2>3, <2>4 DEF Keep
<1>7. CASE Replayed
  <2>1. UNCHANGED <<frameVars, c, h>> /\ p'.preserve = p.preserve
    BY <1>7, Parts DEF Replayed, Fields
  <2>2. /\ w.at = "restarted" /\ w'.at = "control" /\ w'.pending = w.pending
        /\ w'.preserve = w.preserve
    BY <1>7, Parts DEF Replayed, Locals
  <2> QED BY <2>1, <2>2, WorkerSame DEF Same, frameVars, InHand
<1>8. CASE Control
  <2>1. UNCHANGED <<frameVars, p, h>> /\ c'.canvas = c.canvas /\ c'.replay = c.replay
    BY <1>8, Parts DEF Control, Streams
  <2>2. /\ w.at = "control" /\ w'.at = (IF MayAdvance THEN "tick" ELSE "decide")
        /\ w'.pending = w.pending /\ w'.preserve = w.preserve
    BY <1>8, Parts DEF Control, Locals
  <2>3. ASSUME p.preserve, w'.at = "tick", w'.preserve PROVE ~w'.pending /\ ~Pending'
    <3>1. pool.preserve
      BY <2>2, <2>3 DEF Shape, Round
    <3>2. ~w.pending /\ ~Pending
      BY <2>2, <2>3, <3>1 DEF MayAdvance, Blocked
    <3> QED BY <2>1, <2>2, <3>2 DEF frameVars, Pending
  <2>4. InHand' = InHand /\ UNCHANGED <<pool, pic>>
    BY <2>1 DEF frameVars, InHand
  <2> QED BY <2>1, <2>2, <2>3, <2>4, WorkerSame DEF Same
<1>9. CASE NextFrame
  <2>1. SUFFICES ASSUME p.preserve PROVE Keep'
    BY <1>9 DEF NextFrame, Keep
  <2>2. /\ w.at = "tick" /\ w'.at \in {"publish", "status"} /\ w'.pending
        /\ UNCHANGED <<frameVars, p, h>>
    BY <1>9, Parts DEF NextFrame, AfterTick, Locals
  <2>3. c'.canvas = <<c.replay, c.number + 1>>
    BY <1>9, Parts DEF NextFrame, Streams
  <2>4. InHand' = InHand /\ \A i \in InHand : Follows(pic[i])' <=> Follows(pic[i])
    BY <2>2 DEF frameVars, InHand, Follows, Prev
  <2>5. Follows(c.canvas)' \/ Held(Prev(c.canvas))'
    <3>1. SUFFICES ASSUME c'.canvas[2] > 1, Newer(Prev(c'.canvas), h.mark)
                   PROVE  h.shown = Prev(c'.canvas)
      BY <2>2 DEF Follows, Prev
    <3>2. Prev(c'.canvas) = <<c.replay, c.number>> /\ c.number > 0
      BY <2>3, <3>1, Parts DEF Prev
    <3>3. c.canvas[1] = c.replay /\ c.canvas[2] = c.number
      BY <3>2 DEF Order
    <3>4. c.canvas = <<c.replay, c.number>>
      BY <3>3, Parts DEF Frame
    <3>5. Newer(c.canvas, h.mark) /\ h.mark # c.canvas
      BY <3>1, <3>2, <3>4, NewerOrders, Parts
    <3>6. w.preserve
      BY <2>1, <2>2, <3>5 DEF Keep
    <3>7. ~w.pending /\ ~Pending /\ ~pool.closed
      BY <2>1, <2>2, <3>5, <3>6 DEF Keep, Shape, Round
    <3>8. h.shown = c.canvas \/ Held(c.canvas)
      BY <2>1, <3>3, <3>5, <3>7 DEF Keep
    <3> QED BY <3>2, <3>4, <3>7, <3>8, PendingInHand DEF Held
  <2> QED BY <2>1, <2>2, <2>4, <2>5 DEF Keep, frameVars
<1>10. CASE Ends \/ Waits \/ Holds
  <2>1. UNCHANGED <<frameVars, p, h>> /\ c'.canvas = c.canvas /\ c'.replay = c.replay
    BY <1>10, Parts DEF Ends, Waits, Holds, Streams
  <2>2. w.at \in {"tick", "decide"} /\ w'.at \in {"publish", "status"} /\ w'.pending = w.pending
    BY <1>10, Parts DEF Ends, Waits, Holds, AfterTick, Locals
  <2>3. InHand' = InHand /\ UNCHANGED <<pool, pic>>
    BY <2>1 DEF frameVars, InHand
  <2> QED BY <2>1, <2>2, <2>3, WorkerSame DEF Same
<1>11. ASSUME NEW i \in Slot, Publish(i) PROVE Keep'
  <2>1. SUFFICES ASSUME p.preserve PROVE Keep'
    BY <1>11 DEF Publish, Keep
  <2>2. /\ w.at = "publish" /\ w'.at = "copy" /\ w.pending /\ w'.pending
        /\ UNCHANGED <<p, c, h, pool>> /\ st' = [st EXCEPT ![i] = "WRITING"]
    BY <1>11, Parts DEF Publish, PublishBegin, Locals, PlaybackInv, Work
  <2>3. ~pool.closed /\ pool.preserve
    BY <2>1, <2>2 DEF Shape, Round
  <2>4. InHand = {}
    BY <1>11, <2>3, PendingInHand DEF Publish, Publishable, Blocked
  <2>5. InHand' = {}
    BY <2>2, <2>4, Parts DEF InHand
  <2>6. Follows(c.canvas)
    BY <2>1, <2>2, <2>3, <2>4 DEF Keep, Held
  <2>7. Follows(c.canvas)'
    BY <2>2, <2>6 DEF Follows, Prev
  <2> QED BY <2>2, <2>5, <2>7 DEF Keep
<1>12. CASE PublishRefused
  <2>1. UNCHANGED <<frameVars, p, c, h>>
    BY <1>12 DEF PublishRefused
  <2>2. w.at = "publish" /\ w'.at = "status" /\ w.pending /\ w'.pending
    BY <1>12, Parts DEF PublishRefused, PendingAfterRefusal, Locals, PlaybackInv, Work
  <2>3. w'.pending = w.pending
    BY <2>2, <1>12, Parts DEF PublishRefused, PendingAfterRefusal, Locals
  <2>4. InHand' = InHand /\ UNCHANGED <<pool, pic>>
    BY <2>1 DEF frameVars, InHand
  <2> QED BY <2>1, <2>2, <2>3, <2>4, WorkerSame DEF Same
<1>13. CASE Copied
  <2>1. SUFFICES ASSUME p.preserve PROVE Keep'
    BY <1>13 DEF Copied, Keep
  <2>2. w.at = "copy" /\ w'.at = "status" /\ w'.pending = pool.closed /\ UNCHANGED <<p, c, h>>
    BY <1>13, Parts DEF Copied, Locals
  <2>3. ~pool.closed /\ ~w'.pending
    BY <2>2 DEF Shape, Round
  <2>4. st' = [st EXCEPT ![w.slot] = "READY"] /\ pic' = [pic EXCEPT ![w.slot] = c.canvas]
    BY <1>13, <2>3 DEF Copied, PublishEnd
  <2>5. w.slot \in Slot
    BY <2>2, Parts DEF PlaybackInv, Work, Locals, Slot
  <2>6. pic'[w.slot] = c.canvas /\ w.slot \in InHand'
    BY <2>4, <2>5, Parts DEF InHand
  <2>7. \A i \in InHand' : i # w.slot => i \in InHand /\ pic'[i] = pic[i]
    BY <2>4, Parts DEF InHand
  <2>8. Held(c.canvas)'
    BY <2>2, <2>6 DEF Held
  <2>9. Follows(c.canvas) /\ \A i \in InHand : Follows(pic[i])
    BY <2>1, <2>2 DEF Keep
  <2>10. \A i \in InHand' : Follows(pic[i])'
    BY <2>2, <2>6, <2>7, <2>9 DEF Follows, Prev
  <2> QED BY <2>1, <2>2, <2>3, <2>8, <2>10 DEF Keep
<1> QED BY <1>1, <1>2, <1>3, <1>4, <1>5, <1>6, <1>7, <1>8, <1>9, <1>10, <1>11, <1>12, <1>13,
           Slotted DEF Worker

\* Every step.
LEMMA Keeps ==
  ASSUME PlaybackInv, Shape, Order, Keep, [Next]_vars
  PROVE  Keep'
<1>1. CASE UNCHANGED vars
  BY <1>1, OwnerSame DEF vars, frameVars, Same, InHand
<1> QED BY <1>1, OwnerKeeps, WorkerKeeps DEF Next

\* The frames of an instance are shown in order, and while the preserve policy is
\* on none that was composed under it is skipped (the worker's blocked_by_frame and
\* lv_aic_apng_frames_publish).
THEOREM NothingIsSkipped == Spec => NothingSkipped
<1> DEFINE Inv == PlaybackInv /\ Shape /\ Order /\ Keep
<1> DEFINE Step ==
      h'.shown # h.shown /\ h'.shown # Nothing =>
        /\ Newer(h'.shown, h.shown)
        /\ LET before == <<h'.shown[1], h'.shown[2] - 1>> IN
             p.preserve /\ before[2] > 0 /\ Newer(before, h.mark) => h.shown = before
<1>1. Init => Shape /\ Order /\ Keep
  <2> SUFFICES ASSUME Init PROVE Shape /\ Order /\ Keep
    OBVIOUS
  <2>1. /\ Waiting = {} /\ InHand = {} /\ upoll = 0 /\ w.at = "none" /\ ~w.pending /\ ~active
        /\ c = NoStream /\ h = NoHistory /\ pool = NoPool /\ p.preserve = FALSE
    BY DEF Init, FramesInit, Waiting, InHand, Idle, Fresh
  <2> QED BY <2>1 DEF Shape, Order, Keep, NoStream, NoHistory, NoPool, Nothing, Round
<1>2. Inv /\ [Next]_vars => Shape' /\ Order' /\ Keep'
  BY Shapes, Orders, Keeps
<1>3. Inv /\ [Next]_vars => [Step]_vars
  <2> SUFFICES ASSUME Inv, Next, h'.shown # h.shown, h'.shown # Nothing
               PROVE  /\ Newer(h'.shown, h.shown)
                      /\ p.preserve /\ h'.shown[2] - 1 > 0 /\ Newer(Prev(h'.shown), h.mark) =>
                           h.shown = Prev(h'.shown)
    BY DEF Prev, vars
  <2>1. PollEnds(TRUE)
    <3>1. ASSUME NEW on \in BOOLEAN, Preserve(on) PROVE FALSE
      BY <3>1, Parts DEF Preserve
    <3>2. ~Finish
      BY DEF Finish, NoHistory
    <3>3. h' # h
      OBVIOUS
    <3> QED BY <3>1, <3>2, <3>3
            DEF Next, Owner, Worker, Prepare, Start, Restart, Close, Destroy, Pause, PollEnds,
                Poll, Images, Load, Fault, Top, CloseMailbox, CloseLater, Replay, Replayed,
                Control, NextFrame, Ends, Waits, Holds, PublishRefused, Copied, Report, Publish
  <2>2. upoll \in InHand /\ h'.shown = pic[upoll] /\ pic[upoll] \in Frame
    <3>1. upoll \in Slot /\ h'.shown = pic[upoll]
      BY <2>1, Parts DEF PollEnds, Slot
    <3> QED BY <3>1, Parts DEF PlaybackInv, MailboxAccounted, SlotsAccounted, InHand
  <2>3. Newer(pic[upoll], h.shown)
    BY <2>2 DEF Order
  <2>4. p.preserve => Follows(pic[upoll])
    BY <2>2 DEF Keep
  <2>5. pic[upoll][2] \in Nat
    BY <2>2, PlaybackConstants DEF Frame
  <2> QED BY <2>2, <2>3, <2>4, <2>5 DEF Follows
<1> QED BY <1>1, <1>2, <1>3, PlaybackIsConsistent, PTL DEF Spec, NothingSkipped
=============================================================================
