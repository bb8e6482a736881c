---------------------------- MODULE PlayerProofs ----------------------------
(***************************************************************************)
(* Media playback for any set of frames, any number of leases and any      *)
(* interleaving of the worker, the UI thread, the readers and the decoder: *)
(* FramesCohere keeps what is shown pinned and every lease accounted for,  *)
(* and the status coheres with the session.  Every operation of the        *)
(* mailbox has one lemma for FramesCohere' and every action one for the    *)
(* status; MediaTypes and StatusTypes are what the provers need of TypeOK. *)
(***************************************************************************)
EXTENDS PlayerPlayback, FiniteSetTheorems, WellFoundedInduction, TLAPS

\* What CHOOSE picks of a set of slots is one of them: the natural numbers are
\* well-founded.
LEMMA LessIsWellFounded == IsWellFoundedOn({r \in Nat \X Nat : r[1] < r[2]}, Nat)
  BY NatLessThanWellFounded DEF OpToRel

LEMMA LowestIsMember ==
  ASSUME NEW S \in SUBSET Slot, S # {}
  PROVE  Lowest(S) \in S /\ Lowest(S) \in Slot
<1>1. Slot \subseteq Nat
  BY LeasesArePositive DEF Slot
<1>2. PICK i \in S : \A j \in S : <<j, i>> \notin {r \in Nat \X Nat : r[1] < r[2]}
  BY <1>1, LessIsWellFounded, WFMin
<1>3. \A j \in S : i <= j
  <2> TAKE j \in S
  <2>1. i \in Nat /\ j \in Nat
    BY <1>1
  <2>2. ~(j < i)
    BY <1>2, <2>1
  <2> QED BY <2>1, <2>2
<1> QED BY <1>3 DEF Lowest

-----------------------------------------------------------------------------
(* The operations of the mailbox *)

\* The types of the mailbox, the session's leases and the allocator.
MediaTypes ==
  /\ st \in [Slot -> SlotStates] /\ lease \in [Slot -> Frame \cup {NoFrame}]
  /\ pinned \in [Slot -> BOOLEAN]
  /\ image \in [Slot -> {"none", "shown", "read", "kept"}] /\ upoll \in 0..Leases
  /\ mem \in [Frame -> {"free", "live", "retired"}] /\ pins \subseteq Frame
  /\ held \subseteq Frame /\ wpending \in Frame \cup {NoFrame}
  /\ f \in [closing : BOOLEAN, quarantined : BOOLEAN, preserve : BOOLEAN]

\* A step that leaves the mailbox's slots, the memory, the leases and the worker's
\* place in submit alone.
MailboxQuiet ==
  /\ UNCHANGED <<st, lease, pinned, image, upoll, memVars, held, wpending>>
  /\ f'.quarantined = f.quarantined
  /\ \/ UNCHANGED wpc
     \/ wpc # "build" /\ wpc' \notin {"submit", "build", "get"}

LEMMA QuietCoheres ==
  ASSUME FramesCohere, MailboxQuiet
  PROVE  FramesCohere'
<1>1. SlotsCohere' /\ PinsCohere' /\ NoPinLost'
  BY DEF MailboxQuiet, FramesCohere, SlotsCohere, PinsCohere, NoPinLost, memVars
<1>2. LeasesCohere' /\ WorkerHolds'
  BY DEF MailboxQuiet, FramesCohere, LeasesCohere, WorkerHolds
<1> QED BY <1>1, <1>2 DEF FramesCohere

\* close() of the mailbox gives the unpublished frames up.
LEMMA CloseCoheres ==
  ASSUME MediaTypes, FramesCohere, FramesClose, UNCHANGED <<memVars, held, wpending>>,
         UNCHANGED wpc \/ (wpc # "build" /\ wpc' \notin {"submit", "build", "get"})
  PROVE  FramesCohere'
<1>1. SlotsCohere' /\ NoPinLost'
  BY DEF MediaTypes, FramesCohere, FramesClose, Displaced, SlotsCohere, NoPinLost
<1>2. PinsCohere'
  BY DEF FramesCohere, FramesClose, PinsCohere, memVars
<1>3. LeasesCohere' /\ WorkerHolds'
  BY DEF MediaTypes, FramesCohere, FramesClose, Displaced, LeasesCohere, WorkerHolds
<1> QED BY <1>1, <1>2, <1>3 DEF FramesCohere

\* The decoder's memory comes and goes; what is pinned stays.
LEMMA MemoryCoheres ==
  ASSUME MediaTypes, FramesCohere, UNCHANGED <<frameVars, held, wpending, pins>>,
         FreeAll \/ \E g \in Frame : Allocate(g) \/ FreeFrame(g),
         UNCHANGED wpc \/ (wpc # "build" /\ wpc' \notin {"submit", "build", "get"})
  PROVE  FramesCohere'
<1>1. SlotsCohere' /\ NoPinLost'
  BY DEF FramesCohere, SlotsCohere, NoPinLost, frameVars
<1>2. PinsCohere'
  BY DEF MediaTypes, FramesCohere, PinsCohere, frameVars, FreeAll, Allocate, FreeFrame, Freed
<1>3. LeasesCohere' /\ WorkerHolds'
  BY DEF FramesCohere, LeasesCohere, WorkerHolds, frameVars
<1> QED BY <1>1, <1>2, <1>3 DEF FramesCohere

\* The UI thread's poll and the image's readers move one slot's state.
LEMMA PollCoheres ==
  ASSUME MediaTypes, FramesCohere, NEW i \in Slot,
         \/ upoll = 0 /\ PollClaim(i)
         \/ PollImage \/ PollFails
         \/ ReaderOpen(i) \/ ReaderClose(i) \/ ImageDestroy(i),
         UNCHANGED <<memVars, held, wpending, wpc>>
  PROVE  FramesCohere'
<1>1. CASE upoll = 0 /\ PollClaim(i)
  <2>1. Pollable \in SUBSET Slot
    BY DEF Pollable
  <2>2. i \in Slot /\ st[i] = "READY"
    BY <1>1, <2>1, LowestIsMember DEF PollClaim, Pollable
  <2>3. /\ upoll' = i /\ st' = [st EXCEPT ![i] = "PUBLISHING"]
        /\ UNCHANGED <<f, lease, pinned, image>>
    BY <1>1 DEF PollClaim
  <2>4. SlotsCohere'
    BY <1>1, <2>2, <2>3, LeasesArePositive DEF MediaTypes, FramesCohere, SlotsCohere, Slot
  <2>5. PinsCohere' /\ NoPinLost' /\ LeasesCohere' /\ WorkerHolds'
    BY <2>2, <2>3
    DEF MediaTypes, FramesCohere, PinsCohere, NoPinLost, LeasesCohere, WorkerHolds, memVars
  <2> QED BY <2>4, <2>5 DEF FramesCohere
<1>2. CASE PollImage \/ PollFails
  <2>1. upoll \in Slot /\ st[upoll] = "PUBLISHING"
    BY <1>2, LeasesArePositive
    DEF MediaTypes, FramesCohere, SlotsCohere, Slot, PollImage, PollFails
  <2>2. SlotsCohere'
    <3>1. 0 \notin Slot
      BY LeasesArePositive DEF Slot
    <3>2. CASE PollImage
      BY <2>1, <3>1, <3>2 DEF MediaTypes, FramesCohere, SlotsCohere, PollImage
    <3>3. CASE PollFails
      BY <2>1, <3>1, <3>3 DEF MediaTypes, FramesCohere, SlotsCohere, PollFails, Unclaimed
    <3> QED BY <1>2, <3>2, <3>3
  <2>3. PinsCohere' /\ NoPinLost' /\ LeasesCohere' /\ WorkerHolds'
    BY <1>2, <2>1
    DEF MediaTypes, FramesCohere, PinsCohere, NoPinLost, LeasesCohere, WorkerHolds, memVars,
      SlotsCohere, PollImage, PollFails, Unclaimed
  <2> QED BY <2>2, <2>3 DEF FramesCohere
<1>3. CASE ReaderOpen(i) \/ ReaderClose(i) \/ ImageDestroy(i)
  <2>1. SlotsCohere'
    BY <1>3 DEF MediaTypes, FramesCohere, SlotsCohere, ReaderOpen, ReaderClose, ImageDestroy,
      Unread
  <2>2. PinsCohere' /\ NoPinLost' /\ LeasesCohere' /\ WorkerHolds'
    BY <1>3
    DEF MediaTypes, FramesCohere, PinsCohere, NoPinLost, LeasesCohere, WorkerHolds, memVars,
      SlotsCohere, ReaderOpen, ReaderClose, ImageDestroy, Unread
  <2> QED BY <2>1, <2>2 DEF FramesCohere
<1> QED BY <1>1, <1>2, <1>3

\* drain() promotes a deferred slot ...
LEMMA PromoteCoheres ==
  ASSUME MediaTypes, FramesCohere, Promote,
         UNCHANGED <<memVars, held, wpending>>, wpc = "drain", wpc' = "giveback"
  PROVE  FramesCohere'
<1> DEFINE Deferred == {j \in Slot : st[j] = "DEFERRED"}
           i == Lowest(Deferred)
<1>1. CASE Promotes
  <2>1. i \in Slot /\ st[i] = "DEFERRED"
    BY <1>1, LowestIsMember DEF Promotes
  <2>2. /\ st' = [st EXCEPT ![i] = IF f.closing THEN "RETURNING" ELSE "READY"]
        /\ UNCHANGED <<f, lease, pinned, image, upoll>>
    BY <1>1 DEF Promote
  <2> HIDE DEF i
  <2>3. SlotsCohere'
    BY <2>1, <2>2 DEF MediaTypes, FramesCohere, SlotsCohere
  <2>4. PinsCohere' /\ NoPinLost' /\ LeasesCohere' /\ WorkerHolds'
    BY <2>1, <2>2
    DEF MediaTypes, FramesCohere, PinsCohere, NoPinLost, LeasesCohere, WorkerHolds, memVars
  <2> QED BY <2>3, <2>4 DEF FramesCohere
<1>2. CASE ~Promotes
  <2>1. MailboxQuiet
    BY <1>2 DEF Promote, MailboxQuiet, memVars
  <2> QED BY <2>1, QuietCoheres
<1> QED BY <1>1, <1>2

\* ... and gives slots back: the pin first, then the frame.
LEMMA GiveBackCoheres ==
  ASSUME MediaTypes, FramesCohere, NEW i \in Slot, NEW ok \in BOOLEAN, st[i] = "RETURNING",
         GiveBack(i, ok), UNCHANGED <<wpc, wpending>>
  PROVE  FramesCohere'
<1>1. /\ IF pinned[i] THEN Unpin(lease[i]) ELSE UNCHANGED memVars
      /\ pinned' = [pinned EXCEPT ![i] = FALSE]
      /\ held' = IF ok THEN held \ {lease[i]} ELSE held
      /\ ok => st' = [st EXCEPT ![i] = "EMPTY"] /\ lease' = [lease EXCEPT ![i] = NoFrame]
      /\ ~ok => UNCHANGED <<st, lease>>
      /\ UNCHANGED <<f, image, upoll>>
  BY DEF GiveBack, PinLeft, SessRelease, HeldAfterPut
<1>2. /\ lease[i] \in Frame /\ lease[i] # NoFrame /\ lease[i] # wpending
      /\ \A j \in Slot : j # i => lease[j] # lease[i]
  BY DEF MediaTypes, FramesCohere, SlotsCohere, LeasesCohere
<1>3. SlotsCohere'
  BY <1>1 DEF MediaTypes, FramesCohere, SlotsCohere
<1>4. PinsCohere'
  <2>1. CASE pinned[i]
    BY <1>1, <1>2, <2>1 DEF MediaTypes, FramesCohere, PinsCohere, Unpin, Unpinned
  <2>2. CASE ~pinned[i]
    BY <1>1, <1>2, <2>2 DEF MediaTypes, FramesCohere, PinsCohere, memVars
  <2> QED BY <2>1, <2>2
<1>5. NoPinLost' /\ LeasesCohere' /\ WorkerHolds'
  BY <1>1, <1>2, NoFrameIsNone
  DEF MediaTypes, FramesCohere, SlotsCohere, NoPinLost, LeasesCohere, WorkerHolds
<1> QED BY <1>3, <1>4, <1>5 DEF FramesCohere

\* The worker returns its pending lease.
LEMMA ReturnCoheres ==
  ASSUME MediaTypes, FramesCohere, NEW ok \in BOOLEAN, wpending # NoFrame,
         SessRelease(wpending, ok), wpending' = IF ok THEN NoFrame ELSE wpending,
         UNCHANGED <<lease, pinned, image, upoll, memVars>>,
         UNCHANGED st \/ st' = Displaced, f'.quarantined = f.quarantined,
         wpc # "build", wpc' \notin {"submit", "build", "get"}
  PROVE  FramesCohere'
<1>1. held' = IF ok THEN held \ {wpending} ELSE held
  BY DEF SessRelease, HeldAfterPut
<1>2. SlotsCohere' /\ NoPinLost'
  BY DEF MediaTypes, FramesCohere, Displaced, SlotsCohere, NoPinLost
<1>3. PinsCohere'
  BY DEF FramesCohere, PinsCohere, memVars
<1>4. LeasesCohere' /\ WorkerHolds'
  BY <1>1, NoFrameIsNone
  DEF MediaTypes, FramesCohere, SlotsCohere, Displaced, LeasesCohere, WorkerHolds
<1> QED BY <1>2, <1>3, <1>4 DEF FramesCohere

\* submit() of the pending lease, which no slot has yet.
LEMMA SubmitCoheres ==
  ASSUME MediaTypes, FramesCohere, Submit
  PROVE  FramesCohere'
<1>1. wpc = "submit" /\ wpending # NoFrame /\ ~Known(wpending)
  BY DEF Submit, FramesCohere, LeasesCohere, WorkerHolds, Known
<1>2. CASE SubmitBuilds(wpending) /\ Goto("build")
  <2> DEFINE i == Lowest(Free)
  <2>1. i \in Slot /\ st[i] = "EMPTY"
    BY <1>2, LowestIsMember DEF SubmitBuilds, Free
  <2>2. /\ st' = [st EXCEPT ![i] = "BUILDING"] /\ lease' = [lease EXCEPT ![i] = wpending]
        /\ UNCHANGED <<f, pinned, image, upoll, memVars, held, wpending>> /\ wpc' = "build"
    BY <1>1, <1>2 DEF SubmitBuilds, Submit, Goto, sessVars
  <2> HIDE DEF i
  <2>3. SlotsCohere' /\ NoPinLost'
    BY <1>1, <2>1, <2>2 DEF MediaTypes, FramesCohere, SlotsCohere, NoPinLost
  <2>4. PinsCohere'
    BY <2>1, <2>2 DEF MediaTypes, FramesCohere, PinsCohere, SlotsCohere, memVars
  <2>5. \A j \in Slot : lease[j] # wpending /\ st[j] # "BUILDING"
    BY <1>1 DEF FramesCohere, SlotsCohere, WorkerHolds, Known
  <2>6. LeasesCohere'
    BY <1>1, <2>1, <2>2, <2>5, NoFrameIsNone
    DEF MediaTypes, FramesCohere, LeasesCohere, SlotsCohere
  <2>7. WorkerHolds'
    BY <1>1, <2>1, <2>2, <2>5 DEF MediaTypes, WorkerHolds
  <2> QED BY <2>3, <2>4, <2>6, <2>7 DEF FramesCohere
<1>3. CASE wpc' = "refused" /\ UNCHANGED frameVars
  <2>1. MailboxQuiet
    BY <1>1, <1>3 DEF Submit, MailboxQuiet, frameVars, sessVars
  <2> QED BY <2>1, QuietCoheres
<1> QED BY <1>1, <1>2, <1>3 DEF Submit

\* The frame is pinned and delivered, or nothing is kept of it.
LEMMA BuildCoheres ==
  ASSUME MediaTypes, FramesCohere, BuildDone
  PROVE  FramesCohere'
<1>1. wpc = "build" /\ wpending # NoFrame /\ UNCHANGED <<held, s>>
  BY DEF BuildDone, FramesCohere, WorkerHolds, sessVars
<1>2. ASSUME NEW i \in Slot, Build(i), Delivers
      PROVE  FramesCohere'
  <2>1. /\ st[i] = "BUILDING" /\ lease[i] = wpending /\ mem[wpending] = "live"
        /\ wpending \notin pins
        /\ pins' = pins \cup {wpending} /\ UNCHANGED mem
        /\ pinned' = [pinned EXCEPT ![i] = TRUE] /\ st' = Delivered(i)
        /\ UNCHANGED <<f, lease, image, upoll>>
        /\ wpending' = NoFrame /\ wpc' = "top"
    BY <1>2
    DEF Build, Building, Pinnable, Delivers, NextRound, FramesCohere, WorkerHolds
  <2>2. /\ st' \in [Slot -> SlotStates]
        /\ st'[i] \in {"READY", "DEFERRED", "RETURNING"}
        /\ \A j \in Slot : j # i =>
             st'[j] = st[j] \/ (st[j] \in {"READY", "DEFERRED"} /\ st'[j] = "RETURNING")
    BY <2>1 DEF MediaTypes, Delivered, Displaced, NewSlot, SlotStates
  <2>3. SlotsCohere' /\ NoPinLost'
    BY <1>1, <2>1, <2>2 DEF MediaTypes, FramesCohere, SlotsCohere, NoPinLost
  <2>4. PinsCohere'
    BY <1>1, <2>1 DEF MediaTypes, FramesCohere, PinsCohere
  <2>5. LeasesCohere' /\ WorkerHolds'
    BY <1>1, <2>1, <2>2, NoFrameIsNone
    DEF MediaTypes, FramesCohere, LeasesCohere, WorkerHolds, SlotsCohere
  <2> QED BY <2>3, <2>4, <2>5 DEF FramesCohere
<1>3. ASSUME NEW i \in Slot, BuildFails(i), wpc' = "refused", UNCHANGED wpending
      PROVE  FramesCohere'
  <2>1. /\ st[i] = "BUILDING" /\ lease[i] = wpending
        /\ st' = [st EXCEPT ![i] = "EMPTY"] /\ lease' = [lease EXCEPT ![i] = NoFrame]
        /\ UNCHANGED <<f, pinned, image, upoll, memVars>>
    BY <1>3 DEF BuildFails, Building, FramesCohere, WorkerHolds
  <2>2. SlotsCohere' /\ NoPinLost'
    BY <2>1 DEF MediaTypes, FramesCohere, SlotsCohere, NoPinLost
  <2>3. PinsCohere'
    BY <2>1 DEF MediaTypes, FramesCohere, PinsCohere, SlotsCohere, memVars
  <2>4. LeasesCohere' /\ WorkerHolds'
    BY <1>1, <1>3, <2>1, NoFrameIsNone
    DEF MediaTypes, FramesCohere, LeasesCohere, WorkerHolds, SlotsCohere
  <2> QED BY <2>2, <2>3, <2>4 DEF FramesCohere
<1> QED BY <1>2, <1>3 DEF BuildDone

\* A new lease, which no slot has, is the worker's.
LEMMA GetFrameCoheres ==
  ASSUME MediaTypes, SessTypeOK, FramesCohere, NEW new \in Decoded, NEW eos \in BOOLEAN,
         GetFrame(new, eos)
  PROVE  FramesCohere'
<1>1. /\ wpc = "get" /\ wpending = NoFrame /\ UNCHANGED <<frameVars, memVars>>
      /\ wpc' \in {"fault", "top", "submit"} /\ new \in Frame
  BY DEF GetFrame, FramesCohere, WorkerHolds, Fault, NextRound, Goto, Decoded, MediaTypes
<1>2. CASE s'.quarantined /\ UNCHANGED <<held, wpending>> /\ wpc' = "fault"
  <2>1. MailboxQuiet
    BY <1>1, <1>2 DEF MailboxQuiet, frameVars
  <2> QED BY <2>1, QuietCoheres
<1>3. CASE new \notin held /\ held' = held \cup {new} /\ wpending' = new
  <2>1. SlotsCohere' /\ PinsCohere' /\ NoPinLost'
    BY <1>1 DEF FramesCohere, SlotsCohere, PinsCohere, NoPinLost, frameVars, memVars
  <2>2. LeasesCohere' /\ WorkerHolds'
    BY <1>1, <1>3, NoFrameIsNone
    DEF MediaTypes, FramesCohere, LeasesCohere, WorkerHolds, SlotsCohere, frameVars
  <2> QED BY <2>1, <2>2 DEF FramesCohere
<1>4. CASE new \in held
  <2>1. s'.quarantined
    BY <1>4 DEF GetFrame, SessAcquire, SessTypeOK
  <2> QED BY <1>2, <1>4, <2>1 DEF GetFrame, SessAcquire, Fault, KeepStream, KeepLeases
<1>5. CASE new \notin held
  <2>1. ~s'.quarantined /\ held' = held \cup {new}
    BY <1>5 DEF GetFrame, SessAcquire, Usable
  <2> QED BY <1>3, <1>5, <2>1 DEF GetFrame
<1> QED BY <1>4, <1>5

-----------------------------------------------------------------------------
(* The three threads and the frames *)

LEMMA MediaTyped ==
  ASSUME TypeOK
  PROVE  MediaTypes /\ SessTypeOK
BY DEF TypeOK, MediaTypes, FramesTypeOK, MemTypeOK, SessTypeOK

LEMMA UiFrames ==
  ASSUME TypeOK, FramesCohere, LifeCoheres, Ui
  PROVE  FramesCohere'
<1>1. MediaTypes
  BY MediaTyped
<1>2. f \in [closing : BOOLEAN, quarantined : BOOLEAN, preserve : BOOLEAN]
  BY <1>1 DEF MediaTypes
<1>3. CASE Prepare \/ Request \/ Poll \/ Close \/ Destroy \/ \E on \in BOOLEAN : Preserve(on)
  <2>1. CASE Prepare
    BY <2>1, QuietCoheres
    DEF Prepare, MailboxQuiet, mediaVars, frameVars, sessVars, LifeCoheres
  <2>2. CASE Request \/ Poll \/ Close
    BY <2>2, QuietCoheres
    DEF Request, Poll, Close, MailboxQuiet, mediaVars, frameVars, sessVars, workVars
  <2>3. CASE Destroy
    <3>1. f'.quarantined = f.quarantined
      BY <1>2, <2>3 DEF Destroy, FramesCohere, NoPinLost
    <3> QED BY <2>3, <3>1, QuietCoheres DEF Destroy, MailboxQuiet, sessVars, LifeCoheres
  <2>4. CASE \E on \in BOOLEAN : Preserve(on)
    BY <1>2, <2>4, QuietCoheres DEF Preserve, FramesPreserve, MailboxQuiet, sessVars, workVars
  <2> QED BY <1>3, <2>1, <2>2, <2>3, <2>4
<1>4. CASE Seek \/ CloseFrames
  BY <1>1, <1>4, CloseCoheres DEF Seek, CloseFrames, sessVars, workVars
<1>5. CASE PollSlot
  <2>1. CASE UNCHANGED frameVars
    BY <1>5, <2>1, QuietCoheres DEF PollSlot, MailboxQuiet, frameVars, sessVars, workVars
  <2>2. CASE \E i \in Slot : PollClaim(i)
    BY <1>1, <1>5, <2>2, PollCoheres DEF PollSlot, sessVars, workVars, LifeCoheres
  <2> QED BY <1>5, <2>1, <2>2 DEF PollSlot
<1>6. CASE PollEnd
  <2>1. 1 \in Slot
    BY LeasesArePositive DEF Slot
  <2> QED BY <1>1, <1>6, <2>1, PollCoheres DEF PollEnd, sessVars, workVars
<1>7. CASE Readers(ReaderOpen) \/ Readers(ReaderClose) \/ Readers(ImageDestroy)
  BY <1>1, <1>7, PollCoheres DEF Readers, sessVars, workVars
<1> QED BY <1>3, <1>4, <1>5, <1>6, <1>7 DEF Ui

\* The worker's steps that leave the mailbox alone ...
WorkerQuiet ==
  \/ OpenSession \/ OpenSessionFails \/ Top \/ DrainDone \/ DrainFailed \/ Finish
  \/ SeekWaits \/ SeekCancelled \/ Reseek \/ ReseekFails \/ SeekDone \/ Report \/ SetVolume
  \/ NotStarted \/ Terminal \/ Run \/ GetNothing \/ Refused
  \/ \E ok \in BOOLEAN : Events(ok) \/ StartSession(ok) \/ SetPaused(ok)

LEMMA WorkerQuietFrames ==
  ASSUME TypeOK, FramesCohere, WorkerQuiet
  PROVE  FramesCohere'
<1>1. f \in [closing : BOOLEAN, quarantined : BOOLEAN, preserve : BOOLEAN]
  BY MediaTyped DEF MediaTypes
<1>2. CASE OpenSession \/ OpenSessionFails
  <2>1. MailboxQuiet
    BY <1>2 DEF OpenSession, OpenSessionFails, SessOpen, SessOpenFails, KeepLeases, Goto,
      NextRound, KeepStream, MailboxQuiet, frameVars
  <2> QED BY <2>1, QuietCoheres
<1>3. CASE Top \/ DrainDone \/ DrainFailed \/ Finish \/ SeekWaits \/ SeekCancelled
  <2>1. MailboxQuiet
    BY <1>3 DEF Top, DrainDone, DrainFailed, Finish, SeekWaits, SeekCancelled, Goto,
      NextRound, KeepStream, MailboxQuiet, mediaVars, frameVars, sessVars
  <2> QED BY <2>1, QuietCoheres
<1>4. CASE Reseek \/ ReseekFails \/ SeekDone \/ Report \/ SetVolume
  <2>1. MailboxQuiet
    BY <1>1, <1>4 DEF Reseek, ReseekFails, SeekDone, Report, SetVolume, Goto, Fault,
      SessSeek, SessVolume, FramesReopen, KeepLeases,
      NextRound, KeepStream, MailboxQuiet, mediaVars, frameVars, sessVars
  <2> QED BY <2>1, QuietCoheres
<1>5. CASE NotStarted \/ Terminal \/ Run \/ GetNothing \/ Refused
  <2>1. MailboxQuiet
    BY <1>5 DEF NotStarted, Terminal, Run, GetNothing, Refused, Running, Goto, Fault,
      NextRound, KeepStream, MailboxQuiet, mediaVars, frameVars, sessVars
  <2> QED BY <2>1, QuietCoheres
<1>6. CASE \E ok \in BOOLEAN : Events(ok) \/ StartSession(ok) \/ SetPaused(ok)
  <2>1. MailboxQuiet
    BY <1>6 DEF Events, StartSession, SetPaused, Running, SessStart, SessPause, KeepLeases,
      Goto, Fault, NextRound, KeepStream, MailboxQuiet, mediaVars, frameVars, sessVars
  <2> QED BY <2>1, QuietCoheres
<1> QED BY <1>2, <1>3, <1>4, <1>5, <1>6 DEF WorkerQuiet

\* ... and those that do not.
LEMMA WorkerBusyFrames ==
  ASSUME TypeOK, FramesCohere,
         \/ FaultFrames \/ Drain \/ CloseSession \/ CloseLater \/ SeekCloses \/ Fetch
         \/ Submit \/ BuildDone
         \/ \E ok \in BOOLEAN : DrainSlot(ok) \/ CloseBegins(ok) \/ SeekReturns(ok)
         \/ \E new \in Decoded, eos \in BOOLEAN : GetFrame(new, eos)
  PROVE  FramesCohere'
<1>1. MediaTypes /\ SessTypeOK
  BY MediaTyped
<1>2. CASE FaultFrames
  BY <1>1, <1>2, CloseCoheres DEF FaultFrames, Goto, KeepStream, sessVars
<1>3. CASE Drain
  BY <1>1, <1>3, PromoteCoheres DEF Drain, KeepStream, sessVars
<1>4. CASE CloseSession \/ CloseLater \/ SeekCloses
  <2>1. /\ UNCHANGED <<frameVars, held, wpending, pins>>
        /\ wpc \in {"idle", "seek"} /\ wpc' \in {"finish", "fault", "top", "cancelled"}
        /\ UNCHANGED memVars \/ FreeAll
    BY <1>4 DEF CloseSession, CloseLater, SeekCloses, TryLater, SessClose, SessCloseFails,
      KeepLeases, Goto, Fault, NextRound, KeepStream, sessVars, memVars
  <2>2. CASE UNCHANGED memVars
    BY <2>1, <2>2, QuietCoheres DEF MailboxQuiet, frameVars
  <2>3. CASE FreeAll
    BY <1>1, <2>1, <2>3, MemoryCoheres
  <2> QED BY <2>1, <2>2, <2>3
<1>5. CASE Fetch
  <2>1. /\ UNCHANGED <<frameVars, memVars, held, wpending>> /\ wpc = "fetch"
        /\ \/ wpc' = "top"
           \/ wpc' = "submit" /\ wpending # NoFrame
           \/ wpc' = "get" /\ wpending = NoFrame
    BY <1>5 DEF Fetch, NextRound, Goto, KeepStream, mediaVars, sessVars
  <2>2. SlotsCohere' /\ PinsCohere' /\ NoPinLost'
    BY <2>1 DEF FramesCohere, SlotsCohere, PinsCohere, NoPinLost, frameVars, memVars
  <2>3. LeasesCohere' /\ WorkerHolds'
    BY <2>1 DEF FramesCohere, LeasesCohere, WorkerHolds, frameVars
  <2> QED BY <2>2, <2>3 DEF FramesCohere
<1>6. CASE Submit \/ BuildDone
  BY <1>1, <1>6, SubmitCoheres, BuildCoheres
<1>7. CASE \E ok \in BOOLEAN : DrainSlot(ok)
  <2>1. PICK ok \in BOOLEAN : DrainSlot(ok)
    BY <1>7
  <2> DEFINE i == w.slot
  <2>2. i \in Slot /\ ~PinLost(i)
    BY <2>1 DEF DrainSlot, PinLost, FramesCohere, PinsCohere
  <2>3. UNCHANGED <<wpc, wpending>>
    BY <2>1 DEF DrainSlot, KeepStream
  <2>4. CASE st[i] # "RETURNING"
    <3>1. MailboxQuiet
      BY <2>1, <2>3, <2>4 DEF DrainSlot, MailboxQuiet, mediaVars, frameVars, sessVars
    <3> QED BY <3>1, QuietCoheres
  <2>5. CASE st[i] = "RETURNING"
    <3>1. GiveBack(i, ok)
      BY <2>1, <2>2, <2>5 DEF DrainSlot
    <3> QED BY <1>1, <2>2, <2>3, <2>5, <3>1, GiveBackCoheres
  <2> QED BY <2>4, <2>5
<1>8. CASE \E ok \in BOOLEAN : CloseBegins(ok)
  <2>1. PICK ok \in BOOLEAN : CloseBegins(ok)
    BY <1>8
  <2>2. /\ wpc = "close" /\ wpc' \in {"idle", "fault"} /\ FramesClose /\ UNCHANGED memVars
    BY <2>1 DEF CloseBegins, Goto, Fault
  <2>3. CASE wpending = NoFrame
    BY <1>1, <2>1, <2>2, <2>3, CloseCoheres DEF CloseBegins, sessVars
  <2>4. CASE wpending # NoFrame
    <3>1. SessRelease(wpending, ok) /\ wpending' = IF ok THEN NoFrame ELSE wpending
      BY <2>1, <2>4 DEF CloseBegins
    <3>2. /\ UNCHANGED <<lease, pinned, image, upoll>> /\ st' = Displaced
          /\ f'.quarantined = f.quarantined
      BY <1>1, <2>2 DEF FramesClose, MediaTypes
    <3> QED BY <1>1, <2>2, <2>4, <3>1, <3>2, ReturnCoheres
  <2> QED BY <2>3, <2>4
<1>9. CASE \E ok \in BOOLEAN : SeekReturns(ok)
  <2>1. PICK ok \in BOOLEAN : SeekReturns(ok)
    BY <1>9
  <2>2. /\ wpc = "seek" /\ wpc' \in {"seek", "fault"} /\ UNCHANGED <<frameVars, memVars>>
        /\ wpending # NoFrame /\ SessRelease(wpending, ok)
        /\ wpending' = IF ok THEN NoFrame ELSE wpending
    BY <2>1 DEF SeekReturns, Fault
  <2> QED BY <1>1, <2>2, ReturnCoheres DEF frameVars
<1>10. CASE \E new \in Decoded, eos \in BOOLEAN : GetFrame(new, eos)
  BY <1>1, <1>10, GetFrameCoheres
<1> QED BY <1>2, <1>3, <1>4, <1>5, <1>6, <1>7, <1>8, <1>9, <1>10

\* The decoder's threads.
LEMMA DecoderFrames ==
  ASSUME TypeOK, FramesCohere, Decoder
  PROVE  FramesCohere'
<1>1. MediaTypes
  BY MediaTyped
<1>2. CASE PlayEnd
  BY <1>2, QuietCoheres DEF Decoder, PlayEnd, KeepLeases, MailboxQuiet, frameVars, workVars
<1>3. CASE \E g \in Frame : DecoderAllocates(g) \/ DecoderFrees(g)
  BY <1>1, <1>3, MemoryCoheres
  DEF Decoder, DecoderAllocates, DecoderFrees, Allocate, FreeFrame, sessVars, workVars
<1> QED BY <1>2, <1>3 DEF Decoder

\* No step disturbs the mailbox.
LEMMA FramesStep ==
  ASSUME TypeOK, FramesCohere, LifeCoheres, [Next]_vars
  PROVE  FramesCohere'
<1>1. CASE Worker
  BY <1>1, WorkerQuietFrames, WorkerBusyFrames DEF Worker, WorkerQuiet
<1>2. CASE UNCHANGED vars
  BY <1>2, QuietCoheres DEF vars, mediaVars, frameVars, sessVars, workVars, MailboxQuiet
<1> QED BY <1>1, <1>2, UiFrames, DecoderFrames DEF Next

-----------------------------------------------------------------------------
(* The status *)

\* The types of what the status is about.
StatusTypes ==
  /\ p \in Fields /\ w \in Rounds
  /\ s \in [player : BOOLEAN, started : BOOLEAN, paused : BOOLEAN, faulted : BOOLEAN,
            quarantined : BOOLEAN, terminal : BOOLEAN, volume : Nat]
  /\ f \in [closing : BOOLEAN, quarantined : BOOLEAN, preserve : BOOLEAN]

USE DEF Fields, Rounds

LEMMA StatusTyped ==
  ASSUME TypeOK
  PROVE  StatusTypes
BY DEF TypeOK, StatusTypes, SessTypeOK, FramesTypeOK

\* What the status says, but for the end of the instance.
StatusReasons == StatusCoheres /\ SeekIsShown /\ VolumeIsTrue /\ TerminalIsTrue

\* What the status is about of the session is not touched.
SessionKept ==
  /\ s'.player = s.player /\ s'.terminal = s.terminal /\ s'.volume = s.volume
  /\ ~s'.player => s' = Closed

\* fault() closes the instance for good.
LEMMA FaultStatus ==
  ASSUME StatusTypes, StatusReasons, p' = Faulted, wpc' = "fault",
         w' = NoRound \/ w' = [NoRound EXCEPT !.closing = TRUE],
         wpc \notin {"gone", "none"}, UNCHANGED <<active, upc, upoll>>,
         ~s'.player => s' = Closed
  PROVE  StatusReasons'
<1>1. /\ p'.closing /\ p'.state = "FAULT" /\ ~p'.seekPending /\ p'.finished = p.finished
      /\ ~w'.seek /\ ~w'.terminal /\ (w'.closing => p'.closing)
  BY DEF StatusTypes, Faulted, NoRound
<1> QED BY <1>1 DEF StatusReasons, StatusCoheres, LifeCoheres, ClosingCoheres, EndCoheres,
      SeekIsShown, VolumeIsTrue, TerminalIsTrue

\* A round that ends without touching the fields.
LEMMA RoundStatus ==
  ASSUME StatusTypes, StatusReasons, SessionKept, NextRound, UNCHANGED <<p, active, upc, upoll>>,
         wpc \notin {"gone", "none", "seekdone"}, f'.closing = f.closing,
         wpending' = wpending \/ wpending' = NoFrame \/ p.state # "TERMINAL"
  PROVE  StatusReasons'
<1>1. wpc' = "top" /\ ~w'.closing /\ ~w'.seek /\ ~w'.terminal
  BY DEF NextRound, NoRound
<1> QED BY <1>1 DEF StatusReasons, StatusCoheres, LifeCoheres, ClosingCoheres, EndCoheres,
      SeekIsShown, VolumeIsTrue, TerminalIsTrue, SessionKept

\* A step within a round that touches neither.
LEMMA WithinStatus ==
  ASSUME StatusTypes, StatusReasons, SessionKept, UNCHANGED <<p, active, upc, upoll, wpc>>,
         wpc \notin {"gone", "none"}, w'.closing = w.closing, w'.seek = w.seek,
         w'.terminal = w.terminal, f'.closing = f.closing,
         wpending' = wpending \/ wpending' = NoFrame
  PROVE  StatusReasons'
BY DEF StatusReasons, StatusCoheres, LifeCoheres, ClosingCoheres, EndCoheres, SeekIsShown,
  VolumeIsTrue, TerminalIsTrue, SessionKept

\* A release changes the session's faulted field only ...
LEMMA ReleaseKeeps ==
  ASSUME StatusTypes, StatusReasons, NEW g, NEW ok \in BOOLEAN, SessRelease(g, ok)
  PROVE  SessionKept
<1> DEFINE known == s.player /\ ~s.quarantined /\ g \in held
           b == s.faulted \/ (~ok /\ known)
<1>1. s' = [s EXCEPT !.faulted = b]
  BY DEF SessRelease
<1>2. b \in BOOLEAN /\ (~s.player => b = s.faulted)
  BY DEF StatusTypes
<1>3. ~s.player => s = Closed
  BY DEF StatusReasons, StatusCoheres, LifeCoheres
<1> HIDE DEF b
<1> QED BY <1>1, <1>2, <1>3 DEF StatusTypes, Closed, SessionKept

\* ... and so do the calls of a round, or they change what the status is not about.
LEMMA CallsKeep ==
  ASSUME StatusTypes, StatusReasons,
         \/ UNCHANGED s
         \/ SessCloseFails
         \/ \E ok \in BOOLEAN : SessStart(ok) \/ SessPause(w.pause, ok)
         \/ \E new \in Decoded : SessAcquire(new)
  PROVE  SessionKept
<1>1. ~s.player => s = Closed
  BY DEF StatusReasons, StatusCoheres, LifeCoheres
<1> USE DEF StatusTypes, SessionKept
<1>2. CASE UNCHANGED s
  BY <1>1, <1>2
<1>3. CASE SessCloseFails
  <2>1. CASE UNCHANGED s
    BY <1>1, <2>1
  <2>2. CASE s.player /\ s' = [s EXCEPT !.faulted = TRUE]
    BY <2>2
  <2>3. CASE s.player /\ s' = [s EXCEPT !.faulted = TRUE, !.started = FALSE, !.paused = FALSE]
    BY <2>3
  <2> QED BY <1>3, <2>1, <2>2, <2>3 DEF SessCloseFails, sessVars
<1>4. ASSUME NEW ok \in BOOLEAN, SessStart(ok) PROVE SessionKept
  BY <1>1, <1>4 DEF SessStart, Usable
<1>5. ASSUME NEW ok \in BOOLEAN, SessPause(w.pause, ok) PROVE SessionKept
  BY <1>1, <1>5 DEF SessPause, Usable
<1>6. ASSUME NEW new \in Decoded, SessAcquire(new) PROVE SessionKept
  BY <1>1, <1>6 DEF SessAcquire, Usable, sessVars
<1> QED BY <1>2, <1>3, <1>4, <1>5, <1>6

\* The calls of the UI thread that ask for something.
LEMMA RequestStatus ==
  ASSUME StatusTypes, StatusReasons,
         \/ Prepare \/ Request \/ Seek \/ Poll \/ Close
  PROVE  StatusReasons'
<1> USE DEF StatusReasons, StatusCoheres, LifeCoheres, ClosingCoheres, EndCoheres,
        SeekIsShown, VolumeIsTrue, TerminalIsTrue, StatusTypes, mediaVars, sessVars,
        frameVars, workVars
<1>1. CASE Prepare
  BY <1>1 DEF Prepare, Fresh
<1>2. CASE Request
  BY <1>2 DEF Request, UiIdle, Open
<1>3. CASE Seek
  BY <1>3 DEF Seek, UiIdle, Open, FramesClose
<1>4. CASE Poll
  BY <1>4 DEF Poll, UiIdle, Open
<1>5. CASE Close
  BY <1>5 DEF Close, UiIdle, ClosingState
<1> QED BY <1>1, <1>2, <1>3, <1>4, <1>5

\* Destroying leaves a fresh instance.
LEMMA DestroyStatus ==
  ASSUME StatusTypes, StatusReasons, Destroy
  PROVE  StatusReasons'
<1>1. /\ p' = Fresh /\ wpc' = "none" /\ ~active' /\ UNCHANGED <<s, upc, upoll, w, wpending>>
      /\ p.finished
  BY DEF Destroy, sessVars
<1>2. /\ ~p'.closing /\ ~p'.seekPending /\ p'.state = "OPENING" /\ ~p'.finished
      /\ ~p'.sdkTerminal /\ p'.volume = NoVolume
  BY <1>1 DEF Fresh
<1>3. ~w'.closing /\ ~w'.seek /\ ~w'.terminal /\ wpc = "gone" /\ w' = NoRound
  BY <1>1 DEF StatusReasons, StatusCoheres, LifeCoheres, NoRound
<1> QED BY <1>1, <1>2, <1>3 DEF StatusReasons, StatusCoheres, LifeCoheres, ClosingCoheres,
      EndCoheres, SeekIsShown, VolumeIsTrue, TerminalIsTrue

\* The calls of the UI thread that touch the mailbox only.
LEMMA MailboxStatus ==
  ASSUME StatusTypes, StatusReasons,
         \/ PollSlot \/ PollEnd \/ CloseFrames \/ \E on \in BOOLEAN : Preserve(on)
         \/ Readers(ReaderOpen) \/ Readers(ReaderClose) \/ Readers(ImageDestroy)
  PROVE  StatusReasons'
<1>1. UNCHANGED <<s, wpending, active, p, wpc, w>>
  BY DEF PollSlot, PollEnd, CloseFrames, Preserve, Readers, sessVars, workVars
<1>2. f'.closing = f.closing \/ f'.closing
  BY DEF StatusTypes, PollSlot, PollEnd, CloseFrames, Preserve, Readers, ReaderOpen, ReaderClose,
      ImageDestroy, FramesClose, FramesPreserve, PollClaim, PollImage, PollFails, frameVars
<1>3. upc' # "idle" => upoll' = 0
  BY DEF StatusReasons, StatusCoheres, LifeCoheres, UiIdle, PollSlot, PollEnd, CloseFrames,
      Preserve, Readers, ReaderOpen, ReaderClose, ImageDestroy, FramesClose, FramesPreserve,
      PollImage, PollFails
<1> QED BY <1>1, <1>2, <1>3 DEF StatusReasons, StatusCoheres, LifeCoheres, ClosingCoheres,
      EndCoheres, SeekIsShown, VolumeIsTrue, TerminalIsTrue

\* Opening a session, closing it for good and finishing.
LEMMA OpenStatus ==
  ASSUME StatusTypes, StatusReasons, UNCHANGED <<active, upc>>,
         \/ FaultFrames \/ OpenSession \/ OpenSessionFails \/ CloseSession \/ Finish
  PROVE  StatusReasons'
<1> USE DEF StatusReasons, StatusCoheres, LifeCoheres, ClosingCoheres, EndCoheres,
        SeekIsShown, VolumeIsTrue, TerminalIsTrue, StatusTypes, Goto, NextRound, NoRound,
        KeepStream, mediaVars, sessVars, frameVars, workVars
<1>1. CASE FaultFrames
  BY <1>1 DEF FaultFrames, FramesClose
<1>2. CASE OpenSession
  BY <1>2 DEF OpenSession, SessOpen, KeepLeases, VolumeAfterOpen, Closed
<1>3. CASE OpenSessionFails
  <2>1. /\ wpc \in {"open", "reopen"} /\ ~s.player /\ wpc' = "fault" /\ w' = NoRound
        /\ UNCHANGED <<held, older>>
        /\ \/ UNCHANGED s
           \/ \E bad \in BOOLEAN : s' = [s EXCEPT !.player = TRUE, !.faulted = bad]
    BY <1>3 DEF OpenSessionFails, SessOpenFails, KeepLeases
  <2>2. PICK got \in BOOLEAN :
          (got => HasAudio /\ s'.player) /\ p' = [Faulted EXCEPT !.ownsAudio = @ \/ got]
    BY <1>3 DEF OpenSessionFails
  <2>3. /\ p'.state = "FAULT" /\ ~p'.seekPending /\ p'.closing /\ p'.finished = p.finished
    BY <2>2 DEF Faulted
  <2>4. ~s'.player => s' = Closed
    BY <2>1
  <2>5. UNCHANGED upoll
    BY <1>3 DEF OpenSessionFails
  <2>6. ~w'.closing /\ ~w'.seek /\ ~w'.terminal
    BY <2>1
  <2> QED BY <2>1, <2>3, <2>4, <2>5, <2>6
<1>4. CASE CloseSession
  BY <1>4 DEF CloseSession, SessClose, KeepLeases, Closed
<1>5. CASE Finish
  BY <1>5 DEF Finish
<1> QED BY <1>1, <1>2, <1>3, <1>4, <1>5

\* The start of a round, and a seek.
LEMMA RoundsStatus ==
  ASSUME StatusTypes, StatusReasons, UNCHANGED <<active, upc>>,
         \/ Top \/ Drain \/ DrainDone \/ DrainFailed \/ SeekWaits \/ SeekCancelled
         \/ Reseek \/ ReseekFails \/ SeekDone
  PROVE  StatusReasons'
<1> USE DEF StatusReasons, StatusCoheres, LifeCoheres, ClosingCoheres, EndCoheres,
        SeekIsShown, VolumeIsTrue, TerminalIsTrue, StatusTypes, Goto, NextRound, NoRound,
        KeepStream, mediaVars, sessVars, frameVars, workVars
<1>1. CASE Top
  BY <1>1 DEF Top
<1>2. CASE Drain
  BY <1>2 DEF Drain, Promote
<1>3. CASE DrainDone
  BY <1>3 DEF DrainDone
<1>4. CASE DrainFailed
  BY <1>4 DEF DrainFailed, Faulted
<1>5. CASE SeekWaits
  BY <1>5 DEF SeekWaits
<1>6. CASE SeekCancelled
  BY <1>6 DEF SeekCancelled
<1>7. CASE Reseek
  BY <1>7 DEF Reseek, SessSeek, FramesReopen, KeepLeases, Usable
<1>8. CASE ReseekFails
  BY <1>8 DEF ReseekFails, SessSeek, KeepLeases, Usable, Fault, Faulted
<1>9. CASE SeekDone
  BY <1>9 DEF SeekDone, TerminalAfterSeek
<1> QED BY <1>1, <1>2, <1>3, <1>4, <1>5, <1>6, <1>7, <1>8, <1>9

\* Playing.
LEMMA PlayStatus ==
  ASSUME StatusTypes, StatusReasons, UNCHANGED <<active, upc>>,
         \/ Report \/ NotStarted \/ Terminal \/ Run \/ Fetch \/ GetNothing \/ Submit
         \/ BuildDone
  PROVE  StatusReasons'
<1> USE DEF StatusReasons, StatusCoheres, LifeCoheres, ClosingCoheres, EndCoheres,
        SeekIsShown, VolumeIsTrue, TerminalIsTrue, StatusTypes, Goto, NextRound, NoRound,
        KeepStream, mediaVars, sessVars, frameVars, workVars
<1>1. CASE Report
  BY <1>1 DEF Report
<1>2. CASE NotStarted
  BY <1>2 DEF NotStarted
<1>3. CASE Terminal
  BY <1>3 DEF Terminal, Running, Ended, Show, Showable
<1>4. CASE Run
  BY <1>4 DEF Run, Running, Ended, Show, Showable
<1>5. CASE Fetch
  BY <1>5 DEF Fetch
<1>6. CASE GetNothing
  BY <1>6 DEF GetNothing
<1>7. CASE Submit
  BY <1>7 DEF Submit, Delivers, SubmitBuilds
<1>8. CASE BuildDone
  BY <1>8 DEF BuildDone, Delivers, Build, BuildFails
<1> QED BY <1>1, <1>2, <1>3, <1>4, <1>5, <1>6, <1>7, <1>8

\* The worker's steps that may end in a fault or in a new round.
LEMMA DrainSlotStatus ==
  ASSUME StatusTypes, StatusReasons, NEW ok \in BOOLEAN, DrainSlot(ok),
         UNCHANGED <<active, upc>>
  PROVE  StatusReasons'
<1>1. /\ UNCHANGED <<p, wpc, wpending, upoll>> /\ wpc = "giveback"
      /\ w'.closing = w.closing /\ w'.seek = w.seek /\ w'.terminal = w.terminal
      /\ f'.closing = f.closing
  BY DEF StatusTypes, DrainSlot, KeepStream, mediaVars, frameVars, KeepAll, GiveBack
<1>2. UNCHANGED s \/ SessRelease(lease[w.slot], ok)
  BY DEF DrainSlot, mediaVars, sessVars, KeepAll, GiveBack
<1>3. SessionKept
  BY <1>2, ReleaseKeeps, CallsKeep
<1> QED BY <1>1, <1>3, WithinStatus

LEMMA CloseLaterStatus ==
  ASSUME StatusTypes, StatusReasons, CloseLater, UNCHANGED <<active, upc>>
  PROVE  StatusReasons'
<1>1. /\ UNCHANGED <<f, upoll, wpending>> /\ wpc = "idle"
      /\ \/ Fault
         \/ NextRound /\ UNCHANGED p
  BY DEF CloseLater, TryLater, KeepStream, frameVars
<1>2. SessionKept
  BY CallsKeep DEF CloseLater, sessVars
<1> QED BY <1>1, <1>2, FaultStatus, RoundStatus DEF Fault, SessionKept

LEMMA CloseBeginsStatus ==
  ASSUME StatusTypes, StatusReasons, NEW ok \in BOOLEAN, CloseBegins(ok),
         UNCHANGED <<active, upc>>
  PROVE  StatusReasons'
<1>1. /\ UNCHANGED upoll /\ f'.closing /\ wpc = "close"
      /\ \/ Fault
         \/ Goto("idle") /\ UNCHANGED p
      /\ wpending' = wpending \/ wpending' = NoFrame
  BY DEF StatusTypes, CloseBegins, FramesClose
<1>2. SessionKept
  BY ReleaseKeeps, CallsKeep DEF CloseBegins, sessVars
<1>3. CASE Fault
  BY <1>1, <1>2, <1>3, FaultStatus DEF Fault, SessionKept
<1>4. CASE Goto("idle") /\ UNCHANGED p
  BY <1>1, <1>2, <1>4 DEF Goto, StatusReasons, StatusCoheres, LifeCoheres, ClosingCoheres,
      EndCoheres, SeekIsShown, VolumeIsTrue, TerminalIsTrue, SessionKept
<1> QED BY <1>1, <1>3, <1>4

LEMMA SeekClosesStatus ==
  ASSUME StatusTypes, StatusReasons, SeekCloses, UNCHANGED <<active, upc>>
  PROVE  StatusReasons'
<1>1. CASE SessClose /\ Goto("cancelled") /\ UNCHANGED p
  BY <1>1 DEF SeekCloses, SessClose, Closed, Goto, KeepStream, frameVars, StatusTypes,
      StatusReasons, StatusCoheres, LifeCoheres, ClosingCoheres, EndCoheres, SeekIsShown,
      VolumeIsTrue, TerminalIsTrue
<1>2. CASE SessCloseFails /\ Fault
  BY <1>2, CallsKeep, FaultStatus DEF SeekCloses, Fault, SessionKept, frameVars
<1> QED BY <1>1, <1>2 DEF SeekCloses

LEMMA SeekReturnsStatus ==
  ASSUME StatusTypes, StatusReasons, NEW ok \in BOOLEAN, SeekReturns(ok),
         UNCHANGED <<active, upc>>
  PROVE  StatusReasons'
<1>1. SessionKept
  BY ReleaseKeeps DEF SeekReturns
<1>2. CASE ok
  BY <1>1, <1>2, WithinStatus DEF SeekReturns, frameVars
<1>3. CASE ~ok
  BY <1>1, <1>3, FaultStatus DEF SeekReturns, frameVars, Fault, SessionKept
<1> QED BY <1>2, <1>3

LEMMA SetVolumeStatus ==
  ASSUME StatusTypes, StatusReasons, SetVolume, UNCHANGED <<active, upc>>
  PROVE  StatusReasons'
<1>1. CASE SessVolume(w.volume) /\ p' = [p EXCEPT !.volume = w.volume] /\ Goto("run")
  BY <1>1 DEF SetVolume, SessVolume, Usable, Goto, KeepStream, frameVars, StatusTypes,
      StatusReasons, StatusCoheres, LifeCoheres, ClosingCoheres, EndCoheres, SeekIsShown,
      VolumeIsTrue, TerminalIsTrue
<1>2. CASE UNCHANGED sessVars /\ Fault
  BY <1>2, CallsKeep, FaultStatus DEF SetVolume, Fault, SessionKept, frameVars, sessVars
<1> QED BY <1>1, <1>2 DEF SetVolume

LEMMA CallsStatus ==
  ASSUME StatusTypes, StatusReasons, NEW ok \in BOOLEAN,
         Events(ok) \/ StartSession(ok) \/ SetPaused(ok), UNCHANGED <<active, upc>>
  PROVE  StatusReasons'
<1>1. SessionKept /\ UNCHANGED <<f, upoll, wpending>> /\ wpc \in {"events", "run"}
  BY CallsKeep DEF Events, StartSession, SetPaused, Running, KeepStream, mediaVars, frameVars,
      sessVars
<1>2. CASE Fault
  BY <1>1, <1>2, FaultStatus DEF Fault, SessionKept
<1>3. CASE UNCHANGED <<wpc, w, p>>
  BY <1>1, <1>3, WithinStatus
<1>4. CASE Events(ok) /\ ok
  BY <1>4 DEF Events, KeepStream, mediaVars, frameVars, sessVars, StatusTypes,
      StatusReasons, StatusCoheres, LifeCoheres, ClosingCoheres, EndCoheres, SeekIsShown,
      VolumeIsTrue, TerminalIsTrue
<1> QED BY <1>2, <1>3, <1>4 DEF Events, StartSession, SetPaused

LEMMA RefusedStatus ==
  ASSUME StatusTypes, StatusReasons, Refused, UNCHANGED <<active, upc>>
  PROVE  StatusReasons'
<1>1. SessionKept /\ UNCHANGED <<f, upoll, wpending>> /\ wpc = "refused"
  BY CallsKeep DEF Refused, KeepStream, mediaVars, frameVars, sessVars
<1> QED BY <1>1, FaultStatus, RoundStatus DEF Refused, Fault, SessionKept

LEMMA GetFrameStatus ==
  ASSUME StatusTypes, StatusReasons, NEW new \in Decoded, NEW eos \in BOOLEAN,
         GetFrame(new, eos), UNCHANGED <<active, upc>>
  PROVE  StatusReasons'
<1>1. SessionKept /\ UNCHANGED <<f, upoll>> /\ wpc = "get" /\ p.state # "TERMINAL"
  BY CallsKeep DEF GetFrame, frameVars, StatusReasons, StatusCoheres, EndCoheres
<1>2. CASE Fault
  BY <1>1, <1>2, FaultStatus DEF Fault, SessionKept
<1>3. CASE NextRound /\ UNCHANGED p
  BY <1>1, <1>3, RoundStatus
<1>4. CASE Goto("submit") /\ UNCHANGED p
  BY <1>1, <1>4 DEF Goto, StatusReasons, StatusCoheres, LifeCoheres, ClosingCoheres,
      EndCoheres, SeekIsShown, VolumeIsTrue, TerminalIsTrue, SessionKept
<1> QED BY <1>2, <1>3, <1>4 DEF GetFrame

\* The decoder's threads.
LEMMA DecoderStatus ==
  ASSUME StatusTypes, StatusReasons, Decoder
  PROVE  StatusReasons'
<1>1. UNCHANGED <<frameVars, active, p, upc, wpc, w, wpending>>
  BY DEF Decoder, workVars
<1>2. UNCHANGED s \/ (s.started /\ s' = [s EXCEPT !.terminal = TRUE])
  BY DEF Decoder, PlayEnd, DecoderAllocates, DecoderFrees, sessVars
<1> QED BY <1>1, <1>2 DEF StatusTypes, Closed, StatusReasons, StatusCoheres, LifeCoheres,
      ClosingCoheres, EndCoheres, SeekIsShown, VolumeIsTrue, TerminalIsTrue, frameVars

\* No step makes the status lie.
LEMMA StatusStep ==
  ASSUME TypeOK, StatusReasons, [Next]_vars
  PROVE  StatusReasons'
<1>1. StatusTypes
  BY StatusTyped
<1>2. CASE Ui
  BY <1>1, <1>2, RequestStatus, DestroyStatus, MailboxStatus DEF Ui
<1>3. CASE Worker
  <2>1. UNCHANGED <<active, upc>>
    BY <1>3 DEF Worker
  <2>2. CASE \/ FaultFrames \/ OpenSession \/ OpenSessionFails \/ CloseSession \/ CloseLater
            \/ Finish \/ \E ok \in BOOLEAN : CloseBegins(ok)
    BY <1>1, <2>1, <2>2, OpenStatus, CloseLaterStatus, CloseBeginsStatus
  <2>3. CASE \/ Top \/ Drain \/ DrainDone \/ DrainFailed \/ \E ok \in BOOLEAN : DrainSlot(ok)
    BY <1>1, <2>1, <2>3, RoundsStatus, DrainSlotStatus
  <2>4. CASE \/ SeekWaits \/ SeekCloses \/ SeekCancelled \/ Reseek \/ ReseekFails \/ SeekDone
            \/ \E ok \in BOOLEAN : SeekReturns(ok)
    BY <1>1, <2>1, <2>4, RoundsStatus, SeekClosesStatus, SeekReturnsStatus
  <2>5. CASE \/ Report \/ SetVolume \/ NotStarted \/ Terminal \/ Run
            \/ \E ok \in BOOLEAN : Events(ok) \/ StartSession(ok) \/ SetPaused(ok)
    BY <1>1, <2>1, <2>5, PlayStatus, SetVolumeStatus, CallsStatus
  <2>6. CASE \/ Fetch \/ GetNothing \/ Submit \/ BuildDone \/ Refused
            \/ \E new \in Decoded, eos \in BOOLEAN : GetFrame(new, eos)
    BY <1>1, <2>1, <2>6, PlayStatus, RefusedStatus, GetFrameStatus
  <2> QED BY <1>3, <2>2, <2>3, <2>4, <2>5, <2>6 DEF Worker
<1>4. CASE Decoder
  BY <1>1, <1>4, DecoderStatus
<1>5. CASE UNCHANGED vars
  BY <1>5 DEF vars, mediaVars, frameVars, sessVars, workVars, StatusReasons, StatusCoheres,
      LifeCoheres, ClosingCoheres, EndCoheres, SeekIsShown, VolumeIsTrue, TerminalIsTrue
<1> QED BY <1>2, <1>3, <1>4, <1>5 DEF Next

-----------------------------------------------------------------------------
(* The end of an instance *)

\* The UI thread finds nothing to poll, read or give back any more.
LEMMA UiQuiet ==
  ASSUME TypeOK, LifeCoheres, FinishedIsQuiet, Ui
  PROVE  FinishedIsQuiet'
<1>1. MediaTypes /\ StatusTypes
  BY MediaTyped, StatusTyped
<1>2. SUFFICES ASSUME wpc' \in {"finish", "gone", "none"}
               PROVE  FinishedIsQuiet'
  BY DEF FinishedIsQuiet
<1>3. UNCHANGED <<sessVars, memVars>>
  BY DEF Ui, Prepare, Request, Seek, Poll, PollSlot, PollEnd, Close, CloseFrames, Destroy,
      Preserve, Readers, mediaVars
<1>4. wpc \in {"finish", "gone", "none"} /\ ~Prepare
  BY <1>2 DEF Ui, Prepare, Request, Seek, Poll, PollSlot, PollEnd, Close, CloseFrames, Destroy,
      Preserve, Readers, workVars, LifeCoheres
<1>5. upoll = 0 /\ \A i \in Slot : st[i] = "EMPTY" /\ image[i] = "none"
  BY <1>4 DEF FinishedIsQuiet
<1>6. ~p'.ownsAudio
  <2>1. ~p.ownsAudio
    BY <1>4 DEF FinishedIsQuiet
  <2>2. CASE Request \/ Seek \/ Close
    BY <1>1, <2>1, <2>2 DEF StatusTypes, Request, Seek, Close
  <2>3. CASE Destroy
    BY <2>3 DEF Destroy, Fresh
  <2>4. CASE ~Request /\ ~Seek /\ ~Close /\ ~Destroy
    BY <1>4, <2>1, <2>4 DEF Ui, Poll, PollSlot, PollEnd, CloseFrames, Preserve, Readers
  <2> QED BY <2>2, <2>3, <2>4
<1>7. UNCHANGED <<image, upoll, st>>
  <2>1. ~PollEnd /\ ~Readers(ReaderOpen) /\ ~Readers(ReaderClose) /\ ~Readers(ImageDestroy)
    BY <1>5 DEF PollEnd, PollImage, PollFails, Readers, ReaderOpen, ReaderClose, ImageDestroy
  <2>2. Pollable = {}
    BY <1>5 DEF Pollable
  <2>3. FramesClose => UNCHANGED <<image, upoll, st>>
    BY <1>1, <1>5 DEF FramesClose, Displaced, MediaTypes
  <2> QED BY <1>4, <2>1, <2>2, <2>3 DEF Ui, Request, Seek, Poll, PollSlot, Close, CloseFrames,
        Destroy, Preserve, FramesPreserve, mediaVars, frameVars
<1> QED BY <1>2, <1>3, <1>4, <1>5, <1>6, <1>7
    DEF FinishedIsQuiet, sessVars, memVars, Unused

\* Closing the session finds no lease, so no slot in use and no pin, and the decoder
\* takes its memory with it.
LEMMA WorkerQuietens ==
  ASSUME TypeOK, FramesCohere, FinishedIsQuiet, Worker
  PROVE  FinishedIsQuiet'
<1>1. MediaTypes /\ StatusTypes
  BY MediaTyped, StatusTyped
<1>2. CASE CloseSession
  <2>1. \A i \in Slot : st[i] = "EMPTY"
    BY <1>2 DEF CloseSession, Idle
  <2>2. /\ s' = Closed /\ held' = {} /\ FreeAll /\ UNCHANGED <<pins, frameVars>>
        /\ p' = [p EXCEPT !.ownsAudio = FALSE]
    BY <1>2 DEF CloseSession, SessClose, MayStop, KeepLeases
  <2>3. upoll = 0 /\ \A i \in Slot : image[i] = "none" /\ ~pinned[i]
    <3>1. upoll # 0 => upoll \in Slot
      BY <1>1, LeasesArePositive DEF MediaTypes, Slot
    <3> QED BY <2>1, <3>1 DEF FramesCohere, SlotsCohere
  <2>4. pins = {}
    BY <2>3 DEF FramesCohere, PinsCohere
  <2>5. \A g \in Frame : mem'[g] = "free"
    BY <1>1, <2>2, <2>4 DEF FreeAll, Freed, FramesCohere, PinsCohere, MediaTypes
  <2> QED BY <1>1, <2>1, <2>2, <2>3, <2>4, <2>5
      DEF FinishedIsQuiet, frameVars, Closed, StatusTypes, Unused
<1>3. CASE Finish
  BY <1>1, <1>3 DEF Finish, FinishedIsQuiet, StatusTypes, mediaVars, frameVars, sessVars,
      memVars, Unused
<1>4. CASE ~CloseSession /\ ~Finish
  <2>1. wpc' \notin {"finish", "gone", "none"}
    BY <1>4
    DEF Worker, FaultFrames, OpenSession, OpenSessionFails, Top, Drain, DrainDone, DrainFailed,
      CloseLater, SeekWaits, SeekCloses, SeekCancelled, Reseek, ReseekFails, SeekDone, Report,
      SetVolume, NotStarted, Terminal, Run, Running, Fetch, GetNothing, Submit, BuildDone,
      Refused, DrainSlot, CloseBegins, SeekReturns, Events, StartSession, SetPaused, GetFrame,
      TryLater, Fault, Goto, NextRound, Delivers, KeepStream
  <2> QED BY <2>1 DEF FinishedIsQuiet
<1> QED BY <1>2, <1>3, <1>4

LEMMA QuietStep ==
  ASSUME TypeOK, FramesCohere, LifeCoheres, FinishedIsQuiet, [Next]_vars
  PROVE  FinishedIsQuiet'
<1>1. CASE Decoder
  <2>1. s.started => s.player
    BY DEF LifeCoheres, Closed
  <2>2. UNCHANGED <<st, image, upoll, held, p, wpc>> /\ s.started
    BY <1>1 DEF Decoder, PlayEnd, DecoderAllocates, DecoderFrees, KeepLeases, frameVars,
      workVars, sessVars
  <2> QED BY <2>1, <2>2 DEF FinishedIsQuiet
<1>2. CASE UNCHANGED vars
  BY <1>2 DEF vars, mediaVars, frameVars, sessVars, memVars, workVars, FinishedIsQuiet, Unused
<1> QED BY <1>1, <1>2, UiQuiet, WorkerQuietens DEF Next

HIDE DEF Fields, Rounds

-----------------------------------------------------------------------------
(* The types *)

\* What the session is after each of its calls.
LEMMA SessionTypes ==
  ASSUME SessTypeOK, NEW ok \in BOOLEAN, NEW on \in BOOLEAN, NEW v \in Nat,
         \/ SessOpen \/ SessOpenFails \/ SessClose \/ SessCloseFails \/ SessStart(ok)
         \/ SessPause(on, ok) \/ SessVolume(v) \/ SessSeek(ok) \/ PlayEnd
         \/ \E g \in Frame : SessAcquire(g) \/ SessRelease(g, ok)
         \/ UNCHANGED sessVars
  PROVE  SessTypeOK'
<1> DEFINE S == [player : BOOLEAN, started : BOOLEAN, paused : BOOLEAN, faulted : BOOLEAN,
                 quarantined : BOOLEAN, terminal : BOOLEAN, volume : Nat]
<1>1. s \in S
  BY DEF SessTypeOK
<1>2. Closed \in S
  BY DEF Closed, NoVolume
<1>3. CASE SessOpen \/ SessOpenFails
  BY <1>1, <1>3 DEF SessTypeOK, SessOpen, SessOpenFails, KeepLeases
<1>4. CASE SessClose \/ SessCloseFails
  BY <1>1, <1>2, <1>4 DEF SessTypeOK, SessClose, SessCloseFails, KeepLeases, sessVars
<1>5. CASE SessStart(ok) \/ SessPause(on, ok)
  BY <1>1, <1>5 DEF SessTypeOK, SessStart, SessPause, KeepLeases
<1>6. CASE SessVolume(v) \/ SessSeek(ok) \/ PlayEnd \/ UNCHANGED sessVars
  BY <1>1, <1>6 DEF SessTypeOK, SessVolume, SessSeek, PlayEnd, KeepLeases, sessVars
<1>7. CASE \E g \in Frame : SessAcquire(g)
  BY <1>1, <1>7 DEF SessTypeOK, SessAcquire, KeepLeases
<1>8. CASE \E g \in Frame : SessRelease(g, ok)
  BY <1>1, <1>8 DEF SessTypeOK, SessRelease, HeldAfterPut
<1> QED BY <1>3, <1>4, <1>5, <1>6, <1>7, <1>8

\* What the mailbox is after each of its sections.
LEMMA MailboxTypes ==
  ASSUME FramesTypeOK, NEW i \in Slot, NEW ok \in BOOLEAN, NEW on \in BOOLEAN,
         \/ \E g \in Frame : SubmitBuilds(g)
         \/ BuildFails(i) \/ Build(i) \/ Promote \/ KeepAll(i)
         \/ GiveBack(i, ok) \/ FramesPreserve(on) \/ FramesClose \/ FramesReopen
         \/ PollClaim(i) \/ PollImage \/ PollFails \/ ReaderOpen(i) \/ ReaderClose(i)
         \/ ImageDestroy(i) \/ UNCHANGED frameVars
  PROVE  FramesTypeOK'
<1> USE DEF FramesTypeOK, SlotStates
<1>1. CASE \E g \in Frame : SubmitBuilds(g)
  <2>1. PICK g \in Frame : SubmitBuilds(g)
    BY <1>1
  <2>2. Lowest(Free) \in Slot
    BY <2>1, LowestIsMember DEF SubmitBuilds, Free
  <2> QED BY <2>1, <2>2 DEF SubmitBuilds
<1>2. CASE BuildFails(i) \/ Build(i)
  <2>1. CASE BuildFails(i)
    BY <2>1 DEF BuildFails
  <2>2. CASE Build(i)
    BY <2>2 DEF Build, Delivered, Displaced, NewSlot
  <2> QED BY <1>2, <2>1, <2>2
<1>3. CASE Promote \/ KeepAll(i) \/ GiveBack(i, ok)
  <2>1. CASE Promote
    BY <2>1 DEF Promote
  <2>2. CASE KeepAll(i)
    BY <2>2 DEF KeepAll
  <2>3. CASE GiveBack(i, ok)
    BY <2>3 DEF GiveBack, PinLeft
  <2> QED BY <1>3, <2>1, <2>2, <2>3
<1>4. CASE FramesPreserve(on) \/ FramesClose \/ FramesReopen
  <2>1. CASE FramesPreserve(on)
    BY <2>1 DEF FramesPreserve, Displaced
  <2>2. CASE FramesClose
    BY <2>2 DEF FramesClose, Displaced
  <2>3. CASE FramesReopen
    BY <2>3 DEF FramesReopen
  <2> QED BY <1>4, <2>1, <2>2, <2>3
<1>5. CASE PollClaim(i) \/ PollImage \/ PollFails
  BY <1>5, LeasesArePositive DEF PollClaim, PollImage, PollFails, Unclaimed, Slot
<1>6. CASE ReaderOpen(i) \/ ReaderClose(i) \/ ImageDestroy(i)
  BY <1>6 DEF ReaderOpen, ReaderClose, ImageDestroy, Unread
<1>7. CASE UNCHANGED frameVars
  BY <1>7 DEF frameVars
<1> QED BY <1>1, <1>2, <1>3, <1>4, <1>5, <1>6, <1>7

\* What the UI thread and the worker make of the instance's fields.
LEMMA FreshTypes == Fresh \in Fields /\ NoRound \in Rounds
BY LeasesArePositive DEF Fresh, Fields, NoRound, Rounds, States, AnyVolume

LEMMA UiFields ==
  ASSUME p \in Fields, w \in Rounds, Ui
  PROVE  p' \in Fields /\ w' \in Rounds
<1>1. CASE Request \/ Seek \/ Close
  <2>1. CASE Request
    <3>1. w' = w
      BY <2>1 DEF Request, workVars
    <3>2. \/ p' = [p EXCEPT !.start = TRUE]
          \/ \E on \in BOOLEAN : p' = [p EXCEPT !.pause = on]
          \/ \E v \in AnyVolume : p' = [p EXCEPT !.volumeAsked = v]
      BY <2>1 DEF Request, AnyVolume
    <3> QED BY <3>1, <3>2 DEF Fields
  <2>2. CASE Seek
    BY <2>2 DEF Seek, Fields, Rounds, States, AnyVolume, workVars
  <2>3. CASE Close
    <3>1. w' = w /\ p' = [p EXCEPT !.closing = TRUE, !.seekPending = FALSE, !.state = ClosingState]
      BY <2>3 DEF Close, workVars
    <3>2. ClosingState \in States
      BY DEF ClosingState, Fields, States
    <3> QED BY <3>1, <3>2 DEF Fields
  <2> QED BY <1>1, <2>1, <2>2, <2>3
<1>2. CASE ~(Request \/ Seek \/ Close)
  BY <1>2, FreshTypes DEF Ui, Prepare, Poll, PollSlot, PollEnd, CloseFrames, Preserve, Destroy,
      Readers, workVars
<1> QED BY <1>1, <1>2

LEMMA FaultFields ==
  ASSUME p \in Fields, w \in Rounds
  PROVE  /\ Faulted \in Fields /\ NoRound \in Rounds
         /\ [NoRound EXCEPT !.closing = TRUE] \in Rounds
BY FreshTypes DEF Faulted, Fields, States, Rounds

LEMMA WorkerFields ==
  ASSUME p \in Fields, w \in Rounds, s.terminal \in BOOLEAN, Worker
  PROVE  p' \in Fields /\ w' \in Rounds
<1> USE FaultFields DEF Fault, Goto, NextRound, KeepStream
<1>1. CASE FaultFrames \/ Top \/ Drain \/ DrainDone \/ DrainFailed
  <2>1. CASE Top
    <3> DEFINE v == IF p.volumeAsked # p.volume THEN p.volumeAsked ELSE NoVolume
    <3>1. v \in AnyVolume /\ UNCHANGED p
      BY <2>1 DEF Top, Fields, AnyVolume
    <3>2. w' = [NoRound EXCEPT !.closing = p.closing, !.start = p.start, !.pause = p.pause,
                  !.seek = p.seekPending, !.volume = v]
      BY <2>1 DEF Top
    <3> HIDE DEF v
    <3>3. /\ p.closing \in BOOLEAN /\ p.start \in BOOLEAN /\ p.pause \in BOOLEAN
          /\ p.seekPending \in BOOLEAN
      BY DEF Fields
    <3>4. w' \in Rounds
      BY <3>1, <3>2, <3>3, FreshTypes DEF Rounds
    <3> QED BY <3>1, <3>4
  <2>2. CASE Drain
    <3>1. 1 \in 0..Leases
      BY LeasesArePositive
    <3> QED BY <2>2, <3>1 DEF Drain, Rounds
  <2>3. CASE FaultFrames \/ DrainDone \/ DrainFailed
    BY <2>3 DEF FaultFrames, DrainDone, DrainFailed
  <2> QED BY <1>1, <2>1, <2>2, <2>3
<1>2. CASE OpenSession \/ OpenSessionFails
  <2>1. CASE OpenSession
    <3>1. /\ p.state \in States /\ NoVolume \in AnyVolume /\ HasAudio \in BOOLEAN
          /\ "READY" \in States
      BY PlaybackConstants DEF Fields, States, AnyVolume
    <3>2. w' \in {w, NoRound}
      BY <2>1 DEF OpenSession
    <3>3. PICK x \in States :
            p' = [p EXCEPT !.ownsAudio = HasAudio, !.volume = NoVolume, !.state = x]
      BY <2>1, <3>1 DEF OpenSession, VolumeAfterOpen
    <3> QED BY <3>1, <3>2, <3>3 DEF Fields
  <2>2. CASE OpenSessionFails
    <3>1. PICK got \in BOOLEAN : p' = [Faulted EXCEPT !.ownsAudio = @ \/ got] /\ w' = NoRound
      BY <2>2 DEF OpenSessionFails
    <3> QED BY <3>1 DEF Fields
  <2> QED BY <1>2, <2>1, <2>2
<1>3. CASE CloseSession \/ CloseLater \/ Finish
  BY <1>3 DEF CloseSession, CloseLater, TryLater, Finish, Fields, States
<1>4. CASE SeekWaits \/ SeekCloses \/ SeekCancelled \/ Reseek \/ ReseekFails \/ SeekDone
  BY <1>4 DEF SeekWaits, SeekCloses, SeekCancelled, Reseek, ReseekFails, SeekDone,
      TerminalAfterSeek, Fields, States
<1>5. CASE Report \/ SetVolume \/ NotStarted \/ Terminal \/ Run
  BY <1>5 DEF Report, SetVolume, NotStarted, Terminal, Run, Show, Fields, States, Rounds
<1>6. CASE Fetch \/ GetNothing \/ Submit \/ BuildDone \/ Refused
  <2>1. CASE Fetch \/ GetNothing
    BY <2>1 DEF Fetch, GetNothing
  <2>2. CASE Submit
    BY <2>2 DEF Submit, Delivers, Rounds
  <2>3. CASE BuildDone
    BY <2>3 DEF BuildDone, Delivers, Rounds
  <2>4. CASE Refused
    BY <2>4 DEF Refused
  <2> QED BY <1>6, <2>1, <2>2, <2>3, <2>4
<1>7. CASE \E ok \in BOOLEAN : DrainSlot(ok)
  <2>1. PICK ok \in BOOLEAN : DrainSlot(ok)
    BY <1>7
  <2>2. NextSlot \in 0..Leases /\ 0 \in 0..Leases
    BY <2>1, LeasesArePositive DEF DrainSlot, NextSlot, Slot
  <2>3. /\ UNCHANGED p
        /\ \/ w' = [w EXCEPT !.slot = NextSlot]
           \/ w' = [w EXCEPT !.slot = 0, !.failed = TRUE]
           \/ w' = [w EXCEPT !.slot = NextSlot, !.failed = @ \/ ~ok]
    BY <2>1 DEF DrainSlot
  <2>4. ASSUME NEW n \in 0..Leases, NEW b \in BOOLEAN
        PROVE  /\ [w EXCEPT !.slot = n] \in Rounds
               /\ [w EXCEPT !.slot = n, !.failed = b] \in Rounds
    BY DEF Rounds
  <2>5. w.failed \in BOOLEAN
    BY DEF Rounds
  <2> QED BY <2>2, <2>3, <2>4, <2>5
<1>8. CASE \E ok \in BOOLEAN : \/ CloseBegins(ok) \/ SeekReturns(ok)
                            \/ StartSession(ok) \/ SetPaused(ok)
  BY <1>8 DEF CloseBegins, SeekReturns, StartSession, SetPaused
<1>9. CASE \E ok \in BOOLEAN : Events(ok)
  BY <1>9 DEF Events, Rounds
<1>10. CASE \E new \in Decoded, eos \in BOOLEAN : GetFrame(new, eos)
  BY <1>10 DEF GetFrame
<1> QED BY <1>1, <1>2, <1>3, <1>4, <1>5, <1>6, <1>7, <1>8, <1>9, <1>10 DEF Worker

\* What the allocator is after each of its operations.
LEMMA MemoryTypes ==
  ASSUME MemTypeOK,
         \/ UNCHANGED pins /\ FreeAll
         \/ \E g \in Frame : \/ Allocate(g) \/ FreeFrame(g) \/ Unpin(g)
                             \/ pins' = pins \cup {g} /\ UNCHANGED mem
         \/ UNCHANGED memVars
  PROVE  MemTypeOK'
BY DEF MemTypeOK, FreeAll, Freed, Allocate, FreeFrame, Unpin, Unpinned, memVars

\* The frames the worker and the slots name are frames.
LEMMA NamedFrames ==
  ASSUME TypeOK, FramesCohere
  PROVE  /\ wpending # NoFrame => wpending \in Frame
         /\ \A i \in Slot : st[i] # "EMPTY" => lease[i] \in Frame
BY DEF TypeOK, FramesTypeOK, FramesCohere, SlotsCohere

LEMMA WorkerSession ==
  ASSUME TypeOK, FramesCohere, Worker
  PROVE  SessTypeOK'
<1>1. SessTypeOK /\ w.volume \in Nat
  <2>1. w.volume \in AnyVolume
    BY DEF TypeOK, Rounds
  <2>2. AnyVolume \subseteq Nat
    BY PlaybackConstants DEF AnyVolume, NoVolume
  <2> QED BY <2>1, <2>2 DEF TypeOK
<1>2. CASE FaultFrames \/ Top \/ Drain \/ DrainDone \/ DrainFailed \/ Finish \/ SeekWaits
           \/ SeekCancelled \/ SeekDone \/ Report \/ NotStarted \/ Terminal \/ Run \/ Fetch
           \/ GetNothing \/ Submit \/ BuildDone \/ Refused \/ \E ok \in BOOLEAN : Events(ok)
  <2>1. UNCHANGED sessVars
    BY <1>2 DEF FaultFrames, Top, Drain, DrainDone, DrainFailed, Finish, SeekWaits,
      SeekCancelled, SeekDone, Report, NotStarted, Terminal, Run, Fetch, GetNothing, Submit,
      BuildDone, Refused, Events, mediaVars
  <2> QED BY <1>1, <2>1, SessionTypes
<1>3. CASE OpenSession \/ OpenSessionFails \/ CloseSession \/ CloseLater \/ SeekCloses
  BY <1>1, <1>3, SessionTypes
  DEF OpenSession, OpenSessionFails, CloseSession, CloseLater, SeekCloses
<1>4. CASE Reseek \/ ReseekFails \/ SetVolume
  BY <1>1, <1>4, SessionTypes DEF Reseek, ReseekFails, SetVolume
<1>5. CASE \E ok \in BOOLEAN : StartSession(ok) \/ SetPaused(ok)
  <2>1. w.pause \in BOOLEAN
    BY DEF TypeOK, Rounds
  <2> QED BY <1>1, <1>5, <2>1, SessionTypes DEF StartSession, SetPaused
<1>6. CASE \E ok \in BOOLEAN : DrainSlot(ok)
  <2>1. PICK ok \in BOOLEAN : DrainSlot(ok)
    BY <1>6
  <2>2. CASE UNCHANGED sessVars
    BY <1>1, <2>2, SessionTypes
  <2>3. CASE ~UNCHANGED sessVars
    <3>1. st[w.slot] = "RETURNING" /\ w.slot \in Slot /\ GiveBack(w.slot, ok)
      BY <2>1, <2>3 DEF DrainSlot, KeepAll, mediaVars
    <3>2. lease[w.slot] \in Frame /\ SessRelease(lease[w.slot], ok)
      BY <3>1, NamedFrames DEF GiveBack
    <3> QED BY <1>1, <3>2, SessionTypes
  <2> QED BY <2>2, <2>3
<1>7. CASE \E ok \in BOOLEAN : CloseBegins(ok) \/ SeekReturns(ok)
  <2>1. PICK ok \in BOOLEAN : CloseBegins(ok) \/ SeekReturns(ok)
    BY <1>7
  <2>2. UNCHANGED sessVars \/ (wpending # NoFrame /\ SessRelease(wpending, ok))
    BY <2>1 DEF CloseBegins, SeekReturns
  <2> QED BY <1>1, <2>2, NamedFrames, SessionTypes
<1>8. CASE \E new \in Decoded, eos \in BOOLEAN : GetFrame(new, eos)
  <2>1. \E g \in Frame : SessAcquire(g)
    BY <1>8 DEF GetFrame, Decoded
  <2> QED BY <1>1, <2>1, SessionTypes
<1> QED BY <1>2, <1>3, <1>4, <1>5, <1>6, <1>7, <1>8 DEF Worker

LEMMA WorkerMailbox ==
  ASSUME TypeOK, FramesCohere, Worker
  PROVE  FramesTypeOK' /\ MemTypeOK' /\ wpending' \in Frame \cup {NoFrame}
<1>1. FramesTypeOK /\ MemTypeOK /\ wpending \in Frame \cup {NoFrame} /\ 1 \in Slot
  BY LeasesArePositive DEF TypeOK, Slot
<1>2. CASE OpenSession \/ OpenSessionFails \/ Top \/ DrainDone \/ DrainFailed \/ Finish
           \/ SeekWaits \/ SeekCancelled \/ ReseekFails \/ SeekDone \/ Report \/ SetVolume
           \/ NotStarted \/ Terminal \/ Run \/ Fetch \/ GetNothing \/ Refused
           \/ \E ok \in BOOLEAN : Events(ok) \/ StartSession(ok) \/ SetPaused(ok)
  <2>1. UNCHANGED <<frameVars, memVars, wpending>>
    BY <1>2 DEF OpenSession, OpenSessionFails, Top, DrainDone, DrainFailed, Finish, SeekWaits,
      SeekCancelled, ReseekFails, SeekDone, Report, SetVolume, NotStarted, Terminal, Run, Fetch,
      GetNothing, Refused, Events, StartSession, SetPaused, KeepStream, mediaVars
  <2> QED BY <1>1, <2>1, MailboxTypes, MemoryTypes
<1>3. CASE CloseSession \/ CloseLater \/ SeekCloses
  <2>1. UNCHANGED <<frameVars, wpending>> /\ (UNCHANGED memVars \/ (UNCHANGED pins /\ FreeAll))
    BY <1>3 DEF CloseSession, CloseLater, SeekCloses, SessClose, SessCloseFails, KeepStream
  <2> QED BY <1>1, <2>1, MailboxTypes, MemoryTypes
<1>4. CASE FaultFrames \/ Drain \/ Reseek
  <2>1. /\ FramesClose \/ Promote \/ FramesReopen
        /\ UNCHANGED <<memVars, wpending>>
    BY <1>4 DEF FaultFrames, Drain, Reseek, KeepStream
  <2> QED BY <1>1, <2>1, MailboxTypes, MemoryTypes
<1>5. CASE Submit
  <2>1. wpending \in Frame
    BY <1>5, NamedFrames DEF Submit, FramesCohere, WorkerHolds
  <2>2. /\ SubmitBuilds(wpending) \/ UNCHANGED frameVars
        /\ UNCHANGED memVars /\ wpending' \in {wpending, NoFrame}
    BY <1>5 DEF Submit, Delivers
  <2> QED BY <1>1, <2>1, <2>2, MailboxTypes, MemoryTypes
<1>6. CASE BuildDone
  <2>1. PICK i \in Slot : Build(i) \/ BuildFails(i)
    BY <1>6 DEF BuildDone
  <2>2. lease[i] \in Frame
    BY <2>1, NamedFrames DEF Build, BuildFails, Building
  <2>3. FramesTypeOK'
    BY <1>1, <2>1, MailboxTypes
  <2>4. MemTypeOK'
    BY <1>1, <2>1, <2>2, MemoryTypes DEF Build, BuildFails
  <2> QED BY <1>1, <1>6, <2>3, <2>4 DEF BuildDone, Delivers
<1>7. CASE \E ok \in BOOLEAN : DrainSlot(ok)
  <2>1. PICK ok \in BOOLEAN : DrainSlot(ok)
    BY <1>7
  <2>2. w.slot \in Slot /\ UNCHANGED wpending
    BY <2>1 DEF DrainSlot, KeepStream
  <2>3. CASE UNCHANGED mediaVars
    BY <1>1, <2>2, <2>3, MailboxTypes, MemoryTypes DEF mediaVars
  <2>4. CASE KeepAll(w.slot)
    BY <1>1, <2>2, <2>4, MailboxTypes, MemoryTypes DEF KeepAll
  <2>5. CASE st[w.slot] = "RETURNING" /\ GiveBack(w.slot, ok)
    <3>1. lease[w.slot] \in Frame
      BY <2>2, <2>5, NamedFrames
    <3>2. Unpin(lease[w.slot]) \/ UNCHANGED memVars
      BY <2>5 DEF GiveBack
    <3>3. FramesTypeOK'
      BY <1>1, <2>2, <2>5, MailboxTypes
    <3> QED BY <1>1, <2>2, <3>1, <3>2, <3>3, MemoryTypes
  <2> QED BY <2>1, <2>3, <2>4, <2>5 DEF DrainSlot
<1>8. CASE \E ok \in BOOLEAN : CloseBegins(ok) \/ SeekReturns(ok)
  <2>1. /\ FramesClose \/ UNCHANGED frameVars
        /\ UNCHANGED memVars /\ wpending' \in {wpending, NoFrame}
    BY <1>8 DEF CloseBegins, SeekReturns
  <2> QED BY <1>1, <2>1, MailboxTypes, MemoryTypes
<1>9. CASE \E new \in Decoded, eos \in BOOLEAN : GetFrame(new, eos)
  <2>1. UNCHANGED <<frameVars, memVars>> /\ wpending' \in Frame \cup {NoFrame}
    BY <1>1, <1>9 DEF GetFrame, Decoded, KeepStream
  <2> QED BY <1>1, <2>1, MailboxTypes, MemoryTypes
<1> QED BY <1>2, <1>3, <1>4, <1>5, <1>6, <1>7, <1>8, <1>9 DEF Worker

LEMMA UiTypes ==
  ASSUME TypeOK, Ui
  PROVE  FramesTypeOK' /\ UNCHANGED <<sessVars, memVars, wpending>>
<1>1. FramesTypeOK /\ 1 \in Slot
  BY LeasesArePositive DEF TypeOK, Slot
<1>2. UNCHANGED <<sessVars, memVars, wpending>>
  BY DEF Ui, Prepare, Request, Seek, Poll, PollSlot, PollEnd, Close, CloseFrames, Destroy,
      Preserve, Readers, mediaVars, workVars
<1>3. CASE Destroy
  BY <1>1, <1>2, <1>3 DEF Destroy, FramesTypeOK
<1>4. CASE Prepare \/ Request \/ Seek \/ Poll \/ PollEnd \/ Close \/ CloseFrames
  <2>1. UNCHANGED frameVars \/ FramesClose \/ PollImage \/ PollFails
    BY <1>4 DEF Prepare, Request, Seek, Poll, PollEnd, Close, CloseFrames, mediaVars
  <2> QED BY <1>1, <1>2, <2>1, MailboxTypes
<1>5. CASE PollSlot \/ Readers(ReaderOpen) \/ Readers(ReaderClose) \/ Readers(ImageDestroy)
  <2>1. \/ UNCHANGED frameVars
        \/ \E i \in Slot : PollClaim(i) \/ ReaderOpen(i) \/ ReaderClose(i) \/ ImageDestroy(i)
    BY <1>5 DEF PollSlot, Readers
  <2> QED BY <1>1, <1>2, <2>1, MailboxTypes
<1>6. CASE \E on \in BOOLEAN : Preserve(on)
  BY <1>1, <1>2, <1>6, MailboxTypes DEF Preserve
<1> QED BY <1>2, <1>3, <1>4, <1>5, <1>6 DEF Ui

\* Where the two threads are, and the worker's end of stream.
PlacesOK ==
  /\ active \in BOOLEAN /\ upc \in {"idle", "poll", "close"} /\ wpc \in Places
  /\ weos \in BOOLEAN

LEMMA UiPlaces ==
  ASSUME PlacesOK, Ui
  PROVE  PlacesOK'
BY DEF Ui, Prepare, Request, Seek, Poll, PollSlot, PollEnd, Close, CloseFrames, Destroy,
      Preserve, Readers, workVars, PlacesOK, Places

LEMMA WorkerPlaces ==
  ASSUME PlacesOK, Worker
  PROVE  PlacesOK'
<1> USE DEF Fault, Goto, NextRound, KeepStream, PlacesOK, Places
<1>1. UNCHANGED <<active, upc>>
  BY DEF Worker
<1>2. CASE FaultFrames \/ OpenSession \/ OpenSessionFails \/ Top \/ Drain \/ DrainDone
           \/ DrainFailed \/ CloseSession \/ CloseLater \/ Finish
  BY <1>1, <1>2 DEF FaultFrames, OpenSession, OpenSessionFails, Top, Drain, DrainDone,
      DrainFailed, CloseSession, CloseLater, TryLater, Finish
<1>3. CASE SeekWaits \/ SeekCloses \/ SeekCancelled \/ Reseek \/ ReseekFails \/ SeekDone
  BY <1>1, <1>3 DEF SeekWaits, SeekCloses, SeekCancelled, Reseek, ReseekFails, SeekDone
<1>4. CASE Report \/ SetVolume \/ NotStarted \/ Terminal \/ Run \/ Fetch \/ GetNothing
  BY <1>1, <1>4 DEF Report, SetVolume, NotStarted, Terminal, Run, Fetch, GetNothing
<1>5. CASE Submit \/ BuildDone \/ Refused
  BY <1>1, <1>5 DEF Submit, BuildDone, Refused, Delivers
<1>6. CASE \E ok \in BOOLEAN : \/ DrainSlot(ok) \/ CloseBegins(ok) \/ SeekReturns(ok)
                            \/ Events(ok) \/ StartSession(ok) \/ SetPaused(ok)
  BY <1>1, <1>6 DEF DrainSlot, CloseBegins, SeekReturns, Events, StartSession, SetPaused
<1>7. CASE \E new \in Decoded, eos \in BOOLEAN : GetFrame(new, eos)
  BY <1>1, <1>7 DEF GetFrame
<1> QED BY <1>2, <1>3, <1>4, <1>5, <1>6, <1>7 DEF Worker

\* Every step keeps the types.
LEMMA TypesStep ==
  ASSUME TypeOK, FramesCohere, [Next]_vars
  PROVE  TypeOK'
<1>1. /\ MemTypeOK /\ SessTypeOK /\ FramesTypeOK /\ PlacesOK
      /\ p \in Fields /\ w \in Rounds /\ wpending \in Frame \cup {NoFrame} /\ s.terminal \in BOOLEAN
  BY DEF TypeOK, PlacesOK, SessTypeOK
<1>2. SUFFICES /\ MemTypeOK' /\ SessTypeOK' /\ FramesTypeOK' /\ PlacesOK'
               /\ p' \in Fields /\ w' \in Rounds /\ wpending' \in Frame \cup {NoFrame}
  BY DEF TypeOK, PlacesOK
<1>3. CASE Ui
  <2>1. FramesTypeOK' /\ UNCHANGED <<sessVars, memVars, wpending>>
    BY <1>3, UiTypes
  <2> QED BY <1>1, <1>3, <2>1, UiPlaces, UiFields, SessionTypes, MemoryTypes
<1>4. CASE Worker
  BY <1>1, <1>4, WorkerPlaces, WorkerFields, WorkerSession, WorkerMailbox
<1>5. CASE Decoder
  <2>1. UNCHANGED <<frameVars, active, p, upc, wpc, w, wpending, weos>>
    BY <1>5 DEF Decoder, workVars
  <2>2. /\ PlayEnd \/ UNCHANGED sessVars
        /\ UNCHANGED memVars \/ \E g \in Frame : Allocate(g) \/ FreeFrame(g)
    BY <1>5 DEF Decoder, PlayEnd, DecoderAllocates, DecoderFrees
  <2>3. 1 \in Slot
    BY LeasesArePositive DEF Slot
  <2> QED BY <1>1, <2>1, <2>2, <2>3, SessionTypes, MemoryTypes, MailboxTypes DEF PlacesOK
<1>6. CASE UNCHANGED vars
  <2>1. 1 \in Slot
    BY LeasesArePositive DEF Slot
  <2>2. UNCHANGED <<frameVars, sessVars, memVars, active, p, upc, wpc, w, wpending, weos>>
    BY <1>6 DEF vars, mediaVars, workVars
  <2> QED BY <1>1, <2>1, <2>2, SessionTypes, MemoryTypes, MailboxTypes DEF PlacesOK
<1> QED BY <1>3, <1>4, <1>5, <1>6 DEF Next

-----------------------------------------------------------------------------
(* The theorems *)

\* The inductive invariant.
PlayerSafe == TypeOK /\ FramesCohere /\ StatusReasons /\ FinishedIsQuiet

LEMMA PlayerStarts ==
  ASSUME Init
  PROVE  PlayerSafe
<1>1. TypeOK
  <2>1. MemTypeOK /\ SessTypeOK
    BY DEF Init, MemInit, SessInit, MemTypeOK, SessTypeOK, Closed, NoVolume
  <2>2. FramesTypeOK
    BY LeasesArePositive DEF Init, FramesInit, FramesTypeOK, SlotStates
  <2> QED BY <2>1, <2>2, FreshTypes DEF Init, TypeOK, Places
<1>2. FramesCohere
  <2>1. \A i \in Slot : i # 0
    BY LeasesArePositive DEF Slot
  <2>2. SlotsCohere /\ PinsCohere /\ NoPinLost
    BY <2>1 DEF Init, MemInit, FramesInit, SlotsCohere, PinsCohere, NoPinLost
  <2>3. LeasesCohere /\ WorkerHolds
    BY DEF Init, SessInit, FramesInit, LeasesCohere, WorkerHolds
  <2> QED BY <2>2, <2>3 DEF FramesCohere
<1>3. StatusReasons
  BY DEF Init, SessInit, FramesInit, Fresh, NoRound, NoVolume, StatusReasons, StatusCoheres,
      LifeCoheres, ClosingCoheres, EndCoheres, SeekIsShown, VolumeIsTrue, TerminalIsTrue
<1>4. FinishedIsQuiet
  BY DEF Init, MemInit, SessInit, FramesInit, Fresh, Closed, FinishedIsQuiet, Unused
<1> QED BY <1>1, <1>2, <1>3, <1>4 DEF PlayerSafe

LEMMA PlayerStep ==
  ASSUME PlayerSafe, [Next]_vars
  PROVE  PlayerSafe'
<1>1. TypeOK /\ FramesCohere /\ StatusReasons /\ LifeCoheres /\ FinishedIsQuiet
  BY DEF PlayerSafe, StatusReasons, StatusCoheres
<1> QED BY <1>1, TypesStep, FramesStep, StatusStep, QuietStep DEF PlayerSafe

\* For any media, any leases and any interleaving the frames, the session and the
\* status cohere (lv_aic_player_playback.c with lv_aic_player_frames.c).
THEOREM PlaybackCoheres == Spec => []PlayerSafe
<1>1. Init => PlayerSafe
  BY PlayerStarts
<1>2. PlayerSafe /\ [Next]_vars => PlayerSafe'
  BY PlayerStep
<1> QED BY <1>1, <1>2, PTL DEF Spec

\* A slot that is exposed is published or being published: it has a pin.
LEMMA StableFrames ==
  ASSUME TypeOK, FramesCohere
  PROVE  FramesAreStable
<1> SUFFICES ASSUME NEW i \in Slot, Exposed(i)
             PROVE  lease[i] \in held /\ lease[i] \in pins /\ mem[lease[i]] # "free"
  BY DEF FramesAreStable
<1>1. st[i] \in {"PUBLISHING", "PUBLISHED"}
  BY DEF Exposed, FramesCohere, SlotsCohere
<1>2. pinned[i] /\ lease[i] \in pins
  BY <1>1 DEF FramesCohere, SlotsCohere, PinsCohere
<1>3. mem[lease[i]] # "free" /\ lease[i] \in held
  BY <1>1, <1>2 DEF FramesCohere, PinsCohere, LeasesCohere
<1> QED BY <1>2, <1>3

LEMMA AccountedLeases ==
  ASSUME TypeOK, FramesCohere
  PROVE  LeasesAccounted
<1>1. MediaTypes /\ NoFrame \notin held
  BY MediaTyped, NoFrameIsNone DEF MediaTypes
<1>2. pins = {lease[i] : i \in {j \in Slot : pinned[j]}}
  BY DEF FramesCohere, PinsCohere
<1>3. SlotsDisjoint
  BY <1>2 DEF FramesCohere, SlotsCohere, LeasesCohere, SlotsDisjoint
<1>4. held = {lease[i] : i \in {j \in Slot : st[j] # "EMPTY"}} \cup ({wpending} \ {NoFrame})
  <2>1. ASSUME NEW g \in held
        PROVE  \/ g \in {lease[i] : i \in {j \in Slot : st[j] # "EMPTY"}}
               \/ g \in {wpending} \ {NoFrame}
    <3>1. g # NoFrame
      BY <1>1
    <3>2. g = wpending \/ \E i \in Slot : lease[i] = g
      BY DEF FramesCohere, LeasesCohere
    <3>3. ASSUME NEW i \in Slot, lease[i] = g
          PROVE  st[i] # "EMPTY"
      BY <3>1, <3>3 DEF FramesCohere, SlotsCohere
    <3> QED BY <3>1, <3>2, <3>3
  <2>2. {lease[i] : i \in {j \in Slot : st[j] # "EMPTY"}} \subseteq held
    BY DEF FramesCohere, LeasesCohere
  <2>3. {wpending} \ {NoFrame} \subseteq held
    BY DEF FramesCohere, LeasesCohere
  <2> QED BY <2>1, <2>2, <2>3
<1> QED BY <1>3, <1>4 DEF LeasesAccounted, FramesCohere, LeasesCohere

\* The frame the UI thread shows, or is making an image of, is pinned, allocated
\* and leased, and no lease is lost or in two places (frames_poll_image,
\* frames_submit and frames_drain against the decoder's free).
THEOREM FramesSafe == Spec => []FramesAreSafe
<1>1. PlayerSafe => FramesAreSafe
  BY StableFrames, AccountedLeases DEF PlayerSafe, FramesAreSafe
<1> QED BY <1>1, PlaybackCoheres, PTL

\* What lv_aic_player_playback_status reports of a seek, the volume, the end and the
\* finish is what the session is.
THEOREM StatusTrue == Spec => []StatusIsTrue
<1>1. PlayerSafe => StatusIsTrue
  BY DEF PlayerSafe, StatusReasons, StatusIsTrue
<1> QED BY <1>1, PlaybackCoheres, PTL

\* No operation of the mailbox turns a queued frame away while frames are preserved.
KeepsQueued == \A i \in Queued : f.preserve /\ ~f'.closing => st'[i] # "RETURNING"

LEMMA SubmitKeeps ==
  ASSUME MediaTypes, FramesCohere,
         \/ \E g \in Frame : SubmitBuilds(g)
         \/ \E i \in Slot : Build(i) \/ BuildFails(i)
  PROVE  KeepsQueued
<1>1. CASE \E g \in Frame : SubmitBuilds(g)
  BY <1>1 DEF MediaTypes, SubmitBuilds, KeepsQueued, Queued
<1>2. CASE \E i \in Slot : BuildFails(i)
  BY <1>2 DEF MediaTypes, BuildFails, KeepsQueued, Queued
<1>3. CASE \E i \in Slot : Build(i)
  <2>1. PICK i \in Slot : Build(i)
    BY <1>3
  <2>2. SUFFICES ASSUME f.preserve, ~f'.closing, NEW j \in Queued
                 PROVE  st'[j] # "RETURNING"
    BY DEF KeepsQueued
  <2>3. MustDefer /\ UNCHANGED f
    BY <2>1, <2>2 DEF Build, MustDefer, FramesCohere, NoPinLost
  <2> QED BY <2>1, <2>2, <2>3 DEF Build, Delivered, MediaTypes, Queued
<1> QED BY <1>1, <1>2, <1>3

LEMMA PollKeeps ==
  ASSUME MediaTypes, FramesCohere, NEW i \in Slot,
         PollClaim(i) \/ PollImage \/ PollFails \/ ReaderOpen(i) \/ ReaderClose(i) \/ ImageDestroy(i)
  PROVE  KeepsQueued
<1>1. CASE PollClaim(i) \/ PollImage \/ ReaderOpen(i)
  BY <1>1 DEF MediaTypes, PollClaim, PollImage, ReaderOpen, KeepsQueued, Queued
<1>2. CASE PollFails
  BY <1>2 DEF MediaTypes, PollFails, Unclaimed, KeepsQueued, Queued, FramesCohere, NoPinLost
<1>3. CASE ReaderClose(i) \/ ImageDestroy(i)
  <2>1. st[i] = "PUBLISHED"
    BY <1>3 DEF ReaderClose, ImageDestroy, FramesCohere, SlotsCohere
  <2> QED BY <1>3, <2>1 DEF MediaTypes, ReaderClose, ImageDestroy, KeepsQueued, Queued
<1> QED BY <1>1, <1>2, <1>3

LEMMA DrainKeeps ==
  ASSUME MediaTypes, NEW i \in Slot, NEW ok \in BOOLEAN,
         \/ Promote \/ KeepAll(i) \/ (st[i] = "RETURNING" /\ GiveBack(i, ok))
  PROVE  KeepsQueued
<1>1. CASE Promote
  BY <1>1 DEF Promote, Promotes, MediaTypes, KeepsQueued, Queued
<1>2. CASE KeepAll(i)
  BY <1>2 DEF KeepAll, MediaTypes, KeepsQueued, Queued
<1>3. CASE st[i] = "RETURNING" /\ GiveBack(i, ok)
  BY <1>3 DEF GiveBack, MediaTypes, KeepsQueued, Queued
<1> QED BY <1>1, <1>2, <1>3

LEMMA OthersKeep ==
  ASSUME MediaTypes, FramesClose \/ UNCHANGED st
  PROVE  KeepsQueued
BY DEF MediaTypes, FramesClose, KeepsQueued, Queued

LEMMA QueuedStep ==
  ASSUME TypeOK, FramesCohere, [Next]_vars
  PROVE  KeepsQueued
<1>1. MediaTypes /\ 1 \in Slot
  BY MediaTyped, LeasesArePositive DEF Slot
<1>2. CASE Ui
  <2>1. \/ UNCHANGED st \/ FramesClose
        \/ PollImage \/ PollFails
        \/ \E i \in Slot : PollClaim(i) \/ ReaderOpen(i) \/ ReaderClose(i) \/ ImageDestroy(i)
    BY <1>2 DEF Ui, Prepare, Request, Seek, Poll, PollSlot, PollEnd, Close, CloseFrames, Destroy,
      Preserve, FramesPreserve, Readers, mediaVars, frameVars
  <2> QED BY <1>1, <2>1, OthersKeep, PollKeeps
<1>3. CASE Worker
  <2>1. CASE Submit
    <3>1. wpending \in Frame
      BY <2>1, NamedFrames DEF Submit, FramesCohere, WorkerHolds
    <3>2. SubmitBuilds(wpending) \/ UNCHANGED st
      BY <2>1 DEF Submit, frameVars
    <3> QED BY <1>1, <3>1, <3>2, OthersKeep, SubmitKeeps
  <2>2. CASE BuildDone
    BY <1>1, <2>2, SubmitKeeps DEF BuildDone
  <2>3. CASE \E ok \in BOOLEAN : DrainSlot(ok)
    <3>1. PICK ok \in BOOLEAN : DrainSlot(ok)
      BY <2>3
    <3>2. \/ UNCHANGED st
          \/ w.slot \in Slot /\ (KeepAll(w.slot) \/ (st[w.slot] = "RETURNING" /\ GiveBack(w.slot, ok)))
      BY <3>1 DEF DrainSlot, mediaVars, frameVars
    <3> QED BY <1>1, <3>2, OthersKeep, DrainKeeps
  <2>4. CASE Drain
    BY <1>1, <2>4, DrainKeeps DEF Drain
  <2>5. CASE FaultFrames \/ \E ok \in BOOLEAN : CloseBegins(ok)
    BY <1>1, <2>5, OthersKeep DEF FaultFrames, CloseBegins
  <2>6. CASE ~Submit /\ ~BuildDone /\ ~Drain /\ ~FaultFrames
             /\ ~\E ok \in BOOLEAN : DrainSlot(ok) \/ CloseBegins(ok)
    <3>1. UNCHANGED st
      BY <1>3, <2>6
      DEF Worker, OpenSession, OpenSessionFails, Top, DrainDone, DrainFailed,
      CloseSession, CloseLater, Finish, SeekWaits, SeekCloses, SeekCancelled, Reseek,
      ReseekFails, SeekDone, Report, SetVolume, NotStarted, Terminal, Run, Fetch,
      GetNothing, Refused, SeekReturns, Events, StartSession, SetPaused, GetFrame,
      FramesReopen, KeepStream, mediaVars, frameVars
    <3> QED BY <1>1, <3>1, OthersKeep
  <2> QED BY <2>1, <2>2, <2>3, <2>4, <2>5, <2>6
<1>4. CASE Decoder \/ UNCHANGED vars
  BY <1>1, <1>4, OthersKeep DEF Decoder, vars, mediaVars, frameVars
<1> QED BY <1>2, <1>3, <1>4 DEF Next

\* While frames are preserved a queued frame is given up by no submit, drain or
\* failed poll (frames_submit, frames_drain, frames_poll_image).
THEOREM QueuedKept == Spec => QueuedIsKept
<1>1. PlayerSafe /\ [Next]_vars => [KeepsQueued]_<<frameVars, sessVars, memVars>>
  BY QueuedStep DEF PlayerSafe
<1> QED BY <1>1, PlaybackCoheres, PTL DEF Spec, QueuedIsKept, KeepsQueued

LEMMA FaultStep ==
  ASSUME TypeOK, StatusReasons, [Next]_vars, p.state = "FAULT", active'
  PROVE  p'.state = "FAULT"
<1>1. StatusTypes /\ p.closing /\ ~p.seekPending
  BY StatusTyped DEF StatusReasons, StatusCoheres, ClosingCoheres
<1> USE DEF StatusTypes, Fields, Rounds
<1>2. CASE Ui
  BY <1>1, <1>2 DEF Ui, Prepare, Request, Seek, Poll, PollSlot, PollEnd, Close, CloseFrames,
      Destroy, Preserve, Readers, Open, ClosingState
<1>3. CASE Worker
  <2>1. p' = p \/ p'.state = p.state \/ p'.state = "FAULT"
    <3> USE DEF Fault, Faulted
    <3>1. CASE OpenSession \/ OpenSessionFails \/ CloseSession \/ CloseLater \/ Finish
               \/ SeekCloses \/ ReseekFails \/ SeekDone
      <4>1. CASE OpenSession \/ OpenSessionFails
        <5>1. CASE OpenSession
          BY <1>1, <5>1 DEF OpenSession
        <5>2. CASE OpenSessionFails
          <6>1. PICK got \in BOOLEAN : p' = [Faulted EXCEPT !.ownsAudio = @ \/ got]
            BY <5>2 DEF OpenSessionFails
          <6> QED BY <1>1, <6>1
        <5> QED BY <4>1, <5>1, <5>2
      <4>2. CASE CloseSession \/ CloseLater \/ Finish
        <5>1. CASE CloseSession
          BY <1>1, <5>1 DEF CloseSession
        <5>2. CASE CloseLater
          BY <1>1, <5>2 DEF CloseLater, TryLater
        <5>3. CASE Finish
          BY <1>1, <5>3 DEF Finish
        <5> QED BY <4>2, <5>1, <5>2, <5>3
      <4>3. CASE SeekCloses \/ ReseekFails \/ SeekDone
        BY <1>1, <4>3 DEF SeekCloses, ReseekFails, SeekDone, TryLater
      <4> QED BY <3>1, <4>1, <4>2, <4>3
    <3>2. CASE Report \/ SetVolume \/ Terminal \/ Run \/ Refused \/ DrainFailed
      <4>1. CASE Report \/ SetVolume
        <5>1. CASE Report
          BY <1>1, <5>1 DEF Report
        <5>2. CASE SetVolume
          BY <1>1, <5>2 DEF SetVolume
        <5> QED BY <4>1, <5>1, <5>2
      <4>2. CASE Terminal \/ Run
        BY <1>1, <4>2 DEF Terminal, Run, Show, Showable
      <4>3. CASE Refused \/ DrainFailed
        <5>1. p' = Faulted \/ UNCHANGED p
          BY <4>3 DEF Refused, DrainFailed
        <5> QED BY <1>1, <5>1
      <4> QED BY <3>2, <4>1, <4>2, <4>3
    <3>3. CASE \E ok \in BOOLEAN : \/ DrainSlot(ok) \/ CloseBegins(ok) \/ SeekReturns(ok)
                            \/ Events(ok) \/ StartSession(ok) \/ SetPaused(ok)
      <4>1. p' = Faulted \/ UNCHANGED p
        BY <3>3 DEF DrainSlot, CloseBegins, SeekReturns, Events, StartSession, SetPaused
      <4> QED BY <1>1, <4>1
    <3>4. CASE \E new \in Decoded, eos \in BOOLEAN : GetFrame(new, eos)
      BY <1>1, <3>4 DEF GetFrame
    <3>5. CASE FaultFrames \/ Top \/ Drain \/ DrainDone \/ SeekWaits \/ SeekCancelled \/ Reseek
               \/ NotStarted \/ Fetch \/ GetNothing \/ Submit \/ BuildDone
      BY <3>5 DEF FaultFrames, Top, Drain, DrainDone, SeekWaits, SeekCancelled, Reseek,
        NotStarted, Fetch, GetNothing, Submit, BuildDone
    <3> QED BY <1>3, <3>1, <3>2, <3>3, <3>4, <3>5 DEF Worker
  <2> QED BY <2>1
<1>4. CASE Decoder \/ UNCHANGED vars
  BY <1>4 DEF Decoder, vars
<1> QED BY <1>2, <1>3, <1>4 DEF Next

\* A fault is not overwritten by a later state of the worker or by close
\* (playback.c's state assignments).
THEOREM FaultVisible == Spec => FaultStaysVisible
<1>1. PlayerSafe /\ [Next]_vars => [p.state = "FAULT" /\ active' => p'.state = "FAULT"]_vars
  BY FaultStep DEF PlayerSafe
<1> QED BY <1>1, PlaybackCoheres, PTL DEF Spec, FaultStaysVisible

-----------------------------------------------------------------------------
(* The order of the frames, while the policy is not switched off *)

\* An older lease is one that is still out.
OlderAreHeld == \A g \in Frame : older[g] \subseteq held \ {g}

\* Which frames may wait together, and in which order: a deferred one only while
\* frames are preserved, and not while another is built; one of each kind; a ready
\* one beside one being published only when it is to replace it; never a frame that
\* is older than one queued before it.
OrderCoheres ==
  /\ OlderAreHeld
  /\ \A i \in Slot : st[i] = "DEFERRED" => f.preserve
  /\ \A i, j \in Slot : st[i] = "BUILDING" => st[j] # "DEFERRED"
  /\ \A i, j \in Slot : st[i] = st[j] /\ st[i] \in {"READY", "DEFERRED"} => i = j
  /\ \A i, j \in Slot :
       st[i] = "PUBLISHING" /\ st[j] = "READY" => ~f.preserve /\ lease[j] \notin older[lease[i]]
  /\ \A i, j \in Slot : i \in Queued /\ st[j] = "DEFERRED" => lease[j] \notin older[lease[i]]
  /\ \A i \in Pending : wpending \notin older[lease[i]]

\* Within an instance the policy is switched on and not off again.
PolicyKept == f.preserve /\ active' => f'.preserve

OrderTypes == MediaTypes /\ older \in [Frame -> SUBSET Frame]

LEMMA OldersHeld ==
  ASSUME OrderTypes, OlderAreHeld,
         \/ UNCHANGED <<held, older>>
         \/ \E g \in Frame, ok \in BOOLEAN : SessRelease(g, ok)
         \/ \E g \in Frame : SessAcquire(g)
  PROVE  OlderAreHeld'
<1>1. CASE UNCHANGED <<held, older>>
  BY <1>1 DEF OlderAreHeld
<1>2. ASSUME NEW g \in Frame, NEW ok \in BOOLEAN, SessRelease(g, ok)
      PROVE  OlderAreHeld'
  <2>1. CASE ok
    BY <1>2, <2>1 DEF SessRelease, HeldAfterPut, OlderAreHeld
  <2>2. CASE ~ok
    BY <1>2, <2>2 DEF SessRelease, HeldAfterPut, OlderAreHeld
  <2> QED BY <2>1, <2>2
<1>3. ASSUME NEW g \in Frame, SessAcquire(g)
      PROVE  OlderAreHeld'
  BY <1>3 DEF SessAcquire, KeepLeases, OlderAreHeld, OrderTypes, MediaTypes
<1> QED BY <1>1, <1>2, <1>3

\* Nothing joins the order: some slots leave it, some leases are put back.
LeavesOrder ==
  /\ \A j \in Slot : \/ st'[j] = st[j] /\ lease'[j] = lease[j]
                     \/ st'[j] \in {"EMPTY", "RETURNING", "RELEASING", "PUBLISHED"}
  /\ \A g \in Frame : older'[g] \subseteq older[g]
  /\ wpending' \in {wpending, NoFrame}

LEMMA LeavingKeepsOrder ==
  ASSUME OrderTypes, FramesCohere, OrderCoheres, OlderAreHeld', LeavesOrder,
         \/ f'.preserve = f.preserve
         \/ upoll = 0 /\ (f.preserve => f'.preserve)
         \/ \A i \in Slot : st'[i] = "EMPTY"
  PROVE  OrderCoheres'
<1>1. \A i \in Slot : st[i] # "EMPTY" => lease[i] \in Frame
  BY NoFrameIsNone DEF OrderTypes, MediaTypes, FramesCohere, SlotsCohere
<1>2. \A i \in Slot : st[i] = "PUBLISHING" => upoll = i
  BY DEF FramesCohere, SlotsCohere
<1>3. 0 \notin Slot
  BY LeasesArePositive DEF Slot
<1>4. \A i \in Slot : st'[i] = "DEFERRED" => f'.preserve
  BY DEF LeavesOrder, OrderCoheres
<1>5. \A i, j \in Slot : st'[i] = "BUILDING" => st'[j] # "DEFERRED"
  BY DEF LeavesOrder, OrderCoheres
<1>6. \A i, j \in Slot : st'[i] = st'[j] /\ st'[i] \in {"READY", "DEFERRED"} => i = j
  BY DEF LeavesOrder, OrderCoheres
<1>7. ASSUME NEW i \in Slot, NEW j \in Slot, st'[i] = "PUBLISHING", st'[j] = "READY"
      PROVE  ~f'.preserve /\ lease'[j] \notin older'[lease'[i]]
  <2>1. /\ st[i] = "PUBLISHING" /\ lease'[i] = lease[i] /\ lease[i] \in Frame
        /\ st[j] = "READY" /\ lease'[j] = lease[j]
    BY <1>1, <1>7 DEF LeavesOrder
  <2>2. upoll # 0 /\ st'[i] # "EMPTY"
    BY <1>2, <1>3, <1>7, <2>1
  <2> QED BY <2>1, <2>2 DEF LeavesOrder, OrderCoheres
<1>8. ASSUME NEW i \in Slot, NEW j \in Slot, st'[i] \in {"READY", "PUBLISHING"},
             st'[j] = "DEFERRED"
      PROVE  lease'[j] \notin older'[lease'[i]]
  <2>1. /\ i \in Queued /\ lease'[i] = lease[i] /\ lease[i] \in Frame
        /\ st[j] = "DEFERRED" /\ lease'[j] = lease[j]
    BY <1>1, <1>8 DEF LeavesOrder, Queued
  <2> QED BY <2>1 DEF LeavesOrder, OrderCoheres
<1>9. ASSUME NEW i \in Slot, st'[i] \in {"READY", "PUBLISHING", "DEFERRED"}
      PROVE  wpending' \notin older'[lease'[i]]
  <2>1. i \in Pending /\ lease'[i] = lease[i] /\ lease[i] \in Frame
    BY <1>1, <1>9 DEF LeavesOrder, Pending
  <2>2. NoFrame \notin older[lease[i]]
    BY <2>1, NoFrameIsNone DEF OrderTypes
  <2> QED BY <2>1, <2>2 DEF LeavesOrder, OrderCoheres
<1> QED BY <1>4, <1>5, <1>6, <1>7, <1>8, <1>9 DEF OrderCoheres, Queued, Pending

\* submit() reserves a slot when no frame is deferred.
LEMMA SubmitKeepsOrder ==
  ASSUME OrderTypes, FramesCohere, OrderCoheres, SubmitBuilds(wpending), wpending # NoFrame,
         UNCHANGED <<held, older, wpending>>
  PROVE  OrderCoheres'
<1> DEFINE k == Lowest(Free)
<1>1. k \in Slot /\ st[k] = "EMPTY"
  BY LowestIsMember DEF SubmitBuilds, Free
<1>2. /\ st' = [st EXCEPT ![k] = "BUILDING"] /\ lease' = [lease EXCEPT ![k] = wpending]
      /\ UNCHANGED f /\ ~MustWait
  BY DEF SubmitBuilds
<1> HIDE DEF k
<1>3. \A j \in Slot : st[j] # "DEFERRED"
  BY <1>2 DEF MustWait, Pending, OrderCoheres
<1>4. OlderAreHeld'
  BY OldersHeld DEF OrderCoheres
<1>5. \A i \in Slot : i # k => st'[i] = st[i] /\ lease'[i] = lease[i]
  BY <1>1, <1>2 DEF OrderTypes, MediaTypes
<1>6. st'[k] = "BUILDING"
  BY <1>1, <1>2 DEF OrderTypes, MediaTypes
<1> QED BY <1>2, <1>3, <1>4, <1>5, <1>6 DEF OrderCoheres, Queued, Pending

\* The new frame is the youngest: it is deferred behind the queued one, or replaces
\* those not yet taken.
LEMMA BuildKeepsOrder ==
  ASSUME OrderTypes, FramesCohere, OrderCoheres, NEW k \in Slot, Build(k),
         UNCHANGED <<held, older>>, wpending' = NoFrame
  PROVE  OrderCoheres'
<1>1. /\ st[k] = "BUILDING" /\ lease[k] = wpending /\ lease[k] \in Frame
      /\ st' = Delivered(k) /\ UNCHANGED <<f, lease>> /\ ~f.quarantined
  BY NoFrameIsNone
  DEF Build, Building, OrderTypes, MediaTypes, FramesCohere, NoPinLost, SlotsCohere, WorkerHolds
<1>2. \A j \in Slot : st[j] # "DEFERRED" /\ (st[j] = "BUILDING" => j = k)
  BY <1>1, NoFrameIsNone DEF OrderTypes, FramesCohere, WorkerHolds, LeasesCohere, OrderCoheres
<1>3. OlderAreHeld'
  BY OldersHeld DEF OrderCoheres
<1>4. \A j \in Slot : st[j] # "EMPTY" => NoFrame \notin older[lease[j]]
  BY NoFrameIsNone DEF OrderTypes, MediaTypes, FramesCohere, SlotsCohere
<1>5. CASE MustDefer
  <2>1. st'[k] = "DEFERRED" /\ \A j \in Slot : j # k => st'[j] = st[j]
    BY <1>1, <1>5 DEF Delivered, OrderTypes, MediaTypes
  <2>2. f'.preserve
    BY <1>1, <1>5 DEF MustDefer
  <2> QED BY <1>1, <1>2, <1>3, <1>4, <2>1, <2>2 DEF OrderCoheres, Queued, Pending
<1>6. CASE ~MustDefer
  <2>1. /\ st'[k] \in {"RETURNING", "READY"} /\ (st'[k] = "READY" => ~f.closing)
        /\ \A j \in Slot : j # k =>
             st'[j] = IF st[j] \in {"READY", "DEFERRED"} THEN "RETURNING" ELSE st[j]
    BY <1>1, <1>6 DEF Delivered, Displaced, NewSlot, OrderTypes, MediaTypes
  <2>2. \A j \in Slot : j # k => st'[j] \notin {"READY", "DEFERRED", "BUILDING"}
    BY <1>2, <2>1
  <2>3. ASSUME NEW j \in Slot, st'[j] = "PUBLISHING"
        PROVE  st[j] = "PUBLISHING" /\ j # k /\ j \in Queued
    BY <2>1, <2>3 DEF Queued
  <2>4. ASSUME NEW j \in Slot, st'[j] = "PUBLISHING", st'[k] = "READY"
        PROVE  ~f'.preserve /\ lease[k] \notin older[lease[j]]
    BY <1>1, <1>6, <2>1, <2>3, <2>4 DEF MustDefer, OrderCoheres, Queued, Pending
  <2> QED BY <1>1, <1>3, <1>4, <2>1, <2>2, <2>3, <2>4 DEF OrderCoheres, Queued, Pending
<1> QED BY <1>5, <1>6

\* drain() promotes the deferred frame when none is queued.
LEMMA PromoteKeepsOrder ==
  ASSUME OrderTypes, FramesCohere, OrderCoheres, Promote, UNCHANGED <<held, older, wpending>>
  PROVE  OrderCoheres'
<1> DEFINE k == Lowest({j \in Slot : st[j] = "DEFERRED"})
<1>1. OlderAreHeld'
  BY OldersHeld DEF OrderCoheres
<1>2. CASE Promotes
  <2>1. k \in Slot /\ st[k] = "DEFERRED"
    BY <1>2, LowestIsMember DEF Promotes
  <2>2. /\ st' = [st EXCEPT ![k] = IF f.closing THEN "RETURNING" ELSE "READY"]
        /\ UNCHANGED <<f, lease>> /\ Queued = {}
    BY <1>2 DEF Promote, Promotes
  <2> HIDE DEF k
  <2>3. \A j \in Slot : st[j] \notin {"READY", "PUBLISHING"} /\ (j # k => st[j] # "DEFERRED")
    BY <2>1, <2>2 DEF Queued, OrderCoheres
  <2>4. st'[k] \in {"RETURNING", "READY"} /\ \A j \in Slot : j # k => st'[j] = st[j]
    BY <2>1, <2>2 DEF OrderTypes, MediaTypes
  <2> QED BY <1>1, <2>1, <2>2, <2>3, <2>4 DEF OrderCoheres, Queued, Pending
<1>3. CASE ~Promotes
  <2>1. LeavesOrder /\ UNCHANGED f
    BY <1>3 DEF Promote, LeavesOrder
  <2> QED BY <1>1, <2>1, LeavingKeepsOrder
<1> QED BY <1>2, <1>3

\* poll claims the one READY slot ...
LEMMA ClaimKeepsOrder ==
  ASSUME OrderTypes, FramesCohere, OrderCoheres, NEW k \in Slot, PollClaim(k), upoll = 0,
         UNCHANGED <<held, older, wpending>>
  PROVE  OrderCoheres'
<1>1. k \in Slot /\ st[k] = "READY"
  BY LowestIsMember DEF PollClaim, Pollable
<1>2. st' = [st EXCEPT ![k] = "PUBLISHING"] /\ UNCHANGED <<f, lease>>
  BY DEF PollClaim
<1>3. \A j \in Slot : st[j] # "PUBLISHING" /\ (st[j] = "READY" => j = k)
  BY <1>1, LeasesArePositive DEF FramesCohere, SlotsCohere, OrderCoheres, Slot
<1>4. st'[k] = "PUBLISHING" /\ \A j \in Slot : j # k => st'[j] = st[j]
  BY <1>1, <1>2 DEF OrderTypes, MediaTypes
<1>5. OlderAreHeld'
  BY OldersHeld DEF OrderCoheres
<1> QED BY <1>1, <1>2, <1>3, <1>4, <1>5 DEF OrderCoheres, Queued, Pending

\* ... and puts it back when it fails and frames are preserved.
LEMMA UnclaimKeepsOrder ==
  ASSUME OrderTypes, FramesCohere, OrderCoheres, PollFails, UNCHANGED <<held, older, wpending>>
  PROVE  OrderCoheres'
<1>1. upoll \in Slot /\ st[upoll] = "PUBLISHING"
  BY LeasesArePositive DEF OrderTypes, MediaTypes, FramesCohere, SlotsCohere, Slot, PollFails
<1>2. st' = [st EXCEPT ![upoll] = Unclaimed] /\ UNCHANGED <<f, lease>>
  BY DEF PollFails
<1>3. OlderAreHeld'
  BY OldersHeld DEF OrderCoheres
<1>4. \A j \in Slot : j # upoll => st'[j] = st[j] /\ st[j] # "PUBLISHING"
  BY <1>1, <1>2 DEF OrderTypes, MediaTypes, FramesCohere, SlotsCohere
<1>5. CASE Unclaimed = "RETURNING"
  <2>1. LeavesOrder
    BY <1>1, <1>2, <1>5 DEF LeavesOrder, OrderTypes, MediaTypes
  <2> QED BY <1>2, <1>3, <2>1, LeavingKeepsOrder
<1>6. CASE Unclaimed = "READY"
  <2>1. f.preserve
    BY <1>6 DEF Unclaimed
  <2>2. st'[upoll] = "READY" /\ \A j \in Slot : st[j] # "READY"
    BY <1>1, <1>2, <1>6, <2>1 DEF OrderTypes, MediaTypes, OrderCoheres
  <2> QED BY <1>1, <1>2, <1>3, <1>4, <2>1, <2>2 DEF OrderCoheres, Queued, Pending
<1> QED BY <1>5, <1>6 DEF Unclaimed

\* A new lease is younger than every lease out.
LEMMA LeaseKeepsOrder ==
  ASSUME OrderTypes, FramesCohere, OrderCoheres, NEW new \in Frame, SessAcquire(new),
         wpending' \in {wpending, NoFrame, new}, wpending' = new => new \notin held,
         UNCHANGED <<f, st, lease>>
  PROVE  OrderCoheres'
<1>1. OlderAreHeld'
  BY OldersHeld DEF OrderCoheres
<1>2. \A i \in Slot : st[i] # "EMPTY" => lease[i] \in held
  BY DEF FramesCohere, LeasesCohere
<1>3. \A i \in Slot : st[i] # "EMPTY" => older'[lease[i]] = older[lease[i]]
  BY <1>2 DEF SessAcquire, KeepLeases, OrderTypes, MediaTypes
<1>4. \A i \in Slot : st[i] # "EMPTY" => NoFrame \notin older[lease[i]]
  BY NoFrameIsNone DEF OrderTypes, MediaTypes, FramesCohere, SlotsCohere
<1>5. ASSUME NEW i \in Pending
      PROVE  wpending' \notin older'[lease'[i]]
  <2>1. st[i] # "EMPTY" /\ i \in Slot
    BY DEF Pending
  <2>2. lease[i] \in Frame
    BY <1>2, <2>1 DEF OrderTypes, MediaTypes
  <2> QED BY <1>3, <1>4, <2>1, <2>2 DEF OrderCoheres, OlderAreHeld
<1> QED BY <1>1, <1>3, <1>5 DEF OrderCoheres, Queued, Pending

LEMMA UiKeepsOrder ==
  ASSUME OrderTypes, FramesCohere, LifeCoheres, FinishedIsQuiet, OrderCoheres, PolicyKept, Ui
  PROVE  OrderCoheres'
<1>1. /\ UNCHANGED <<held, older, wpending>> /\ OlderAreHeld'
      /\ upc = "poll" => upoll = 0
  <2>1. UNCHANGED <<held, older, wpending>>
    BY DEF Ui, Prepare, Request, Seek, Poll, PollSlot, PollEnd, Close, CloseFrames, Destroy,
      Preserve, Readers, mediaVars, sessVars, workVars
  <2> QED BY <2>1, OldersHeld DEF OrderCoheres, LifeCoheres
<1>2. CASE Prepare \/ Request \/ Seek \/ Poll \/ Close \/ CloseFrames
  <2>1. FramesClose \/ UNCHANGED <<st, lease, f>>
    BY <1>2 DEF Prepare, Request, Seek, Poll, Close, CloseFrames, mediaVars, frameVars
  <2>2. LeavesOrder /\ f'.preserve = f.preserve
    BY <1>1, <2>1 DEF LeavesOrder, FramesClose, Displaced, OrderTypes, MediaTypes
  <2> QED BY <1>1, <2>2, LeavingKeepsOrder
<1>3. CASE Readers(ReaderOpen) \/ Readers(ReaderClose) \/ Readers(ImageDestroy) \/ PollImage
  <2>1. LeavesOrder /\ UNCHANGED f
    BY <1>1, <1>3
    DEF Readers, ReaderOpen, ReaderClose, ImageDestroy, PollImage, LeavesOrder, OrderTypes, MediaTypes
  <2> QED BY <1>1, <2>1, LeavingKeepsOrder
<1>4. CASE PollSlot
  <2>1. CASE UNCHANGED frameVars
    <3>1. LeavesOrder /\ UNCHANGED f
      BY <1>1, <2>1 DEF LeavesOrder, frameVars
    <3> QED BY <1>1, <3>1, LeavingKeepsOrder
  <2>2. CASE \E i \in Slot : PollClaim(i)
    BY <1>1, <1>4, <2>2, ClaimKeepsOrder DEF PollSlot
  <2> QED BY <1>4, <2>1, <2>2 DEF PollSlot
<1>5. CASE PollFails
  BY <1>1, <1>5, UnclaimKeepsOrder
<1>6. CASE \E on \in BOOLEAN : Preserve(on)
  <2>1. LeavesOrder /\ upoll = 0 /\ (f.preserve => f'.preserve)
    BY <1>1, <1>6 DEF Preserve, FramesPreserve, UiIdle, PolicyKept, LeavesOrder
  <2> QED BY <1>1, <2>1, LeavingKeepsOrder
<1>7. CASE Destroy
  <2>1. wpc = "gone" /\ UNCHANGED <<st, lease>>
    BY <1>7 DEF Destroy, LifeCoheres
  <2>2. \A i \in Slot : st'[i] = "EMPTY"
    BY <2>1 DEF FinishedIsQuiet
  <2>3. LeavesOrder
    BY <1>1, <2>1 DEF LeavesOrder
  <2> QED BY <1>1, <2>2, <2>3, LeavingKeepsOrder
<1> QED BY <1>2, <1>3, <1>4, <1>5, <1>6, <1>7 DEF Ui, PollEnd

LEMMA WorkerKeepsOrder ==
  ASSUME OrderTypes, SessTypeOK, FramesCohere, OrderCoheres, Worker
  PROVE  OrderCoheres'
<1>1. CASE Submit
  <2>1. wpending # NoFrame /\ ~Known(wpending) /\ UNCHANGED <<held, older>>
    BY <1>1 DEF Submit, FramesCohere, LeasesCohere, WorkerHolds, Known, sessVars
  <2>2. CASE SubmitBuilds(wpending)
    BY <1>1, <2>1, <2>2, SubmitKeepsOrder DEF Submit
  <2>3. CASE UNCHANGED frameVars
    <3>1. LeavesOrder /\ UNCHANGED f /\ OlderAreHeld'
      BY <1>1, <2>1, <2>3, OldersHeld DEF Submit, LeavesOrder, frameVars, OrderCoheres
    <3> QED BY <3>1, LeavingKeepsOrder
  <2> QED BY <1>1, <2>1, <2>2, <2>3 DEF Submit
<1>2. CASE BuildDone
  <2>1. UNCHANGED <<held, older>> /\ OlderAreHeld'
    BY <1>2, OldersHeld DEF BuildDone, sessVars, OrderCoheres
  <2>2. ASSUME NEW i \in Slot, Build(i), Delivers
        PROVE  OrderCoheres'
    BY <2>1, <2>2, BuildKeepsOrder DEF Delivers
  <2>3. ASSUME NEW i \in Slot, BuildFails(i), UNCHANGED wpending
        PROVE  OrderCoheres'
    <3>1. LeavesOrder /\ UNCHANGED f
      BY <2>1, <2>3 DEF BuildFails, LeavesOrder, OrderTypes, MediaTypes
    <3> QED BY <2>1, <3>1, LeavingKeepsOrder
  <2> QED BY <1>2, <2>2, <2>3 DEF BuildDone
<1>3. CASE Drain
  BY <1>3, PromoteKeepsOrder DEF Drain, KeepStream, sessVars
<1>4. CASE \E new \in Decoded, eos \in BOOLEAN : GetFrame(new, eos)
  <2>1. PICK new \in Decoded, eos \in BOOLEAN : GetFrame(new, eos)
    BY <1>4
  <2>2. new \in Frame /\ wpending = NoFrame /\ SessAcquire(new) /\ UNCHANGED <<f, st, lease>>
    BY <2>1 DEF GetFrame, Decoded, OrderTypes, MediaTypes, FramesCohere, WorkerHolds, frameVars
  <2>3. CASE wpending' = wpending
    BY <2>2, <2>3, NoFrameIsNone, LeaseKeepsOrder
  <2>4. CASE ~s'.quarantined /\ wpending' = new
    <3>1. new \notin held
      BY <2>2, <2>4 DEF SessAcquire, SessTypeOK
    <3> QED BY <2>2, <2>4, <3>1, LeaseKeepsOrder
  <2> QED BY <2>1, <2>3, <2>4 DEF GetFrame, KeepStream
<1>5. CASE \/ FaultFrames
           \/ \E ok \in BOOLEAN : DrainSlot(ok) \/ CloseBegins(ok) \/ SeekReturns(ok)
  <2>1. /\ wpending' \in {wpending, NoFrame} /\ f'.preserve = f.preserve
        /\ \/ UNCHANGED <<held, older>>
           \/ \E g \in Frame, ok \in BOOLEAN : SessRelease(g, ok)
    <3>1. CASE FaultFrames
      BY <1>5, <3>1 DEF FaultFrames, FramesClose, KeepStream, sessVars, OrderTypes, MediaTypes
    <3>2. ASSUME NEW ok \in BOOLEAN, DrainSlot(ok)
          PROVE  /\ UNCHANGED wpending /\ f'.preserve = f.preserve
                 /\ UNCHANGED <<held, older>> \/ \E g \in Frame : SessRelease(g, ok)
      <4>1. UNCHANGED wpending /\ w.slot \in Slot
        BY <3>2 DEF DrainSlot, KeepStream
      <4>2. CASE UNCHANGED mediaVars \/ KeepAll(w.slot)
        BY <4>1, <4>2 DEF KeepAll, mediaVars, frameVars, sessVars, OrderTypes, MediaTypes
      <4>3. CASE st[w.slot] = "RETURNING" /\ GiveBack(w.slot, ok)
        <5>1. lease[w.slot] \in Frame
          BY <4>1, <4>3 DEF FramesCohere, LeasesCohere, OrderTypes, MediaTypes
        <5> QED BY <4>1, <4>3, <5>1 DEF GiveBack
      <4> QED BY <3>2, <4>2, <4>3 DEF DrainSlot
    <3>3. ASSUME NEW ok \in BOOLEAN, CloseBegins(ok) \/ SeekReturns(ok)
          PROVE  /\ wpending' \in {wpending, NoFrame} /\ f'.preserve = f.preserve
                 /\ UNCHANGED <<held, older>> \/ \E g \in Frame : SessRelease(g, ok)
      BY <3>3 DEF CloseBegins, SeekReturns, FramesClose, frameVars, sessVars, OrderTypes, MediaTypes
    <3> QED BY <1>5, <3>1, <3>2, <3>3
  <2>2. OlderAreHeld'
    BY <2>1, OldersHeld DEF OrderCoheres
  <2>3. \A g \in Frame : older'[g] \subseteq older[g]
    BY <2>1 DEF SessRelease, OrderTypes
  <2>4. \A j \in Slot : \/ st'[j] = st[j] /\ lease'[j] = lease[j]
                        \/ st'[j] \in {"EMPTY", "RETURNING", "RELEASING", "PUBLISHED"}
    <3>1. CASE FramesClose \/ UNCHANGED <<st, lease>>
      BY <3>1 DEF FramesClose, Displaced, OrderTypes, MediaTypes
    <3>2. CASE w.slot \in Slot /\ KeepAll(w.slot)
      BY <3>2 DEF KeepAll, OrderTypes, MediaTypes
    <3>3. CASE w.slot \in Slot /\ \E ok \in BOOLEAN : GiveBack(w.slot, ok)
      BY <3>3 DEF GiveBack, OrderTypes, MediaTypes
    <3> QED BY <1>5, <3>1, <3>2, <3>3
        DEF FaultFrames, DrainSlot, CloseBegins, SeekReturns, mediaVars, frameVars
  <2> QED BY <2>1, <2>2, <2>3, <2>4, LeavingKeepsOrder DEF LeavesOrder
<1>6. CASE OpenSession \/ OpenSessionFails \/ Top \/ DrainDone \/ DrainFailed \/ CloseSession
           \/ CloseLater \/ Finish \/ SeekWaits \/ SeekCloses \/ SeekCancelled \/ Reseek
           \/ ReseekFails \/ SeekDone \/ Report \/ SetVolume \/ NotStarted \/ Terminal \/ Run
           \/ Fetch \/ GetNothing \/ Refused
           \/ \E ok \in BOOLEAN : Events(ok) \/ StartSession(ok) \/ SetPaused(ok)
  <2>1. UNCHANGED <<st, lease, wpending>> /\ f'.preserve = f.preserve
    BY <1>6 DEF OpenSession, OpenSessionFails, Top, DrainDone, DrainFailed, CloseSession,
      CloseLater, Finish, SeekWaits, SeekCloses, SeekCancelled, Reseek, ReseekFails, SeekDone,
      Report, SetVolume, NotStarted, Terminal, Run, Fetch, GetNothing, Refused, Events,
      StartSession, SetPaused, FramesReopen, KeepStream, mediaVars, frameVars, OrderTypes, MediaTypes
  <2>2. UNCHANGED <<held, older>>
    BY <1>6 DEF OpenSession, OpenSessionFails, Top, DrainDone, DrainFailed, CloseSession,
      CloseLater, Finish, SeekWaits, SeekCloses, SeekCancelled, Reseek, ReseekFails, SeekDone,
      Report, SetVolume, NotStarted, Terminal, Run, Fetch, GetNothing, Refused, Events,
      StartSession, SetPaused, SessOpen, SessOpenFails, SessClose, SessCloseFails, SessSeek,
      SessVolume, SessStart, SessPause, KeepLeases, mediaVars, sessVars
  <2>3. OlderAreHeld' /\ LeavesOrder
    BY <2>1, <2>2, OldersHeld DEF OrderCoheres, LeavesOrder
  <2> QED BY <2>1, <2>3, LeavingKeepsOrder
<1> QED BY <1>1, <1>2, <1>3, <1>4, <1>5, <1>6 DEF Worker

LEMMA OrderStep ==
  ASSUME PlayerSafe, OrderCoheres, [Next]_vars, PolicyKept \/ UNCHANGED vars
  PROVE  OrderCoheres'
<1>1. OrderTypes /\ SessTypeOK /\ FramesCohere /\ LifeCoheres /\ FinishedIsQuiet
  BY MediaTyped DEF PlayerSafe, StatusReasons, StatusCoheres, OrderTypes, SessTypeOK
<1>2. CASE Ui /\ PolicyKept
  BY <1>1, <1>2, UiKeepsOrder
<1>3. CASE Worker
  BY <1>1, <1>3, WorkerKeepsOrder
<1>4. CASE Decoder \/ UNCHANGED vars
  <2>1. UNCHANGED <<st, lease, f, held, older, wpending>>
    BY <1>4 DEF Decoder, PlayEnd, DecoderAllocates, DecoderFrees, KeepLeases, vars, mediaVars,
      frameVars, sessVars, workVars
  <2>2. OlderAreHeld' /\ LeavesOrder
    BY <1>1, <2>1, OldersHeld DEF OrderCoheres, LeavesOrder
  <2> QED BY <1>1, <2>1, <2>2, LeavingKeepsOrder
<1> QED BY <1>2, <1>3, <1>4 DEF Next

LEMMA OrderStarts ==
  ASSUME Init
  PROVE  OrderCoheres
BY DEF Init, SessInit, FramesInit, OrderCoheres, OlderAreHeld, Queued, Pending

\* For any leases, and with every seek, fault, close, failed poll and lost frame, the
\* waiting frames are in order, as long as no instance switches the policy off
\* (frames_submit, frames_drain and frames_poll_image).
THEOREM OrderHolds == Spec /\ [][PolicyKept]_vars => []OrderCoheres
<1>1. Init => OrderCoheres
  BY OrderStarts
<1>2. PlayerSafe /\ [Next]_vars /\ [PolicyKept]_vars /\ OrderCoheres => OrderCoheres'
  BY OrderStep
<1> QED BY <1>1, <1>2, PlaybackCoheres, PTL DEF Spec

\* At most one frame is deferred (frames_submit: the worker waits before it makes
\* another).
THEOREM OneIsDeferred == Spec /\ [][PolicyKept]_vars => []OneDeferred
<1>1. OrderCoheres => OneDeferred
  <2> SUFFICES ASSUME OrderCoheres
               PROVE  OneDeferred
    OBVIOUS
  <2> DEFINE D == {i \in Slot : st[i] = "DEFERRED"}
  <2>1. CASE D = {}
    BY <2>1, FS_EmptySet DEF OneDeferred
  <2>2. CASE D # {}
    <3>1. PICK i \in D : TRUE
      BY <2>2
    <3>2. D = {i}
      BY <3>1 DEF OrderCoheres
    <3> QED BY <3>2, FS_Singleton DEF OneDeferred
  <2> QED BY <2>1, <2>2
<1> QED BY <1>1, OrderHolds, PTL

\* The frame shown has no older one waiting (poll_image against submit and drain).
ShowsOldest ==
  \A i, j \in Slot :
    st[i] = "PUBLISHING" /\ st'[i] = "PUBLISHED" /\ j \in Pending => lease[j] \notin older[lease[i]]

LEMMA OldestIsShown ==
  ASSUME PlayerSafe, OrderCoheres
  PROVE  ShowsOldest
<1> SUFFICES ASSUME NEW i \in Slot, NEW j \in Pending, st[i] = "PUBLISHING"
             PROVE  lease[j] \notin older[lease[i]]
  BY DEF ShowsOldest
<1>1. MediaTypes /\ FramesCohere
  BY MediaTyped DEF PlayerSafe
<1>2. j \in Slot /\ i \in Queued /\ upoll = i /\ lease[i] \in Frame
  BY <1>1, NoFrameIsNone DEF Pending, Queued, MediaTypes, FramesCohere, SlotsCohere
<1>3. CASE st[j] \in {"READY", "DEFERRED"}
  BY <1>2, <1>3 DEF OrderCoheres
<1>4. CASE st[j] = "PUBLISHING"
  <2>1. j = i
    BY <1>1, <1>2, <1>4 DEF FramesCohere, SlotsCohere
  <2> QED BY <1>2, <2>1 DEF OrderCoheres, OlderAreHeld
<1> QED BY <1>3, <1>4 DEF Pending

THEOREM ShownOrdered == Spec /\ [][PolicyKept]_vars => ShownInOrder
<1>1. PlayerSafe /\ OrderCoheres => [ShowsOldest]_<<frameVars, sessVars, memVars>>
  BY OldestIsShown
<1> QED BY <1>1, PlaybackCoheres, OrderHolds, PTL DEF ShownInOrder, ShowsOldest

\* The deferred frame is not given up either: none is deferred while another is built.
KeepsPending == \A i \in Pending : f.preserve /\ ~f'.closing => st'[i] # "RETURNING"

LEMMA PendingStep ==
  ASSUME PlayerSafe, OrderCoheres, [Next]_vars
  PROVE  KeepsPending
<1>1. MediaTypes /\ TypeOK /\ FramesCohere /\ FinishedIsQuiet
  BY MediaTyped DEF PlayerSafe
<1> SUFFICES ASSUME NEW k \in Slot, st[k] = "DEFERRED", f.preserve, ~f'.closing
             PROVE  st'[k] # "RETURNING"
  BY <1>1, QueuedStep DEF KeepsQueued, KeepsPending, Queued, Pending
<1>2. CASE Ui
  <2>1. \/ UNCHANGED st \/ FramesClose
        \/ PollImage \/ PollFails
        \/ \E i \in Slot : PollClaim(i) \/ ReaderOpen(i) \/ ReaderClose(i) \/ ImageDestroy(i)
    BY <1>2 DEF Ui, Prepare, Request, Seek, Poll, PollSlot, PollEnd, Close, CloseFrames, Destroy,
      Preserve, FramesPreserve, Readers, mediaVars, frameVars
  <2>2. CASE UNCHANGED st \/ FramesClose
    BY <1>1, <2>2 DEF FramesClose, MediaTypes
  <2>3. CASE PollImage \/ PollFails
    <3>1. upoll # k
      BY <1>1 DEF FramesCohere, SlotsCohere
    <3> QED BY <1>1, <2>3, <3>1 DEF PollImage, PollFails, MediaTypes
  <2>4. CASE \E i \in Slot : PollClaim(i) \/ ReaderOpen(i) \/ ReaderClose(i) \/ ImageDestroy(i)
    <3>1. PICK i \in Slot : PollClaim(i) \/ ReaderOpen(i) \/ ReaderClose(i) \/ ImageDestroy(i)
      BY <2>4
    <3>2. CASE PollClaim(i) \/ ReaderOpen(i)
      BY <1>1, <3>2 DEF PollClaim, ReaderOpen, MediaTypes
    <3>3. CASE ReaderClose(i) \/ ImageDestroy(i)
      <4>1. i # k
        BY <1>1, <3>3 DEF ReaderClose, ImageDestroy, FramesCohere, SlotsCohere
      <4> QED BY <1>1, <3>3, <4>1 DEF ReaderClose, ImageDestroy, MediaTypes
    <3> QED BY <3>1, <3>2, <3>3
  <2> QED BY <2>1, <2>2, <2>3, <2>4
<1>3. CASE Worker
  <2>1. CASE Submit
    BY <1>1, <2>1 DEF Submit, SubmitBuilds, frameVars, MediaTypes
  <2>2. CASE BuildDone
    <3>1. PICK i \in Slot : Build(i) \/ BuildFails(i)
      BY <2>2 DEF BuildDone
    <3>2. st[i] = "BUILDING"
      BY <3>1 DEF Build, BuildFails, Building
    <3> QED BY <3>2 DEF OrderCoheres
  <2>3. CASE \E ok \in BOOLEAN : DrainSlot(ok)
    <3>1. PICK ok \in BOOLEAN : DrainSlot(ok)
      BY <2>3
    <3>2. \/ UNCHANGED st
          \/ w.slot \in Slot /\ (KeepAll(w.slot) \/ (st[w.slot] = "RETURNING" /\ GiveBack(w.slot, ok)))
      BY <3>1 DEF DrainSlot, mediaVars, frameVars
    <3> QED BY <1>1, <3>2 DEF KeepAll, GiveBack, MediaTypes
  <2>4. CASE Drain
    <3>1. \/ UNCHANGED st
          \/ \E i \in Slot : st' = [st EXCEPT ![i] = IF f.closing THEN "RETURNING" ELSE "READY"]
      BY <2>4, LowestIsMember DEF Drain, Promote, Promotes
    <3>2. ~f.closing
      BY <2>4 DEF Drain, Promote
    <3> QED BY <1>1, <3>1, <3>2 DEF MediaTypes
  <2>5. CASE FaultFrames \/ \E ok \in BOOLEAN : CloseBegins(ok)
    BY <1>1, <2>5 DEF FaultFrames, CloseBegins, FramesClose, MediaTypes
  <2>6. CASE ~Submit /\ ~BuildDone /\ ~Drain /\ ~FaultFrames
             /\ ~\E ok \in BOOLEAN : DrainSlot(ok) \/ CloseBegins(ok)
    <3>1. UNCHANGED st
      BY <1>3, <2>6
      DEF Worker, OpenSession, OpenSessionFails, Top, DrainDone, DrainFailed,
      CloseSession, CloseLater, Finish, SeekWaits, SeekCloses, SeekCancelled, Reseek,
      ReseekFails, SeekDone, Report, SetVolume, NotStarted, Terminal, Run, Fetch,
      GetNothing, Refused, SeekReturns, Events, StartSession, SetPaused, GetFrame,
      FramesReopen, KeepStream, mediaVars, frameVars
    <3> QED BY <3>1
  <2> QED BY <2>1, <2>2, <2>3, <2>4, <2>5, <2>6
<1>4. CASE Decoder \/ UNCHANGED vars
  BY <1>4 DEF Decoder, vars, mediaVars, frameVars
<1> QED BY <1>2, <1>3, <1>4 DEF Next

\* "an unconsumed/being-published frame is never replaced" (lv_aic_player_frames.h).
THEOREM PreservedKept == Spec /\ [][PolicyKept]_vars => PreservedIsKept
<1>1. PlayerSafe /\ OrderCoheres /\ [Next]_vars => [KeepsPending]_<<frameVars, sessVars, memVars>>
  BY PendingStep
<1> QED BY <1>1, PlaybackCoheres, OrderHolds, PTL DEF Spec, PreservedIsKept, KeepsPending

=============================================================================
