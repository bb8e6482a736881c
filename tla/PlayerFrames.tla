---------------------------- MODULE PlayerFrames ----------------------------
(***************************************************************************)
(* The publication mailbox between the playback worker and LVGL            *)
(* (port/lv_aic_player_frames.c).  The worker submits the frame it has     *)
(* leased and drains what comes back; the UI thread polls the READY frame  *)
(* into an immutable image (image/mpp), whose last reader returns the      *)
(* slot.  The mailbox has a mutex: an action is one locked section with    *)
(* the SDK and allocator calls before it.  The worker's actions have no    *)
(* program counter here; PlayerPlayback gives them one.                    *)
(***************************************************************************)
EXTENDS PlayerSession

CONSTANTS
  Leases,   \* LV_AIC_PLAYER_LEASES, the slots
  NoFrame   \* no lease

ASSUME LeasesArePositive == Leases \in Nat \ {0}
ASSUME NoFrameIsNone == NoFrame \notin Frame

Slot == 1..Leases

VARIABLES
  f,         \* the bridge's closing, quarantined and preserve
  st,        \* f->slots[i].state
  lease,     \* f->slots[i].sdk_lease, NoFrame while EMPTY
  pinned,    \* f->slots[i].pin # 0
  image,     \* the image of slot i: without readers ("shown"), with ("read"),
             \* destroyed by its owner but still read ("kept")
  upoll      \* the slot the UI thread is making an image of, or 0

frameVars == <<f, st, lease, pinned, image, upoll>>

SlotStates == {"EMPTY", "BUILDING", "DEFERRED", "READY", "PUBLISHING", "PUBLISHED",
               "RETURNING", "RELEASING"}

FramesTypeOK ==
  /\ f \in [closing : BOOLEAN, quarantined : BOOLEAN, preserve : BOOLEAN]
  /\ st \in [Slot -> SlotStates] /\ lease \in [Slot -> Frame \cup {NoFrame}]
  /\ pinned \in [Slot -> BOOLEAN]
  /\ image \in [Slot -> {"none", "shown", "read", "kept"}]
  /\ upoll \in 0..Leases

FramesInit ==
  /\ f = [closing |-> FALSE, quarantined |-> FALSE, preserve |-> FALSE]
  /\ st = [i \in Slot |-> "EMPTY"] /\ lease = [i \in Slot |-> NoFrame]
  /\ pinned = [i \in Slot |-> FALSE] /\ image = [i \in Slot |-> "none"]
  /\ upoll = 0

Queued == {i \in Slot : st[i] \in {"READY", "PUBLISHING"}}
Pending == {i \in Slot : st[i] \in {"READY", "PUBLISHING", "DEFERRED"}}
Idle == ~f.quarantined /\ \A i \in Slot : st[i] = "EMPTY"
Lowest(S) == CHOOSE i \in S : \A j \in S : i <= j

\* Unpublished frames are given up: by close, and by a newer frame.
Displaced == [i \in Slot |-> IF st[i] \in {"READY", "DEFERRED"} THEN "RETURNING" ELSE st[i]]

-----------------------------------------------------------------------------
(* submit(), in two sections around the pin and the import; slips the runs   *)
(* must notice come before their originals (see the mutants in PROJECT.json) *)

Known(l) == \E i \in Slot : st[i] # "EMPTY" /\ lease[i] = l
MustWaitNever == FALSE
MustWait == f.preserve /\ Pending # {}
Free == {i \in Slot : st[i] = "EMPTY"}

\* submit answers without building: OK of a lease it knows, WAIT, or FAILED
\* (bad is FRAME_FLAG_ERROR).
SubmitWaits(bad) == ~s.faulted /\ ~bad /\ MustWait
SubmitFails(bad) == s.faulted \/ bad \/ (~MustWait /\ (f.closing \/ f.quarantined \/ Free = {}))

SubmitBuilds(new) ==
  /\ ~s.faulted /\ ~MustWait /\ ~f.closing /\ ~f.quarantined /\ Free # {}
  /\ LET i == Lowest(Free) IN
       st' = [st EXCEPT ![i] = "BUILDING"] /\ lease' = [lease EXCEPT ![i] = new]
  /\ UNCHANGED <<f, pinned, image, upoll>>

Building == {i \in Slot : st[i] = "BUILDING"}

\* The frame could not be pinned or imported: nothing is kept of it.
BuildFails(i) ==
  /\ i \in Building
  /\ st' = [st EXCEPT ![i] = "EMPTY"] /\ lease' = [lease EXCEPT ![i] = NoFrame]
  /\ UNCHANGED <<f, pinned, image, upoll, memVars>>

\* Where the new frame goes, and what happens to the older ones: the policy may
\* have changed since the section above.
MustDeferNever == FALSE
MustDefer == f.preserve /\ ~f.closing /\ ~f.quarantined /\ Queued # {}
NewSlotReady == "READY"
NewSlot == IF f.closing \/ f.quarantined THEN "RETURNING" ELSE "READY"
Delivered(i) ==
  IF MustDefer THEN [st EXCEPT ![i] = "DEFERRED"] ELSE [Displaced EXCEPT ![i] = NewSlot]

Build(i) ==
  /\ i \in Building /\ Pinnable(lease[i])
  /\ pins' = pins \cup {lease[i]} /\ UNCHANGED mem
  /\ pinned' = [pinned EXCEPT ![i] = TRUE]
  /\ st' = Delivered(i)
  /\ UNCHANGED <<f, lease, image, upoll>>

-----------------------------------------------------------------------------
(* lv_aic_player_frames_drain *)

\* Promote one DEFERRED slot when nothing older is queued.
PromotesAlways == \E i \in Slot : st[i] = "DEFERRED"
Promotes == Queued = {} /\ \E i \in Slot : st[i] = "DEFERRED"
Promote ==
  /\ IF Promotes
       THEN LET i == Lowest({j \in Slot : st[j] = "DEFERRED"}) IN
              st' = [st EXCEPT ![i] = IF f.closing THEN "RETURNING" ELSE "READY"]
       ELSE UNCHANGED st
  /\ UNCHANGED <<f, lease, pinned, image, upoll>>

\* The allocator does not know the pin: everything is kept as it is.
PinLost(i) == pinned[i] /\ lease[i] \notin pins
KeepAll(i) ==
  /\ f' = [f EXCEPT !.quarantined = TRUE]
  /\ st' = [st EXCEPT ![i] = "RELEASING"]
  /\ UNCHANGED <<lease, pinned, image, upoll, sessVars, memVars>>

\* A put retry must never repeat the allocator release.
PinLeftUntilPut(ok) == ~ok
PinLeft(ok) == FALSE

\* A RETURNING slot: release the pin, then put the frame.
GiveBack(i, ok) ==
  /\ IF pinned[i] THEN Unpin(lease[i]) ELSE UNCHANGED memVars
  /\ pinned' = [pinned EXCEPT ![i] = PinLeft(ok)]
  /\ SessRelease(lease[i], ok)
  /\ IF ok
       THEN st' = [st EXCEPT ![i] = "EMPTY"] /\ lease' = [lease EXCEPT ![i] = NoFrame]
       ELSE UNCHANGED <<st, lease>>
  /\ UNCHANGED <<f, image, upoll>>

-----------------------------------------------------------------------------
(* The UI thread, and lifetime *)

\* lv_aic_player_frames_preserve
FramesPreserve(on) ==
  f' = [f EXCEPT !.preserve = on] /\ UNCHANGED <<st, lease, pinned, image, upoll>>

\* lv_aic_player_frames_close
FramesClose ==
  /\ f' = [f EXCEPT !.closing = TRUE] /\ st' = Displaced
  /\ UNCHANGED <<lease, pinned, image, upoll>>

\* lv_aic_player_frames_reopen
MayReopen == f.closing /\ Idle
FramesReopen ==
  /\ MayReopen
  /\ f' = [f EXCEPT !.closing = FALSE]
  /\ UNCHANGED <<st, lease, pinned, image, upoll>>

\* lv_aic_player_frames_poll_image (and _poll, which takes YUV slots only):
\* claim a READY slot ...
Pollable == {i \in Slot : ~f.closing /\ ~f.quarantined /\ st[i] = "READY"}
PollClaim(i) ==
  /\ Pollable # {} /\ i = Lowest(Pollable)
  /\ upoll' = i
  /\ st' = [st EXCEPT ![i] = "PUBLISHING"]
  /\ UNCHANGED <<f, lease, pinned, image>>

\* ... retain it for a new image ...
MayRetain == ~f.closing /\ ~f.quarantined
PollImage ==
  /\ upoll # 0 /\ MayRetain
  /\ st' = [st EXCEPT ![upoll] = "PUBLISHED"]
  /\ image' = [image EXCEPT ![upoll] = "shown"]
  /\ upoll' = 0
  /\ UNCHANGED <<f, lease, pinned>>

\* ... or give the slot back, when there is no memory or retain refused.
UnclaimedReturns == "RETURNING"
Unclaimed == IF f.preserve /\ ~f.closing /\ ~f.quarantined THEN "READY" ELSE "RETURNING"
PollFails ==
  /\ upoll # 0
  /\ st' = [st EXCEPT ![upoll] = Unclaimed]
  /\ upoll' = 0
  /\ UNCHANGED <<f, lease, pinned, image>>

ReaderOpen(i) ==
  /\ image[i] = "shown" /\ image' = [image EXCEPT ![i] = "read"]
  /\ UNCHANGED <<f, st, lease, pinned, upoll>>

\* The last reader of a destroyed image runs release().
ReaderClose(i) ==
  /\ \/ image[i] = "read" /\ image' = [image EXCEPT ![i] = "shown"] /\ UNCHANGED st
     \/ /\ image[i] = "kept" /\ image' = [image EXCEPT ![i] = "none"]
        /\ st' = [st EXCEPT ![i] = "RETURNING"]
  /\ UNCHANGED <<f, lease, pinned, upoll>>

\* Its owner does when there is no reader.
UnreadAlways(i) == TRUE
Unread(i) == image[i] # "read"
ImageDestroy(i) ==
  /\ image[i] \in {"shown", "read"}
  /\ image' = [image EXCEPT ![i] = IF @ = "read" THEN "kept" ELSE "none"]
  /\ st' = IF Unread(i) THEN [st EXCEPT ![i] = "RETURNING"] ELSE st
  /\ UNCHANGED <<f, lease, pinned, upoll>>

-----------------------------------------------------------------------------
(* What holds between the mailbox's sections, part by part *)

\* A slot's fields go by its state: what is leased, what is pinned, which slot has
\* an image and which one the UI thread is making an image of.
SlotsCohere ==
  \A i \in Slot :
    /\ (lease[i] = NoFrame) <=> (st[i] = "EMPTY")
    /\ pinned[i] => st[i] \notin {"EMPTY", "BUILDING"}
    /\ st[i] \in {"DEFERRED", "READY", "PUBLISHING", "PUBLISHED"} => pinned[i]
    /\ (image[i] # "none") <=> (st[i] = "PUBLISHED")
    /\ (upoll = i) <=> (st[i] = "PUBLISHING")

\* A pin is one slot's, and pinned memory is allocated; only pinned memory can be
\* retired.
PinsCohere ==
  /\ \A i \in Slot : pinned[i] => lease[i] \in pins
  /\ \A g \in pins : mem[g] # "free" /\ \E i \in Slot : pinned[i] /\ lease[i] = g
  /\ \A g \in Frame : mem[g] = "retired" => g \in pins

\* The allocator knows every pin there is, so the mailbox never quarantines itself.
NoPinLost == ~f.quarantined /\ \A i \in Slot : st[i] # "RELEASING"

-----------------------------------------------------------------------------
(* Properties of the mailbox, whoever the worker is *)

\* While a frame is shown, read, or being made into an image, its memory is
\* pinned and not freed, and the decoder does not have it back.
Exposed(i) == st[i] \in {"PUBLISHING", "PUBLISHED"} \/ image[i] # "none"
FramesAreStable ==
  \A i \in Slot : Exposed(i) =>
    lease[i] \in held /\ lease[i] \in pins /\ mem[lease[i]] # "free"

\* Two slots never have one lease, and the pins are the slots' pins.
SlotsDisjoint ==
  /\ \A i, j \in Slot : i # j /\ lease[i] = lease[j] => lease[i] = NoFrame
  /\ \A i \in Slot : (lease[i] = NoFrame) <=> (st[i] = "EMPTY")
  /\ pins = {lease[i] : i \in {j \in Slot : pinned[j]}}

\* While frames are preserved the queued one is never replaced: it leaves the
\* queue only to be shown.
QueuedIsKept ==
  [][\A i \in Queued : f.preserve /\ ~f'.closing => st'[i] # "RETURNING"]_<<frameVars, sessVars, memVars>>

\* The same of every frame not yet consumed, the deferred one included
\* (lv_aic_player_frames.h: "an unconsumed/being-published frame is never
\* replaced").
PreservedIsKept ==
  [][\A i \in Pending : f.preserve /\ ~f'.closing => st'[i] # "RETURNING"]_<<frameVars, sessVars, memVars>>

\* Frames are shown in the order of their leases: an older one is not waiting.
ShownInOrder ==
  [][\A i, j \in Slot :
       st[i] = "PUBLISHING" /\ st'[i] = "PUBLISHED" /\ j \in Pending =>
         lease[j] \notin older[lease[i]]]_<<frameVars, sessVars, memVars>>

\* At most one frame waits beyond the queued one.
OneDeferred == Cardinality({i \in Slot : st[i] = "DEFERRED"}) <= 1
=============================================================================
