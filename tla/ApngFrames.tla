----------------------------- MODULE ApngFrames -----------------------------
(***************************************************************************)
(* The snapshot mailbox of an APNG player (port/lv_aic_apng_frames.c): the *)
(* worker copies the composed canvas into a slot, the UI thread polls the  *)
(* READY slot into an immutable image (image/mpp/lv_aic_rgb_image.c) and   *)
(* its last reader frees the slot.  A mutex guards the slots, but the copy *)
(* itself runs outside of it: publication is two sections, and so is poll. *)
(***************************************************************************)
EXTENDS Naturals

CONSTANT Snapshots   \* slots of the pool

ASSUME SnapshotsAreTwoOrMore == Snapshots \in Nat /\ Snapshots >= 2

Slot == 1..Snapshots

\* A frame is <<replay, number>>: the stream's sequence numbers rise over frames
\* and over replays.  <<r, 0>> is no frame: nothing composed, or pixels that are
\* free or being overwritten.
Newer(a, b) == a[1] > b[1] \/ (a[1] = b[1] /\ a[2] > b[2])
Nothing == <<0, 0>>

VARIABLES
  pool,     \* p->frames: made, closed, preserve, last (last_sequence)
  st,       \* p->slots[i].state
  pic,      \* the pixels of slot i, and its sequence
  image,    \* the image of slot i: without readers ("shown"), with ("read"),
            \* destroyed by its owner but still read ("kept")
  upoll     \* the slot the UI thread is making an image of, or 0

frameVars == <<pool, st, pic, image, upoll>>

SlotStates == {"FREE", "WRITING", "READY", "CLAIMED", "LEASED"}
NoPool == [made |-> FALSE, closed |-> FALSE, preserve |-> FALSE, last |-> Nothing]

FramesTypeOK(Frame) ==
  /\ pool \in [made : BOOLEAN, closed : BOOLEAN, preserve : BOOLEAN, last : Frame]
  /\ st \in [Slot -> SlotStates] /\ pic \in [Slot -> Frame]
  /\ image \in [Slot -> {"none", "shown", "read", "kept"}]
  /\ upoll \in 0..Snapshots

FramesInit ==
  /\ pool = NoPool
  /\ st = [i \in Slot |-> "FREE"] /\ pic = [i \in Slot |-> Nothing]
  /\ image = [i \in Slot |-> "none"] /\ upoll = 0

Waiting == {i \in Slot : st[i] = "READY"}
Free == {i \in Slot : st[i] = "FREE"}
First(i, S) == i \in S /\ \A j \in S : i <= j

\* pending_locked: a frame waits for the UI thread, or is in its hands.
Pending == \E i \in Slot : st[i] \in {"READY", "CLAIMED"}

\* The slots in S are given up.
Freed(S) ==
  /\ st' = [i \in Slot |-> IF i \in S THEN "FREE" ELSE st[i]]
  /\ pic' = [i \in Slot |-> IF i \in S THEN Nothing ELSE pic[i]]

-----------------------------------------------------------------------------
(* The worker's functions; slips the runs must notice come before their      *)
(* originals (see the mutants in PROJECT.json)                               *)

Make(preserve) == pool' = [NoPool EXCEPT !.made = TRUE, !.preserve = preserve]

\* lv_aic_apng_frames_publish, first section: a new frame displaces the waiting
\* one, unless the policy preserves it; leased slots are never taken.
Blocked == pool.preserve /\ Pending
TargetsLeased == IF Waiting # {} THEN Waiting ELSE {i \in Slot : st[i] # "CLAIMED"}
Targets == IF Waiting # {} THEN Waiting ELSE Free
Publishable(frame) == ~pool.closed /\ Newer(frame, pool.last) /\ ~Blocked /\ Targets # {}
PublishBegin(i) ==
  /\ First(i, Targets)
  /\ st' = [st EXCEPT ![i] = "WRITING"] /\ pic' = [pic EXCEPT ![i] = Nothing]
  /\ UNCHANGED <<pool, image, upoll>>

\* Second section, after the copy.
PublishEnd(i, frame) ==
  /\ st' = [st EXCEPT ![i] = IF pool.closed THEN "FREE" ELSE "READY"]
  /\ pic' = [pic EXCEPT ![i] = IF pool.closed THEN Nothing ELSE frame]
  /\ pool' = IF pool.closed THEN pool ELSE [pool EXCEPT !.last = frame]
  /\ UNCHANGED <<image, upoll>>

\* lv_aic_apng_frames_discard, and _close.
Discard == Freed(Waiting) /\ UNCHANGED <<pool, image, upoll>>
DroppedNever == {}
Dropped == Waiting
CloseFrames ==
  /\ pool' = [pool EXCEPT !.closed = @ \/ pool.made]
  /\ Freed(Dropped) /\ UNCHANGED <<image, upoll>>

-----------------------------------------------------------------------------
(* The UI thread's functions *)

SetPreserve(on) ==
  /\ pool' = [pool EXCEPT !.preserve = on /\ pool.made]
  /\ UNCHANGED <<st, pic, image, upoll>>

\* lv_aic_apng_frames_poll, in two sections around the image's allocation.
PollClaim(i) ==
  /\ pool.made /\ ~pool.closed /\ First(i, Waiting)
  /\ st' = [st EXCEPT ![i] = "CLAIMED"] /\ upoll' = i
  /\ UNCHANGED <<pool, pic, image>>

\* The image retains the slot: lv_aic_rgb_image_create, retain().
PollImage ==
  /\ st' = [st EXCEPT ![upoll] = "LEASED"] /\ image' = [image EXCEPT ![upoll] = "shown"]
  /\ upoll' = 0
  /\ UNCHANGED <<pool, pic>>

\* No memory for an image: the frame waits again, or is gone.
Requeues == pool.preserve /\ ~pool.closed
PollFails ==
  /\ IF Requeues
       THEN st' = [st EXCEPT ![upoll] = "READY"] /\ UNCHANGED pic
       ELSE Freed({upoll})
  /\ upoll' = 0
  /\ UNCHANGED <<pool, image>>

\* Readers open and close the image; its owner destroys it.
ImageOpen(i) ==
  /\ image[i] = "shown"
  /\ image' = [image EXCEPT ![i] = "read"]
  /\ UNCHANGED <<pool, st, pic, upoll>>

ImageClose(i) ==
  /\ image[i] \in {"read", "kept"}
  /\ IF image[i] = "kept"
       THEN image' = [image EXCEPT ![i] = "none"] /\ Freed({i})
       ELSE image' = [image EXCEPT ![i] = "shown"] /\ UNCHANGED <<st, pic>>
  /\ UNCHANGED <<pool, upoll>>

Unread(i) == image[i] = "shown"
ImageDestroy(i) ==
  /\ image[i] \in {"shown", "read"}
  /\ image' = [image EXCEPT ![i] = IF @ = "shown" THEN "none" ELSE "kept"]
  /\ Freed(IF Unread(i) THEN {i} ELSE {})
  /\ UNCHANGED <<pool, upoll>>

-----------------------------------------------------------------------------
(* Properties of any user of the mailbox *)

\* Every slot is where its state says: CLAIMED is the one the UI thread works on,
\* LEASED has an image, and only what waits or is shown holds a frame.
SlotsAccounted ==
  \A i \in Slot :
    /\ st[i] = "CLAIMED" <=> upoll = i
    /\ st[i] = "LEASED" <=> image[i] # "none"
    /\ st[i] \in {"FREE", "WRITING"} <=> pic[i][2] = 0

\* The pixels of an image are a whole frame for as long as anyone may read them:
\* publish writes to no slot that is leased or claimed.
PictureIsStable == \A i \in Slot : image[i] # "none" \/ upoll = i => pic[i][2] > 0
=============================================================================
