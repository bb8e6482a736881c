----------------------------- MODULE CameraProofs -----------------------------
(***************************************************************************)
(* A capture's buffers are in one pair of hands each, for any number of    *)
(* buffers, generations and readers, with or without barcodes.  CameraInv  *)
(* strengthens CaptureInv by whose hands they are, and by what the two     *)
(* ends of a worker's life leave behind.                                   *)
(***************************************************************************)
EXTENDS CameraCapture, TLAPS

Working == wpc \in {"scan", "decode", "publish"}

\* The worker holds the buffer it has just dequeued.
InWork(i) == Working /\ wi = i

\* Whose each buffer is, and that the driver fills none that has an owner who
\* cares about its pixels (a RETURN buffer may be queued by a failed Q_BUF).
Hands ==
  /\ Working => wi \in Index
  /\ \A i \in Index :
       /\ i \in held <=> slot[i] # "EMPTY" \/ InWork(i)
       /\ InWork(i) => slot[i] = "EMPTY"
       /\ slot[i] = "PUBLISHED" <=> image[i] # "none"
       /\ readers[i] > 0 => image[i] # "none"
       /\ slot[i] = "PUBLISHING" <=> upc = "publish" /\ ui = i
       /\ slot[i] \notin {"EMPTY", "RETURN"} \/ InWork(i) => i \notin queued

\* The worker exists between prepare and its last access, and holds nothing
\* before and after.
Life ==
  /\ wpc = "none" <=> ~active
  /\ wpc = "gone" <=> finished
  /\ wpc \in {"none", "gone"} => held = {} /\ ~pool /\ ~streaming

CameraInv == TypeOK /\ Hands /\ Life

-----------------------------------------------------------------------------
(* The types *)

\* Flags and the rest apart: the solver keeps a disjunction of equalities better
\* than membership in BOOLEAN.
Bit(x) == x = TRUE \/ x = FALSE

Flags ==
  /\ Bit(pool) /\ Bit(streaming) /\ Bit(paused) /\ Bit(faulted)
  /\ Bit(active) /\ Bit(closing) /\ Bit(finished)
  /\ Bit(pauseRequested) /\ Bit(startRequested) /\ Bit(inflight)
  /\ Bit(enabled) /\ Bit(only) /\ Bit(ready)
  /\ Bit(wclosing) /\ Bit(wpaused) /\ Bit(wstart)

\* Where the worker and the UI thread are, and what they were told.
Places ==
  /\ state \in CaptureStates /\ input \in InputStates
  /\ gen \in 0..MaxGen /\ readyGen \in 0..MaxGen /\ wgen \in 0..MaxGen
  /\ wpc \in {"none", "open", "top", "slots", "close", "select", "control", "stream",
              "dequeue", "scan", "decode", "publish", "gone"}
  /\ wi \in 0..Count
  /\ upc \in {"idle", "publish"} /\ ui \in Index

Buffers ==
  /\ num \in 0..Count /\ held \subseteq Index /\ queued \subseteq Index
  /\ slot \in [Index -> SlotStates]
  /\ image \in [Index -> {"none", "live", "retired"}]
  /\ readers \in [Index -> 0..MaxReaders]

LEMMA BooleanBit ==
  ASSUME NEW x
  PROVE  x \in BOOLEAN <=> Bit(x)
BY Zenon DEF Bit

LEMMA TypesSplit ==
  /\ TypeOK <=> Flags /\ Places /\ Buffers
  /\ TypeOK' <=> Flags' /\ Places' /\ Buffers'
BY BooleanBit DEF TypeOK, VinTypeOK, Flags, Places, Buffers

LEMMA UiFlags ==
  ASSUME Flags, Ui \/ Images
  PROVE  Flags'
<1> USE DEF Flags, Bit, vinVars, workVars, lifeVars, mailVars
<1>1. CASE Prepare \/ Start \/ Destroy \/ BarcodePoll \/ Close \/ \E q \in BOOLEAN : Pause(q)
  BY <1>1 DEF Prepare, Start, Destroy, BarcodePoll, Close, Pause
<1>2. CASE SelectInput \/ \E e, o \in BOOLEAN : BarcodeConfigure(e, o)
  BY <1>2 DEF SelectInput, BarcodeConfigure, Invalidate
<1>3. CASE (\E i \in Index : PollClaim(i)) \/ (\E ok \in BOOLEAN : PollImage(ok)) \/ Images
  BY <1>3 DEF PollClaim, PollImage, Images, ReaderOpen, ReaderClose, ImageDestroy
<1> QED BY <1>1, <1>2, <1>3 DEF Ui

LEMMA WorkerFlags ==
  ASSUME Flags, Worker
  PROVE  Flags'
<1> USE DEF Flags, Bit, vinVars, lifeVars, mailVars, Goto, NextRound, NextSlot, FaultRound, Fault
<1>1. CASE \E ok \in BOOLEAN : WorkerOpen(ok) \/ Control(ok)
  BY <1>1 DEF WorkerOpen, VinOpen, Control
<1>2. CASE Top \/ SkipSlot \/ SlotsDone \/ GiveBack \/ GiveBackFails
  BY <1>2 DEF Top, SkipSlot, SlotsDone, GiveBack, GiveBackFails, VinRelease
<1>3. CASE Finish \/ CloseLater
  BY <1>3 DEF Finish, CloseLater, VinClose
<1>4. CASE TakeSelect \/ NoSelect \/ StayPrepared \/ Streaming
  BY <1>4 DEF TakeSelect, NoSelect, StayPrepared, Streaming
<1>5. CASE StartStream \/ SetPaused \/ StreamFails
  BY <1>5 DEF StartStream, SetPaused, StreamFails, VinStart, VinPause
<1>6. CASE DequeueNone \/ ViewFails \/ \E i \in Answers : Dequeue(i)
  BY <1>6 DEF DequeueNone, ViewFails, Dequeue, VinAcquire
<1>7. CASE Scan \/ Decoded \/ Publish
  BY <1>7 DEF Scan, Decoded, Publish
<1> QED BY <1>1, <1>2, <1>3, <1>4, <1>5, <1>6, <1>7 DEF Worker

LEMMA UiPlaces ==
  ASSUME Places, Ui \/ Images
  PROVE  Places'
<1> USE CountIsTwoOrMore, CameraBounds
    DEF Places, workVars, lifeVars, mailVars, CaptureStates, InputStates, Index
<1>1. CASE Prepare \/ Start \/ Destroy \/ BarcodePoll \/ Close \/ \E q \in BOOLEAN : Pause(q)
  BY <1>1 DEF Prepare, Start, Destroy, BarcodePoll, Close, Cancelled, Pause, pubVars
<1>2. CASE SelectInput \/ \E e, o \in BOOLEAN : BarcodeConfigure(e, o)
  <2>1. gen' \in 0..MaxGen
    <3>1. gen' = gen \/ (gen < MaxGen /\ gen' = gen + 1)
      BY <1>2 DEF SelectInput, BarcodeConfigure, Invalidate, NextGen
    <3> QED BY <3>1
  <2>2. CASE SelectInput
    BY <2>1, <2>2 DEF SelectInput, pubVars
  <2>3. CASE \E e, o \in BOOLEAN : BarcodeConfigure(e, o)
    BY <2>1, <2>3 DEF BarcodeConfigure, pubVars
  <2> QED BY <1>2, <2>2, <2>3
<1>3. CASE (\E i \in Index : PollClaim(i)) \/ (\E ok \in BOOLEAN : PollImage(ok)) \/ Images
  BY <1>3 DEF PollClaim, PollImage, Images, ReaderOpen, ReaderClose, ImageDestroy
<1> QED BY <1>1, <1>2, <1>3 DEF Ui

\* The driver may answer with any buffer or with none.
LEMMA WorkerPlaces ==
  ASSUME Places, Buffers, Worker
  PROVE  Places'
<1> USE CountIsTwoOrMore, CameraBounds
    DEF Places, Buffers, pubVars, lifeVars, mailVars, CaptureStates, InputStates, Index,
        Goto, NextRound, NextSlot, FaultRound, Fault, Cancelled
<1>1. CASE \E ok \in BOOLEAN : WorkerOpen(ok) \/ Control(ok)
  BY <1>1 DEF WorkerOpen, Control
<1>2. CASE Top \/ SkipSlot \/ SlotsDone \/ GiveBack \/ GiveBackFails
  <2>1. CASE Top \/ SkipSlot
    <3>1. CASE Top
      BY <3>1 DEF Top
    <3>2. CASE SkipSlot
      BY <3>2 DEF SkipSlot
    <3> QED BY <2>1, <3>1, <3>2
  <2>2. CASE SlotsDone
    BY <2>2 DEF SlotsDone
  <2>3. CASE GiveBack
    BY <2>3 DEF GiveBack
  <2>4. CASE GiveBackFails
    BY <2>4 DEF GiveBackFails
  <2> QED BY <1>2, <2>1, <2>2, <2>3, <2>4
<1>3. CASE Finish \/ CloseLater
  <2>1. CASE Finish
    BY <2>1 DEF Finish, FinalState
  <2>2. CASE CloseLater
    BY <2>2 DEF CloseLater
  <2> QED BY <1>3, <2>1, <2>2
<1>4. CASE TakeSelect \/ NoSelect \/ StayPrepared \/ Streaming
  <2>1. CASE TakeSelect
    BY <2>1 DEF TakeSelect
  <2>2. CASE NoSelect
    BY <2>2 DEF NoSelect
  <2>3. CASE StayPrepared
    BY <2>3 DEF StayPrepared
  <2>4. CASE Streaming
    BY <2>4 DEF Streaming
  <2> QED BY <1>4, <2>1, <2>2, <2>3, <2>4
<1>5. CASE StartStream \/ SetPaused \/ StreamFails
  <2>1. CASE StartStream
    BY <2>1 DEF StartStream
  <2>2. CASE SetPaused
    BY <2>2 DEF SetPaused
  <2>3. CASE StreamFails
    BY <2>3 DEF StreamFails
  <2> QED BY <1>5, <2>1, <2>2, <2>3
<1>6. CASE DequeueNone \/ ViewFails \/ \E i \in Answers : Dequeue(i)
  <2>1. CASE DequeueNone
    BY <2>1 DEF DequeueNone
  <2>2. CASE ViewFails
    BY <2>2 DEF ViewFails
  <2>3. ASSUME NEW i \in Answers, Dequeue(i) PROVE Places'
    <3>1. i \in 0..Count
      BY DEF Answers
    <3>2. CASE faulted'
      BY <2>3, <3>2 DEF Dequeue
    <3>3. CASE ~faulted'
      BY <2>3, <3>1, <3>3 DEF Dequeue
    <3> QED BY <3>2, <3>3
  <2> QED BY <1>6, <2>1, <2>2, <2>3
<1>7. CASE Scan \/ Decoded \/ Publish
  <2>1. CASE Scan
    BY <2>1 DEF Scan
  <2>2. CASE Decoded
    BY <2>2 DEF Decoded
  <2>3. CASE Publish
    BY <2>3 DEF Publish
  <2> QED BY <1>7, <2>1, <2>2, <2>3
<1> QED BY <1>1, <1>2, <1>3, <1>4, <1>5, <1>6, <1>7 DEF Worker

LEMMA UiBuffers ==
  ASSUME Buffers, Places, Ui \/ Images
  PROVE  Buffers'
<1> USE CameraBounds DEF Buffers, vinVars, SlotStates
<1>1. CASE Prepare \/ Start \/ Destroy \/ BarcodePoll \/ Close \/ \E q \in BOOLEAN : Pause(q)
  BY <1>1 DEF Prepare, Start, Destroy, BarcodePoll, Close, Pause, pubVars
<1>2. CASE SelectInput \/ \E e, o \in BOOLEAN : BarcodeConfigure(e, o)
  BY <1>2 DEF SelectInput, BarcodeConfigure, ReturnReady, pubVars
<1>3. CASE (\E i \in Index : PollClaim(i)) \/ (\E ok \in BOOLEAN : PollImage(ok))
  BY <1>3 DEF PollClaim, PollImage
<1>4. CASE Images
  BY <1>4 DEF Images, ReaderOpen, ReaderClose, ImageDestroy, FreeImage
<1> QED BY <1>1, <1>2, <1>3, <1>4 DEF Ui

LEMMA WorkerBuffers ==
  ASSUME Buffers, Places, Worker
  PROVE  Buffers'
<1> USE CountIsTwoOrMore DEF Buffers, vinVars, pubVars, SlotStates, Index
<1>1. CASE \E ok \in BOOLEAN : WorkerOpen(ok) \/ Control(ok)
  <2>1. CASE \E ok \in BOOLEAN : WorkerOpen(ok)
    BY <2>1 DEF WorkerOpen, VinOpen, FaultRound
  <2>2. CASE \E ok \in BOOLEAN : Control(ok)
    BY <2>2 DEF Control
  <2> QED BY <1>1, <2>1, <2>2
<1>2. CASE Top \/ SkipSlot \/ SlotsDone
  BY <1>2 DEF Top, SkipSlot, SlotsDone, ReturnReady
<1>3. CASE GiveBack \/ GiveBackFails
  BY <1>3 DEF GiveBack, GiveBackFails, VinRelease, HeldAfterRelease
<1>4. CASE Finish \/ CloseLater
  <2>1. CASE Finish
    BY <2>1 DEF Finish, VinClose
  <2>2. CASE CloseLater
    BY <2>2 DEF CloseLater, VinClose
  <2> QED BY <1>4, <2>1, <2>2
<1>5. CASE TakeSelect \/ NoSelect \/ StayPrepared \/ Streaming \/ DequeueNone \/ Scan \/ Decoded
  BY <1>5 DEF TakeSelect, NoSelect, StayPrepared, Streaming, DequeueNone, Scan, Decoded
<1>6. CASE StartStream \/ SetPaused \/ StreamFails
  <2>1. CASE StartStream
    BY <2>1 DEF StartStream, VinStart
  <2>2. CASE SetPaused
    BY <2>2 DEF SetPaused, VinPause
  <2>3. CASE StreamFails
    <3>1. UNCHANGED <<num, held, slot, image, readers>>
      BY <2>3 DEF StreamFails, VinStart, VinPause, FaultRound
    <3>2. CASE VinStart(FALSE)
      <4>1. queued' = 0..num-1 \/ \E n \in 0..num-1 : queued' = 0..n-1
        BY <3>2 DEF VinStart
      <4> QED BY <3>1, <4>1
    <3>3. CASE VinPause(wpaused, FALSE)
      BY <3>1, <3>3 DEF VinPause
    <3> QED BY <2>3, <3>2, <3>3 DEF StreamFails
  <2> QED BY <1>6, <2>1, <2>2, <2>3
<1>7. ASSUME NEW k \in Answers, Dequeue(k)
      PROVE  Buffers'
  <2>1. UNCHANGED <<num, slot, image, readers>>
    BY <1>7 DEF Dequeue, VinAcquire, FaultRound
  <2>2. UNCHANGED <<held, queued>>
        \/ (Named(k) /\ held' = held \cup {k} /\ queued' = queued \ {k})
    BY <1>7 DEF Dequeue, VinAcquire
  <2>3. Named(k) => k \in Index
    BY DEF Answers, Named
  <2> QED BY <2>1, <2>2, <2>3
<1>8. CASE ViewFails \/ Publish
  BY <1>8 DEF ViewFails, FaultRound, Publish, ReturnReady, NewSlot, Places
<1> QED BY <1>1, <1>2, <1>3, <1>4, <1>5, <1>6, <1>7, <1>8 DEF Worker

LEMMA TypesKept ==
  ASSUME TypeOK, Next
  PROVE  TypeOK'
<1>1. Flags /\ Places /\ Buffers
  BY TypesSplit
<1>2. CASE Ui \/ Images
  BY <1>1, <1>2, UiFlags, UiPlaces, UiBuffers, TypesSplit
<1>3. CASE Worker
  BY <1>1, <1>3, WorkerFlags, WorkerPlaces, WorkerBuffers, TypesSplit
<1> QED BY <1>2, <1>3 DEF Next

-----------------------------------------------------------------------------
(* The buffers *)

\* A step that touches no buffer and leaves the worker's as it is.
LEMMA HandsStay ==
  ASSUME Hands, UNCHANGED <<slot, held, queued, image, readers, upc, ui>>,
         Working' => Working /\ wi' = wi, Working => Working'
  PROVE  Hands'
BY DEF Hands, InWork

\* A READY buffer that is displaced is still its holder's.
LEMMA HandsDisplaced ==
  ASSUME TypeOK, Hands, UNCHANGED <<held, queued, image, readers, upc, ui>>,
         Working' => Working /\ wi' = wi, Working => Working',
         NEW q \in BOOLEAN, slot' = ReturnReady(q)
  PROVE  Hands'
<1>1. \A i \in Index : slot'[i] = IF q /\ slot[i] = "READY" THEN "RETURN" ELSE slot[i]
  BY DEF ReturnReady
<1>2. ASSUME NEW i \in Index
      PROVE  (slot'[i] \in {"READY", "PUBLISHING", "PUBLISHED"} => slot'[i] = slot[i])
             /\ (slot'[i] = "EMPTY" <=> slot[i] = "EMPTY")
             /\ (slot[i] \in {"PUBLISHING", "PUBLISHED"} => slot'[i] = slot[i])
             /\ slot'[i] \in SlotStates
  BY <1>1 DEF TypeOK, SlotStates
<1> QED BY <1>2 DEF Hands, InWork, SlotStates

LEMMA UiHands ==
  ASSUME TypeOK, Hands, Life, Ui \/ Images
  PROVE  Hands'
<1> USE DEF vinVars, pubVars, workVars, lifeVars
<1>1. CASE Prepare
  BY <1>1, HandsStay DEF Prepare, Working, Life
<1>2. CASE Start \/ Close \/ BarcodePoll \/ \E q \in BOOLEAN : Pause(q)
  BY <1>2, HandsStay DEF Start, Close, BarcodePoll, Pause, Working
<1>3. CASE SelectInput
  BY <1>3, HandsDisplaced DEF SelectInput, Working
<1>4. ASSUME NEW e \in BOOLEAN, NEW o \in BOOLEAN, BarcodeConfigure(e, o)
      PROVE  Hands'
  BY <1>4, HandsDisplaced DEF BarcodeConfigure, Working
<1>5. CASE Destroy
  <2>1. \A i \in Index : i \notin held /\ slot[i] = "EMPTY" /\ ~InWork(i)
    BY <1>5 DEF Destroy, Life, Hands, InWork, Working
  <2>2. slot' = [i \in Index |-> "EMPTY"] /\ wpc' = "none"
        /\ UNCHANGED <<held, queued, image, readers, upc, ui>>
    BY <1>5 DEF Destroy
  <2> QED BY <2>1, <2>2 DEF Hands, InWork, Working
<1>6. ASSUME NEW k \in Index, PollClaim(k)
      PROVE  Hands'
  <2>1. slot[k] = "READY" /\ slot' = [slot EXCEPT ![k] = "PUBLISHING"]
        /\ upc = "idle" /\ upc' = "publish" /\ ui' = k
        /\ UNCHANGED <<wpc, wi, held, queued, image, readers>>
    BY <1>6 DEF PollClaim, UiIdle
  <2> QED BY <2>1 DEF Hands, InWork, Working, TypeOK
<1>7. ASSUME NEW ok \in BOOLEAN, PollImage(ok)
      PROVE  Hands'
  <2>1. upc = "publish" /\ upc' = "idle" /\ ui \in Index /\ slot[ui] = "PUBLISHING"
        /\ slot' = [slot EXCEPT ![ui] = IF ok THEN "PUBLISHED" ELSE "RETURN"]
        /\ image' = [image EXCEPT ![ui] = IF ok THEN "live" ELSE "none"]
        /\ UNCHANGED <<wpc, wi, held, queued, readers>>
    BY <1>7 DEF PollImage, TypeOK, Hands
  <2>2. ~(readers[ui] > 0)
    BY <2>1 DEF Hands
  <2> QED BY <2>1, <2>2 DEF Hands, InWork, Working, TypeOK
<1>8. ASSUME NEW k \in Index, ReaderOpen(k)
      PROVE  Hands'
  BY <1>8 DEF ReaderOpen, Hands, InWork, Working, TypeOK
<1>9. ASSUME NEW k \in Index, ReaderClose(k)
      PROVE  Hands'
  <2>1. image[k] # "none" /\ slot[k] = "PUBLISHED" /\ readers[k] \in Nat
    BY <1>9, CameraBounds DEF ReaderClose, Hands, TypeOK
  <2>2. CASE image[k] = "retired" /\ readers[k] = 1
    BY <1>9, <2>1, <2>2 DEF ReaderClose, FreeImage, Hands, InWork, Working, TypeOK
  <2>3. CASE ~(image[k] = "retired" /\ readers[k] = 1)
    BY <1>9, <2>1, <2>3 DEF ReaderClose, Hands, InWork, Working, TypeOK
  <2> QED BY <2>2, <2>3
<1>10. ASSUME NEW k \in Index, ImageDestroy(k)
       PROVE  Hands'
  <2>1. slot[k] = "PUBLISHED" /\ image[k] = "live"
    BY <1>10 DEF ImageDestroy, Hands
  <2>2. CASE Unread(k)
    BY <1>10, <2>1, <2>2 DEF ImageDestroy, Unread, FreeImage, Hands, InWork, Working, TypeOK
  <2>3. CASE ~Unread(k)
    BY <1>10, <2>1, <2>3 DEF ImageDestroy, Hands, InWork, Working, TypeOK
  <2> QED BY <2>2, <2>3
<1> QED BY <1>1, <1>2, <1>3, <1>4, <1>5, <1>6, <1>7, <1>8, <1>9, <1>10 DEF Ui, Images

\* The worker's steps that take or give no buffer.
LEMMA WorkerKeeps ==
  ASSUME TypeOK, Hands,
         \/ \E ok \in BOOLEAN : WorkerOpen(ok) \/ Control(ok)
         \/ Top \/ SkipSlot \/ SlotsDone \/ CloseLater \/ TakeSelect \/ NoSelect
         \/ StayPrepared \/ SetPaused \/ Streaming \/ DequeueNone \/ Scan \/ Decoded
  PROVE  Hands'
<1> USE DEF Working, pubVars, vinVars, Goto, NextRound, NextSlot
<1>1. CASE \E ok \in BOOLEAN : WorkerOpen(ok)
  BY <1>1, HandsStay DEF WorkerOpen, VinOpen, FaultRound
<1>2. CASE \E ok \in BOOLEAN : Control(ok)
  BY <1>2, HandsStay DEF Control
<1>3. CASE Top
  <2>1. closing \in BOOLEAN /\ slot' = ReturnReady(closing)
    BY <1>3 DEF Top, TypeOK
  <2>2. UNCHANGED <<held, queued, image, readers, upc, ui>> /\ ~Working /\ ~Working'
    BY <1>3 DEF Top
  <2> QED BY <2>1, <2>2, HandsDisplaced
<1>4. CASE SkipSlot \/ SlotsDone
  BY <1>4, HandsStay DEF SkipSlot, SlotsDone
<1>5. CASE CloseLater
  BY <1>5, HandsStay DEF CloseLater, VinClose
<1>6. CASE TakeSelect \/ NoSelect \/ StayPrepared
  BY <1>6, HandsStay DEF TakeSelect, NoSelect, StayPrepared
<1>7. CASE SetPaused
  BY <1>7, HandsStay DEF SetPaused, VinPause
<1>8. CASE Streaming \/ DequeueNone
  BY <1>8, HandsStay DEF Streaming, DequeueNone
<1>9. CASE Scan \/ Decoded
  BY <1>9, HandsStay DEF Scan, Decoded
<1> QED BY <1>1, <1>2, <1>3, <1>4, <1>5, <1>6, <1>7, <1>8, <1>9

\* lv_aic_vin_start queues every buffer: nobody has one.
LEMMA StartHands ==
  ASSUME TypeOK, Hands, StartStream \/ StreamFails
  PROVE  Hands'
<1>1. ~Working /\ ~Working' /\ UNCHANGED <<slot, held, image, readers, upc, ui>>
  BY DEF StartStream, StreamFails, VinStart, VinPause, pubVars, Goto, FaultRound, NextRound, Working
<1>2. CASE held = {}
  BY <1>1, <1>2 DEF Hands, InWork
<1>3. CASE held # {}
  <2>1. queued' = queued
    BY <1>3 DEF StartStream, StreamFails, VinStart, VinPause
  <2> QED BY <1>1, <2>1, HandsStay
<1> QED BY <1>2, <1>3

\* A RETURN buffer goes to VIN, which may refuse it.
LEMMA GiveBackHands ==
  ASSUME TypeOK, Hands, GiveBack \/ GiveBackFails
  PROVE  Hands'
<1>1. wi \in Index /\ slot[wi] = "RETURN" /\ ~Working /\ ~Working'
      /\ UNCHANGED <<image, readers, upc, ui>>
  <2>1. wi < Count /\ slot[wi] = "RETURN" /\ wpc = "slots" /\ wpc' = "slots"
        /\ UNCHANGED <<image, readers, upc, ui>>
    BY DEF GiveBack, GiveBackFails, NextSlot, pubVars
  <2>2. wi \in 0..Count
    BY DEF TypeOK
  <2> QED BY <2>1, <2>2, CountIsTwoOrMore DEF Index, Working
<1>2. CASE GiveBack
  <2>1. slot' = [slot EXCEPT ![wi] = "EMPTY"] /\ held' = held \ {wi}
        /\ queued' = queued \cup {wi}
    BY <1>2 DEF GiveBack, VinRelease, HeldAfterRelease
  <2> QED BY <1>1, <2>1 DEF Hands, InWork, TypeOK
<1>3. CASE GiveBackFails
  <2>1. UNCHANGED <<slot, held>> /\ queued' \in {queued, queued \cup {wi}}
    BY <1>3 DEF GiveBackFails, VinRelease, HeldAfterRelease
  <2> QED BY <1>1, <2>1 DEF Hands, InWork
<1> QED BY <1>2, <1>3

\* The driver names a buffer: one that nobody has, or the session faults.
LEMMA DequeueHands ==
  ASSUME TypeOK, Hands, NEW k \in Answers, Dequeue(k)
  PROVE  Hands'
<1>1. ~Working /\ UNCHANGED <<slot, image, readers, upc, ui>>
  BY DEF Dequeue, Working, pubVars, FaultRound
<1>2. CASE faulted'
  <2>1. ~faulted
    BY DEF Dequeue, VinAcquire
  <2>2. UNCHANGED <<held, queued>>
    BY <1>2, <2>1 DEF Dequeue, VinAcquire
  <2>3. ~Working'
    BY <1>2 DEF Dequeue, FaultRound, NextRound, Working
  <2> QED BY <1>1, <2>2, <2>3, HandsStay
<1>3. CASE ~faulted'
  <2>1. Named(k) /\ held' = held \cup {k} /\ queued' = queued \ {k}
    BY <1>3 DEF Dequeue, VinAcquire
  <2>2. k \in Index
    BY <2>1, CountIsTwoOrMore DEF Named, Answers, TypeOK, VinTypeOK, Index
  <2>3. wpc' = "scan" /\ wi' = k
    BY <1>3 DEF Dequeue
  <2> QED BY <1>1, <2>1, <2>2, <2>3 DEF Named, Hands, InWork, Working
<1> QED BY <1>2, <1>3

\* The worker gives its buffer a slot state; an older preview is displaced.
LEMMA PublishHands ==
  ASSUME TypeOK, Hands, ViewFails \/ Publish
  PROVE  Hands'
<1>1. Working /\ ~Working' /\ wi \in Index /\ slot[wi] = "EMPTY"
      /\ UNCHANGED <<held, queued, image, readers, upc, ui>>
  BY DEF ViewFails, Publish, FaultRound, NextRound, Working, Hands, InWork, pubVars, vinVars
<1>2. image[wi] = "none"
  BY <1>1 DEF Hands
<1>3. CASE ViewFails
  <2>1. slot' = [slot EXCEPT ![wi] = "RETURN"]
    BY <1>3 DEF ViewFails
  <2> QED BY <1>1, <1>2, <2>1 DEF Hands, InWork, TypeOK
<1>4. CASE Publish
  <2>1. NewSlot \in {"RETURN", "READY"} /\ slot' = [ReturnReady(TRUE) EXCEPT ![wi] = NewSlot]
    BY <1>4 DEF Publish, NewSlot
  <2>2. \A i \in Index :
          slot'[i] = IF i = wi THEN NewSlot
                     ELSE IF slot[i] = "READY" THEN "RETURN" ELSE slot[i]
    BY <2>1 DEF ReturnReady
  <2>3. ASSUME NEW i \in Index, i # wi
        PROVE  /\ slot'[i] = "EMPTY" <=> slot[i] = "EMPTY"
               /\ slot'[i] = "PUBLISHED" <=> slot[i] = "PUBLISHED"
               /\ slot'[i] = "PUBLISHING" <=> slot[i] = "PUBLISHING"
               /\ slot'[i] = "RETURN" \/ slot'[i] = slot[i]
    BY <2>2, <2>3
  <2>4. slot'[wi] \in {"RETURN", "READY"}
    BY <1>1, <2>1, <2>2
  <2> QED BY <1>1, <1>2, <2>3, <2>4 DEF Hands, InWork
<1> QED BY <1>3, <1>4

LEMMA WorkerHands ==
  ASSUME TypeOK, Hands, Life, Worker
  PROVE  Hands'
<1>1. CASE Finish
  <2>1. held = {} /\ held' = {} /\ queued' = {} /\ ~Working /\ ~Working'
        /\ UNCHANGED <<slot, image, readers, upc, ui>>
    BY <1>1 DEF Finish, VinClose, MayStop, Working, pubVars
  <2> QED BY <2>1 DEF Hands, InWork
<1> QED BY <1>1, WorkerKeeps, StartHands, GiveBackHands, DequeueHands, PublishHands DEF Worker

-----------------------------------------------------------------------------
(* The worker's life *)

LEMMA LifeKept ==
  ASSUME TypeOK, Hands, Life, Next
  PROVE  Life'
<1> USE DEF Life, vinVars, lifeVars, workVars
<1>1. CASE Prepare \/ Destroy
  BY <1>1 DEF Prepare, Destroy
<1>2. CASE \/ Start \/ Close \/ SelectInput \/ BarcodePoll
           \/ \E e, o \in BOOLEAN : BarcodeConfigure(e, o)
           \/ \E q \in BOOLEAN : Pause(q)
  <2>1. UNCHANGED <<wpc, active, finished, held, pool, streaming>>
    BY <1>2 DEF Start, Close, SelectInput, BarcodePoll, BarcodeConfigure, Pause
  <2> QED BY <2>1
<1>3. CASE (\E i \in Index : PollClaim(i)) \/ (\E ok \in BOOLEAN : PollImage(ok)) \/ Images
  BY <1>3 DEF PollClaim, PollImage, Images, ReaderOpen, ReaderClose, ImageDestroy
<1>4. CASE Finish
  BY <1>4 DEF Finish, VinClose, MayStop
<1>5. CASE Worker /\ ~Finish
  <2>1. wpc \notin {"none", "gone"} /\ wpc' \notin {"none", "gone"}
        /\ UNCHANGED <<active, finished>>
    <3> USE DEF Goto, NextRound, NextSlot, FaultRound
    <3>1. CASE \E ok \in BOOLEAN : WorkerOpen(ok) \/ Control(ok)
      BY <3>1 DEF WorkerOpen, Control
    <3>2. CASE Top \/ SkipSlot \/ SlotsDone
      BY <3>2 DEF Top, SkipSlot, SlotsDone
    <3>3. CASE GiveBack \/ GiveBackFails \/ CloseLater
      BY <3>3 DEF GiveBack, GiveBackFails, CloseLater
    <3>4. CASE TakeSelect \/ NoSelect \/ StayPrepared \/ Streaming
      BY <3>4 DEF TakeSelect, NoSelect, StayPrepared, Streaming
    <3>5. CASE StartStream \/ SetPaused \/ StreamFails
      BY <3>5 DEF StartStream, SetPaused, StreamFails
    <3>6. CASE DequeueNone \/ ViewFails \/ \E i \in Answers : Dequeue(i)
      BY <3>6 DEF DequeueNone, ViewFails, Dequeue
    <3>7. CASE Scan \/ Decoded \/ Publish
      BY <3>7 DEF Scan, Decoded, Publish
    <3> QED BY <1>5, <3>1, <3>2, <3>3, <3>4, <3>5, <3>6, <3>7 DEF Worker
  <2> QED BY <2>1
<1> QED BY <1>1, <1>2, <1>3, <1>4, <1>5 DEF Next, Ui

-----------------------------------------------------------------------------
(* The theorems *)

LEMMA CameraInit == Init => CameraInv
<1> SUFFICES ASSUME Init PROVE CameraInv
  OBVIOUS
<1>1. Flags
  BY DEF Init, VinClosed, Flags, Bit
<1>2. Places /\ Buffers
  BY CountIsTwoOrMore, CameraBounds
     DEF Init, VinClosed, Places, Buffers, CaptureStates, InputStates, SlotStates, Index
<1>3. Hands /\ Life
  BY CameraBounds DEF Init, VinClosed, Hands, Life, InWork, Working
<1> QED BY <1>1, <1>2, <1>3, TypesSplit DEF CameraInv

LEMMA CameraStep == CameraInv /\ [Next]_vars => CameraInv'
<1> SUFFICES ASSUME CameraInv, [Next]_vars PROVE CameraInv'
  OBVIOUS
<1>1. CASE Next
  <2>1. TypeOK' /\ Life'
    BY <1>1, TypesKept, LifeKept DEF CameraInv
  <2>2. Hands'
    BY <1>1, UiHands, WorkerHands DEF CameraInv, Next
  <2> QED BY <2>1, <2>2 DEF CameraInv
<1>2. CASE UNCHANGED vars
  <2>1. Flags' /\ Places' /\ Buffers'
    BY <1>2, TypesSplit
       DEF CameraInv, vars, mailVars, lifeVars, workVars, pubVars, vinVars, Flags, Places, Buffers
  <2>2. Hands' /\ Life'
    BY <1>2 DEF CameraInv, vars, mailVars, lifeVars, workVars, pubVars, vinVars, Hands, Life,
                InWork, Working
  <2> QED BY <2>1, <2>2, TypesSplit DEF CameraInv
<1> QED BY <1>1, <1>2

LEMMA CameraInvariant == Spec => []CameraInv
BY CameraInit, CameraStep, PTL DEF Spec

\* What a finished worker leaves behind.
LEMMA EndsQuiet == CameraInv => FinishedIsQuiet
<1> SUFFICES ASSUME CameraInv, finished \/ ~active PROVE FinishedIsQuiet
  BY DEF FinishedIsQuiet
<1>1. held = {} /\ ~pool /\ ~streaming
  BY DEF CameraInv, Life
<1>2. \A i \in Index : slot[i] = "EMPTY"
  BY <1>1 DEF CameraInv, Hands
<1>3. \A i \in Index : image[i] = "none"
  BY <1>2 DEF CameraInv, Hands
<1>4. upc = "idle"
  BY <1>2 DEF CameraInv, Hands, TypeOK
<1> QED BY <1>1, <1>2, <1>3, <1>4 DEF FinishedIsQuiet

\* Whoever shows a frame, or is about to, has its buffer to itself; every
\* dequeued buffer is in a slot on its way or in the worker's hands; and once the
\* worker has finished nothing is used, so that the final destroy frees no buffer
\* under a reader: the hand-over of worker, poll and release_slot, for any number
\* of buffers.
THEOREM BuffersHaveOwners == Spec => []CaptureInv
<1>1. CameraInv => CaptureInv
  BY EndsQuiet
     DEF CameraInv, Hands, InWork, Working, CaptureInv, ImagesAreStable, BuffersAccounted
<1> QED BY <1>1, CameraInvariant, PTL

-----------------------------------------------------------------------------
(* The mailboxes *)

\* Without barcodes nobody enables them.
ResultsInv == ResultsAreCurrent /\ (enabled => UseBarcode)

NoPreview == \A i \in Index : slot[i] # "READY"

\* READY slots only become fewer, or the request they belong to still stands.
LEMMA PreviewKept ==
  ASSUME TypeOK, ResultsInv, Next
  PROVE  PreviewIsCurrent' /\ (enabled => UseBarcode)'
<1>1. CASE \/ SelectInput \/ \E e, o \in BOOLEAN : BarcodeConfigure(e, o)
  <2>1. CASE SelectInput
    <3>1. NoPreview' /\ enabled' = enabled
      BY <2>1 DEF SelectInput, ReturnReady, NoPreview
    <3> QED BY <3>1 DEF ResultsInv, PreviewIsCurrent, NoPreview
  <2>2. ASSUME NEW e \in BOOLEAN, NEW o \in BOOLEAN, BarcodeConfigure(e, o)
        PROVE  PreviewIsCurrent' /\ (enabled => UseBarcode)'
    <3>1. UseBarcode /\ enabled' = e /\ only' = o /\ input' = input /\ slot' = ReturnReady(e /\ o)
      BY <2>2 DEF BarcodeConfigure
    <3>2. NoPreview \/ (e /\ o) => NoPreview'
      BY <3>1 DEF ReturnReady, NoPreview
    <3> QED BY <3>1, <3>2 DEF ResultsInv, ResultsAreCurrent, PreviewIsCurrent, NoPreview
  <2> QED BY <1>1, <2>1, <2>2
<1>2. CASE Publish
  <2>1. slot' = [ReturnReady(TRUE) EXCEPT ![wi] = NewSlot] /\ UNCHANGED <<input, enabled, only>>
    BY <1>2 DEF Publish, mailVars
  <2>2. ASSUME NEW i \in Index, slot'[i] = "READY"
        PROVE  NewSlot = "READY"
    BY <2>1, <2>2 DEF ReturnReady
  <2>3. NewSlot = "READY" => input # "PENDING" /\ ~(UseBarcode /\ enabled /\ only)
    BY DEF NewSlot
  <2> QED BY <2>1, <2>2, <2>3 DEF ResultsInv, ResultsAreCurrent, PreviewIsCurrent
<1>3. CASE Destroy
  BY <1>3 DEF Destroy, PreviewIsCurrent
<1>4. CASE ~(\/ SelectInput \/ \E e, o \in BOOLEAN : BarcodeConfigure(e, o)) /\ ~Publish /\ ~Destroy
  <2>1. /\ input' = "PENDING" => input = "PENDING"
        /\ UNCHANGED <<enabled, only>>
        /\ NoPreview => NoPreview'
    <3> USE DEF mailVars, Goto, NextRound, NextSlot, FaultRound, Fault, Cancelled, NoPreview, TypeOK
    <3>1. CASE Prepare \/ Start \/ Close \/ BarcodePoll \/ \E q \in BOOLEAN : Pause(q)
      BY <3>1 DEF Prepare, Start, Close, BarcodePoll, Pause
    <3>2. CASE (\E i \in Index : PollClaim(i)) \/ (\E ok \in BOOLEAN : PollImage(ok))
      BY <3>2 DEF PollClaim, PollImage
    <3>3. CASE Images
      BY <3>3 DEF Images, ReaderOpen, ReaderClose, ImageDestroy, FreeImage
    <3>4. CASE \E ok \in BOOLEAN : WorkerOpen(ok) \/ Control(ok)
      BY <3>4 DEF WorkerOpen, Control
    <3>5. CASE Top \/ SkipSlot \/ SlotsDone
      BY <3>5 DEF Top, SkipSlot, SlotsDone, ReturnReady
    <3>6. CASE GiveBack \/ GiveBackFails
      BY <3>6 DEF GiveBack, GiveBackFails
    <3>7. CASE Finish \/ CloseLater
      BY <3>7 DEF Finish, CloseLater
    <3>8. CASE TakeSelect \/ NoSelect \/ StayPrepared \/ Streaming
      BY <3>8 DEF TakeSelect, NoSelect, StayPrepared, Streaming
    <3>9. CASE StartStream \/ SetPaused \/ StreamFails
      BY <3>9 DEF StartStream, SetPaused, StreamFails
    <3>10. CASE DequeueNone \/ ViewFails \/ \E i \in Answers : Dequeue(i)
      BY <3>10 DEF DequeueNone, ViewFails, Dequeue
    <3>11. CASE Scan \/ Decoded
      BY <3>11 DEF Scan, Decoded
    <3> QED BY <1>4, <3>1, <3>2, <3>3, <3>4, <3>5, <3>6, <3>7, <3>8, <3>9, <3>10, <3>11
            DEF Next, Ui, Worker
  <2> QED BY <2>1 DEF ResultsInv, ResultsAreCurrent, PreviewIsCurrent, NoPreview
<1> QED BY <1>1, <1>2, <1>3, <1>4

\* A result is written only while there is none, and only if its generation is
\* the present one; a new generation leaves none.
LEMMA BarcodeKept ==
  ASSUME TypeOK, ResultsInv, Next
  PROVE  BarcodeCurrent'
<1> USE DEF ResultsInv, ResultsAreCurrent, BarcodeCurrent
<1>1. CASE Decoded
  BY <1>1 DEF Decoded, MayReport
<1>2. CASE Scan
  BY <1>2 DEF Scan, MayScan, mailVars
<1>3. CASE SelectInput \/ BarcodePoll \/ Destroy \/ \E e, o \in BOOLEAN : BarcodeConfigure(e, o)
  BY <1>3 DEF SelectInput, BarcodePoll, Destroy, BarcodeConfigure, Invalidate, workVars
<1>4. CASE ~Decoded /\ ~Scan /\ ~(\/ SelectInput \/ BarcodePoll \/ Destroy
                                  \/ \E e, o \in BOOLEAN : BarcodeConfigure(e, o))
  <2>1. UNCHANGED <<gen, ready, readyGen>> /\ (wpc' = "decode" => wpc = "decode")
    <3> USE DEF mailVars, workVars, Goto, NextRound, NextSlot, FaultRound
    <3>1. CASE Prepare \/ Start \/ Close \/ \E q \in BOOLEAN : Pause(q)
      BY <3>1 DEF Prepare, Start, Close, Pause
    <3>2. CASE (\E i \in Index : PollClaim(i)) \/ (\E ok \in BOOLEAN : PollImage(ok)) \/ Images
      BY <3>2 DEF PollClaim, PollImage, Images, ReaderOpen, ReaderClose, ImageDestroy
    <3>3. CASE \E ok \in BOOLEAN : WorkerOpen(ok) \/ Control(ok)
      BY <3>3 DEF WorkerOpen, Control
    <3>4. CASE Top \/ SkipSlot \/ SlotsDone \/ GiveBack \/ GiveBackFails
      BY <3>4 DEF Top, SkipSlot, SlotsDone, GiveBack, GiveBackFails
    <3>5. CASE Finish \/ CloseLater \/ Publish
      BY <3>5 DEF Finish, CloseLater, Publish
    <3>6. CASE TakeSelect \/ NoSelect \/ StayPrepared \/ Streaming
      BY <3>6 DEF TakeSelect, NoSelect, StayPrepared, Streaming
    <3>7. CASE StartStream \/ SetPaused \/ StreamFails
      BY <3>7 DEF StartStream, SetPaused, StreamFails
    <3>8. CASE DequeueNone \/ ViewFails \/ \E i \in Answers : Dequeue(i)
      BY <3>8 DEF DequeueNone, ViewFails, Dequeue
    <3> QED BY <1>4, <3>1, <3>2, <3>3, <3>4, <3>5, <3>6, <3>7, <3>8 DEF Next, Ui, Worker
  <2> QED BY <2>1
<1> QED BY <1>1, <1>2, <1>3, <1>4

\* A barcode result and a preview belong to the request that stands: the
\* generation test in scan_frame and the displaced READY slots of configure and
\* select_input, for any number of reconfigurations.
THEOREM ResultsBelong == Spec => []ResultsAreCurrent
<1>1. Init => ResultsInv
  BY DEF Init, ResultsInv, ResultsAreCurrent, BarcodeCurrent, PreviewIsCurrent
<1>2. TypeOK /\ ResultsInv /\ [Next]_vars => ResultsInv'
  <2>1. CASE Next
    BY <2>1, PreviewKept, BarcodeKept DEF ResultsInv, ResultsAreCurrent
  <2>2. CASE UNCHANGED vars
    BY <2>2 DEF vars, mailVars, workVars, ResultsInv, ResultsAreCurrent, BarcodeCurrent,
                PreviewIsCurrent
  <2> QED BY <2>1, <2>2
<1>3. CameraInv => TypeOK
  BY DEF CameraInv
<1>4. ResultsInv => ResultsAreCurrent
  BY DEF ResultsInv
<1> QED BY <1>1, <1>2, <1>3, <1>4, CameraInvariant, PTL DEF Spec

=============================================================================
