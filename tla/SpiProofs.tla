------------------------------ MODULE SpiProofs ------------------------------
(***************************************************************************)
(* The SPI display path for any set of frames.  First one transfer:        *)
(* XferInv is inductive, and the properties the runs check follow from it. *)
(* The lemmas about single calls are stated without the frame-naming rule  *)
(* of XferNext, so that the pipeline can use them as well.                 *)
(* Then the two-slot pipeline, for any interleaving of the UI thread, the  *)
(* worker and the DMA: RingSafe is inductive together with XferInv,        *)
(* RingInv follows from them, the pipeline implements SpiEvents, and the   *)
(* transfer's action properties hold of the transfer the worker runs.      *)
(* Every action has one lemma, RingReasons' for its part of the invariant; *)
(* SlotTypes is what the provers need of TypeOK.                           *)
(***************************************************************************)
EXTENDS SpiPipeline, SequenceTheorems, TLAPS

-----------------------------------------------------------------------------
(* Single steps preserve the ownership of the buffers. *)

\* Entering submit (lv_aic_spi_transfer.c submit_ex) keeps the ownership rules.
LEMMA SubmitEnterSafe ==
  ASSUME NEW f \in Frames, XferSafe, SubmitEnter(f)
  PROVE  XferSafe'
BY TornIsNoFrame DEF XferSafe, XferTypeOK, Ownership, SubmitEnter, Return, FreesOn,
   Refused, FirstStep, OutputBuffer, Buffers, Results

\* Entering drain or close (lv_aic_spi_transfer.c drain, close) does too.
LEMMA DrainEnterSafe ==
  ASSUME NEW how \in {"drain", "close"}, XferSafe, DrainEnter(how)
  PROVE  XferSafe'
<1>1. XferTypeOK'
  BY DEF XferSafe, XferTypeOK, DrainEnter, Return, FreesOn, Refused, wireVars, Buffers, Results
<1>2. UNCHANGED <<pending, fault, active, dma>> /\ (dma # "none" => pending /\ dma = active)
  BY DEF XferSafe, Ownership, DrainEnter, wireVars
<1>3. CASE fault \/ ~pending
  <2>1. pc' = "idle" /\ busy' = FALSE
    BY <1>3 DEF DrainEnter, Return, Refused
  <2>2. freed' => ~pending
    BY <1>3 DEF XferSafe, Ownership, DrainEnter, Return, FreesOn, Refused
  <2> QED BY <1>1, <1>2, <2>1, <2>2 DEF XferSafe, Ownership
<1>4. CASE ~fault /\ pending
  <2>1. pc' = "wait" /\ busy' = TRUE /\ op' \in {"drain", "close"} /\ ~freed'
    BY <1>4 DEF DrainEnter, Refused
  <2> QED BY <1>1, <1>2, <1>4, <2>1 DEF XferSafe, Ownership
<1> QED BY <1>3, <1>4 DEF XferSafe, XferTypeOK

\* So does every step of a call between two callbacks.
LEMMA CallStepSafe ==
  ASSUME XferSafe, CallStep
  PROVE  XferSafe'
<1> USE DEF XferSafe, XferTypeOK, Ownership, Return, FreesOn, wireVars, Buffers, Results
<1>1. CASE WaitOk
  <2>1. CASE op = "submit"
    BY <1>1, <2>1 DEF WaitOk, WaitEndsWhen
  <2>2. CASE op # "submit"
    BY <1>1, <2>2 DEF WaitOk, WaitEndsWhen
  <2> QED BY <2>1, <2>2
<1>2. CASE WaitFail
  BY <1>2 DEF WaitFail
<1>3. CASE ConvertOk
  BY <1>3 DEF ConvertOk, AfterConvert, stateVars
<1>4. CASE StartOk
  BY <1>4 DEF StartOk
<1>5. CASE StartFail
  BY <1>5 DEF StartFail
<1>6. ASSUME NEW r \in Results, ConvertFail(r)
      PROVE  XferSafe'
  BY <1>6 DEF ConvertFail
<1> QED BY <1>1, <1>2, <1>3, <1>4, <1>5, <1>6 DEF CallStep

\* And the end of a DMA.
LEMMA DmaDoneSafe ==
  ASSUME XferSafe, DmaDone
  PROVE  XferSafe'
BY DEF XferSafe, XferTypeOK, Ownership, DmaDone, stateVars, callVars, Buffers

-----------------------------------------------------------------------------
(* Single steps preserve what is known of the pixels. *)

\* Submitting a frame that the active buffer does not hold (submit_ex).
LEMMA SubmitEnterPixels ==
  ASSUME NEW f \in Frames, XferInv, SubmitEnter(f), pending /\ ~fault => f # content[active]
  PROVE  Pixels'
<1>1. UNCHANGED <<pending, fault, active, dma, content, back>> /\ sent' = sent \ {f}
  BY DEF SubmitEnter
<1>2. CASE fault
  BY <1>1, <1>2 DEF SubmitEnter, Return, Refused, Pixels
<1>3. CASE ~fault
  <2>1. op' = "submit" /\ source' = f /\ pc' = IF ~back /\ pending THEN "wait" ELSE "convert"
    BY <1>3 DEF SubmitEnter, Refused, FirstStep
  <2> QED BY <1>1, <2>1 DEF XferInv, Pixels
<1> QED BY <1>2, <1>3

\* drain and close touch no pixels.
LEMMA DrainEnterPixels ==
  ASSUME NEW how \in {"drain", "close"}, XferInv, DrainEnter(how)
  PROVE  Pixels'
<1>1. UNCHANGED <<pending, fault, active, wireVars, back>>
  BY DEF DrainEnter
<1>2. pc' = "idle" \/ (pc' = "wait" /\ op' = how)
  BY DEF DrainEnter, Return
<1> QED BY <1>1, <1>2 DEF XferInv, Pixels, wireVars

\* A call's steps: a conversion fills output with its source, a start makes
\* it the active buffer (finish, submit_ex).
LEMMA CallStepPixels ==
  ASSUME XferInv, CallStep
  PROVE  Pixels'
<1> USE DEF XferInv, XferSafe, XferTypeOK, Ownership, Pixels, Return, wireVars, Buffers
<1>1. CASE WaitOk
  BY <1>1 DEF WaitOk, WaitEndsWhen
<1>2. CASE WaitFail
  BY <1>2 DEF WaitFail
<1>3. CASE ConvertOk
  BY <1>3 DEF ConvertOk, AfterConvert, stateVars
<1>4. CASE StartOk
  BY <1>4 DEF StartOk
<1>5. CASE StartFail
  BY <1>5 DEF StartFail
<1>6. ASSUME NEW r \in Results, ConvertFail(r)
      PROVE  Pixels'
  BY <1>6 DEF ConvertFail
<1> QED BY <1>1, <1>2, <1>3, <1>4, <1>5, <1>6 DEF CallStep

\* The end of a DMA puts the active frame on the bus.
LEMMA DmaDonePixels ==
  ASSUME XferInv, DmaDone
  PROVE  Pixels'
BY DEF XferInv, XferSafe, XferTypeOK, Ownership, Pixels, DmaDone, stateVars, callVars, Buffers

-----------------------------------------------------------------------------
(* The transfer on its own. *)

\* The set-up calls (set_transform, set_back_buffer) happen outside of calls.
LEMMA SetUpInv ==
  ASSUME XferInv, SetTransform \/ SetBackBuffer
  PROVE  XferInv'
<1>1. pc = "idle" /\ UNCHANGED <<pending, busy, fault, started, active, freed>>
  BY DEF SetTransform, SetBackBuffer, XferInv, XferSafe, Ownership
<1>2. UNCHANGED <<pc, op, output, source, receipt, result, dma, content, sent>>
  BY DEF SetTransform, SetBackBuffer, callVars, wireVars
<1>3. back' \in BOOLEAN /\ transform' \in BOOLEAN
  BY DEF SetTransform, SetBackBuffer, XferInv, XferSafe, XferTypeOK
<1>4. XferTypeOK'
  BY <1>1, <1>2, <1>3 DEF XferInv, XferSafe, XferTypeOK
<1>5. Ownership' /\ Pixels'
  BY <1>1, <1>2 DEF XferInv, XferSafe, Ownership, Pixels
<1> QED BY <1>4, <1>5 DEF XferInv, XferSafe

\* Stuttering changes nothing.
LEMMA XferStutter ==
  ASSUME XferInv, UNCHANGED xferVars
  PROVE  XferInv'
BY DEF XferInv, XferSafe, XferTypeOK, Ownership, Pixels, xferVars, stateVars, callVars, wireVars

\* A transfer just created (lv_aic_spi_transfer_create) satisfies the invariant.
LEMMA XferStartInv ==
  ASSUME NEW b \in BOOLEAN, NEW t \in BOOLEAN, XferStart(b, t)
  PROVE  XferInv
<1>1. XferTypeOK
  BY DEF XferStart, XferTypeOK, Buffers, Results
<1>2. Ownership /\ Pixels
  BY DEF XferStart, Ownership, Pixels
<1> QED BY <1>1, <1>2 DEF XferInv, XferSafe

\* XferInv is inductive: in every state of a transfer the DMA's buffer, the
\* call under way and the pixels are related as lv_aic_spi_transfer.c intends.
THEOREM XferInvariance == XferSpec => []XferInv
<1>1. XferInit => XferInv
  BY XferStartInv DEF XferInit
<1>2. XferInv /\ [XferNext]_xferVars => XferInv'
  <2> SUFFICES ASSUME XferInv, [XferNext]_xferVars PROVE XferInv'
    OBVIOUS
  <2>1. CASE SetTransform \/ SetBackBuffer
    BY <2>1, SetUpInv
  <2>2. ASSUME NEW f \in FreshFrames, SubmitEnter(f)
        PROVE  XferInv'
    <3>1. f \in Frames /\ f # content[active]
      BY DEF FreshFrames, XferInv, XferSafe, XferTypeOK
    <3> QED BY <2>2, <3>1, SubmitEnterSafe, SubmitEnterPixels DEF XferInv
  <2>3. ASSUME NEW how \in {"drain", "close"}, DrainEnter(how)
        PROVE  XferInv'
    BY <2>3, DrainEnterSafe, DrainEnterPixels DEF XferInv
  <2>4. CASE CallStep
    BY <2>4, CallStepSafe, CallStepPixels DEF XferInv
  <2>5. CASE DmaDone
    BY <2>5, DmaDoneSafe, DmaDonePixels DEF XferInv
  <2>6. CASE UNCHANGED xferVars
    BY <2>6, XferStutter
  <2> QED BY <2>1, <2>2, <2>3, <2>4, <2>5, <2>6 DEF XferNext
<1> QED BY <1>1, <1>2, PTL DEF XferSpec

-----------------------------------------------------------------------------
(* What follows from it. *)

\* The variables of a transfer are of their types (struct lv_aic_spi_transfer).
THEOREM XferTypeCorrect == XferSpec => []XferTypeOK
BY XferInvariance, PTL DEF XferInv, XferSafe

\* No conversion writes the buffer the DMA reads, and no start (panel commands
\* included) runs beside a DMA: submit_ex picks the idle buffer and waits.
THEOREM BuffersHandedOver == XferSpec => []BufferHandover
<1>1. XferInv => BufferHandover
  BY DEF XferInv, XferSafe, XferTypeOK, Ownership, BufferHandover, Buffers
<1> QED BY <1>1, XferInvariance, PTL

\* lv_aic_spi_transfer_close frees only what no DMA can still read.
THEOREM FreedQuiet == XferSpec => []FreedIsQuiet
<1>1. XferInv => FreedIsQuiet
  BY DEF XferInv, XferSafe, Ownership, FreedIsQuiet
<1> QED BY <1>1, XferInvariance, PTL

\* What a transfer may do under any caller: XferNext without its naming rule, and
\* the caller forgetting a receipt it has read (run_next of the pipeline).
AnyStep ==
  \/ SetTransform \/ SetBackBuffer
  \/ \E f \in Frames : SubmitEnter(f)
  \/ \E how \in {"drain", "close"} : DrainEnter(how)
  \/ CallStep \/ DmaDone
  \/ receipt' = FALSE /\ UNCHANGED <<stateVars, pc, op, output, source, result, wireVars>>

\* XferNext's steps are such steps.
LEMMA NextIsAnyStep ==
  ASSUME [XferNext]_xferVars
  PROVE  [AnyStep]_xferVars
BY DEF XferNext, AnyStep, FreshFrames

\* Steps outside of a conversion write no buffer (submit_ex, drain).
LEMMA OnlyConversionsWrite ==
  ASSUME [AnyStep]_xferVars, pc # "convert"
  PROVE  UNCHANGED content
<1>1. ASSUME NEW f, SubmitEnter(f) PROVE UNCHANGED content
  BY <1>1 DEF SubmitEnter
<1>2. ASSUME NEW how, DrainEnter(how) PROVE UNCHANGED content
  BY <1>2 DEF DrainEnter, wireVars
<1>3. CASE CallStep
  BY <1>3 DEF CallStep, WaitOk, WaitFail, ConvertOk, ConvertFail, StartOk, StartFail, wireVars
<1> QED BY <1>1, <1>2, <1>3
        DEF AnyStep, SetTransform, SetBackBuffer, DmaDone, wireVars, xferVars

\* The buffer a DMA reads is not written until it has read it (submit_ex).
LEMMA PixelsStep ==
  ASSUME XferInv, [AnyStep]_xferVars
  PROVE  [dma # "none" => content'[dma] = content[dma]]_xferVars
<1> SUFFICES ASSUME dma # "none" PROVE content'[dma] = content[dma]
  OBVIOUS
<1>1. CASE pc # "convert"
  BY <1>1, OnlyConversionsWrite
<1>2. CASE pc = "convert"
  <2>1. output # dma /\ content \in [Buffers -> Frames \cup {Torn}] /\ dma \in Buffers
    BY <1>2 DEF XferInv, XferSafe, XferTypeOK, Ownership
  <2>2. content' = content \/ \E v : content' = [content EXCEPT ![output] = v]
    <3>1. CASE CallStep
      BY <1>2, <3>1 DEF CallStep, WaitOk, WaitFail, ConvertOk, ConvertFail, StartOk, StartFail
    <3> QED BY <1>2, <3>1 DEF AnyStep, SubmitEnter, DrainEnter, SetTransform, SetBackBuffer,
                DmaDone, wireVars, xferVars
  <2> QED BY <2>1, <2>2
<1> QED BY <1>1, <1>2

\* previous_completed is set only by finish(), after the DMA's end (submit_ex).
LEMMA ReceiptStep ==
  ASSUME XferInv, [AnyStep]_xferVars
  PROVE  [receipt' /\ ~receipt => content[active] \in sent]_xferVars
<1> SUFFICES ASSUME receipt', ~receipt PROVE content[active] \in sent
  OBVIOUS
<1>1. WaitOk
  <2>1. ASSUME NEW f, SubmitEnter(f) PROVE FALSE
    BY <2>1 DEF SubmitEnter
  <2>2. ASSUME NEW how, DrainEnter(how) PROVE FALSE
    BY <2>2 DEF DrainEnter
  <2>3. CASE CallStep
    BY <2>3 DEF CallStep, WaitFail, ConvertOk, ConvertFail, StartOk, StartFail
  <2> QED BY <2>1, <2>2, <2>3
          DEF AnyStep, SetTransform, SetBackBuffer, DmaDone, callVars, xferVars
<1> QED BY <1>1 DEF XferInv, XferSafe, Ownership, Pixels, WaitOk, WaitEndsWhen

\* s->fault is never reset, and keeps every later call from the buffers, the
\* bus and lv_free.
LEMMA QuarantineStep ==
  ASSUME XferInv, [AnyStep]_xferVars
  PROVE  [fault => fault' /\ content' = content /\ dma' \in {dma, "none"} /\ freed' = freed]_xferVars
<1> DEFINE Kept == fault' /\ content' = content /\ dma' \in {dma, "none"} /\ freed' = freed
<1> SUFFICES ASSUME fault PROVE Kept
  OBVIOUS
<1> USE DEF XferInv, XferSafe, XferTypeOK, Ownership
<1>1. CASE SetTransform \/ SetBackBuffer
  BY <1>1 DEF SetTransform, SetBackBuffer
<1>2. ASSUME NEW f, SubmitEnter(f) PROVE Kept
  BY <1>2 DEF SubmitEnter, Refused, Return, FreesOn
<1>3. ASSUME NEW how, DrainEnter(how) PROVE Kept
  BY <1>3 DEF DrainEnter, Refused, Return, FreesOn, wireVars
<1>4. CASE CallStep
  BY <1>4 DEF CallStep, WaitOk, WaitFail, ConvertOk, ConvertFail, StartOk, StartFail
<1>5. CASE DmaDone
  BY <1>5 DEF DmaDone, stateVars
<1>6. CASE UNCHANGED <<stateVars, wireVars>>
  BY <1>6 DEF stateVars, wireVars
<1> QED BY <1>1, <1>2, <1>3, <1>4, <1>5, <1>6 DEF AnyStep, xferVars

\* The buffer a DMA reads stays that of one frame (submit_ex).
THEOREM PixelsStable == XferSpec => DmaPixelsStable
BY NextIsAnyStep, PixelsStep, XferInvariance, PTL DEF XferSpec, DmaPixelsStable

\* A receipt is given only for a frame that went over the bus (finish).
THEOREM ReceiptsTrue == XferSpec => ReceiptIsTrue
BY NextIsAnyStep, ReceiptStep, XferInvariance, PTL DEF XferSpec, ReceiptIsTrue

\* The quarantine is never left and freezes what the DMA may touch (s->fault).
THEOREM QuarantineIsFinal == XferSpec => QuarantineHolds
BY NextIsAnyStep, QuarantineStep, XferInvariance, PTL DEF XferSpec, QuarantineHolds

-----------------------------------------------------------------------------
(* The pipeline *)

\* The types of the slots and of what indexes them.
SlotTypes ==
  /\ put \in Slots /\ release \in Slots /\ take \in Slots /\ run \in Slots /\ cur \in Slots
  /\ flying \in Slots \cup {NoSlot} /\ tries \in 0..2
  /\ state \in [Slots -> SlotStates] /\ released \in [Slots -> BOOLEAN]
  /\ cookie \in [Slots -> Frames \cup {Torn}]
  /\ submitted \in [Slots -> Results] /\ completed \in [Slots -> Results]

-----------------------------------------------------------------------------
(* The UI thread: submit, take, stop and close. *)

\* What submit, take, stop and close do outside of a slot.
LEMMA UserQuietSafe ==
  ASSUME RingSafe,
         \/ \E f \in Frames : Submit(f)
         \/ SubmitBusy \/ Give \/ TakeLook \/ TakeNothing \/ Stop \/ Close
  PROVE  RingReasons'
<1>1. RingReasons
  BY DEF RingSafe
<1>2. UNCHANGED <<slotVars, put, release, take, flagVars, workVars, alarm, xferVars>>
  BY DEF Submit, SubmitBusy, Give, TakeLook, TakeNothing, Stop, Close, ringVars, userVars
<1>3. /\ upc' = "enqueue" => arg' \in Frames \ Outstanding /\ ~stopping' /\ ~closed'
      /\ closed' => exited /\ upc' = "idle"
      /\ stopping => stopping'
  BY <1>1 DEF RingReasons, CallsApart, Submit, SubmitBusy, Give, TakeLook, TakeNothing, Stop,
      Close,
      MayClose, ringVars, userVars
<1>4. closed => closed'
  BY DEF Submit, SubmitBusy, Give, TakeLook, TakeNothing, Stop, Close, ringVars
<1>5. RingOrder' /\ WorkerHolds'
  BY <1>1, <1>2 DEF RingReasons, RingOrder, WorkerHolds, slotVars, workVars, flagVars
<1>6. NamesApart' /\ LastRound'
  BY <1>1, <1>2, <1>3 DEF RingReasons, NamesApart, LastRound, Outstanding, slotVars, workVars
<1>7. CallsApart' /\ FlightHolds' /\ StartHolds' /\ PendingIsKnown'
  BY <1>1, <1>2, <1>3, <1>4 DEF RingReasons, CallsApart, FlightHolds, StartHolds,
      PendingIsKnown,
      slotVars, workVars, flagVars, xferVars, stateVars, callVars, wireVars
<1>8. VerdictsInOrder' /\ CompletedMeansSent'
  BY <1>1, <1>2 DEF RingReasons, VerdictsInOrder, CompletedMeansSent, slotVars, workVars,
      flagVars,
      xferVars, wireVars
<1> QED BY <1>5, <1>6, <1>7, <1>8 DEF RingReasons

\* The rest of submit: the frame takes the producer's next slot.
LEMMA EnqueueSafe ==
  ASSUME RingSafe, Enqueue
  PROVE  RingReasons'
<1> USE DEF Slots, NoSlot, Other
<1>1. SlotTypes /\ RingReasons
  BY DEF RingSafe, TypeOK, SlotTypes
<1>2. RingOrder'
  BY <1>1 DEF SlotTypes, RingReasons, Enqueue, SlotFree, flagVars, workVars, xferVars,
      stateVars, callVars, wireVars, RingOrder, WorkerHolds, Running, Draining, Converted
<1>3. WorkerHolds'
  BY <1>1 DEF SlotTypes, RingReasons, Enqueue, SlotFree, flagVars, workVars, xferVars,
      stateVars, callVars, wireVars, WorkerHolds, Running, Draining
<1>4. NamesApart'
  BY <1>1 DEF SlotTypes, RingReasons, Enqueue, SlotFree, flagVars, workVars, xferVars,
      stateVars, callVars, wireVars, NamesApart, Outstanding, WorkerHolds, Running, Draining
<1>5. LastRound'
  BY <1>1 DEF SlotTypes, RingReasons, Enqueue, SlotFree, flagVars, workVars, xferVars,
      stateVars, callVars, wireVars, LastRound, RingOrder, WorkerHolds, Running, Draining
<1>6. CallsApart' /\ FlightHolds' /\ StartHolds' /\ PendingIsKnown'
  BY <1>1 DEF SlotTypes, RingReasons, Enqueue, SlotFree, flagVars, workVars, xferVars,
      stateVars, callVars, wireVars, CallsApart, FlightHolds, StartHolds, PendingIsKnown,
      VerdictsInOrder, WorkerHolds, RingOrder, Running, Draining
<1>7. VerdictsInOrder'
  BY <1>1 DEF SlotTypes, RingReasons, Enqueue, SlotFree, flagVars, workVars, xferVars,
      stateVars, callVars, wireVars, VerdictsInOrder, WorkerHolds, RingOrder, SlotStates,
      Running, Draining
<1>8. CompletedMeansSent'
  BY <1>1 DEF SlotTypes, RingReasons, Enqueue, SlotFree, flagVars, workVars, xferVars,
      stateVars, callVars, wireVars, CompletedMeansSent, FlightHolds, WorkerHolds, Running,
      Draining
<1> QED BY <1>2, <1>3, <1>4, <1>5, <1>6, <1>7, <1>8 DEF RingReasons

\* take() reports the release of the oldest unreleased frame.
LEMMA TakeReleaseSafe ==
  ASSUME RingSafe, TakeRelease
  PROVE  RingReasons'
<1> USE DEF Slots, NoSlot, Other
<1>1. SlotTypes /\ RingReasons
  BY DEF RingSafe, TypeOK, SlotTypes
<1>2. RingOrder'
  BY <1>1 DEF SlotTypes, RingReasons, TakeRelease, MayRelease, flagVars, workVars, userVars,
      xferVars, stateVars, callVars, wireVars, RingOrder, WorkerHolds, Running, Draining,
      Converted
<1>3. WorkerHolds'
  BY <1>1 DEF SlotTypes, RingReasons, TakeRelease, MayRelease, flagVars, workVars, userVars,
      xferVars, stateVars, callVars, wireVars, WorkerHolds, Running, Draining
<1>4. NamesApart'
  BY <1>1 DEF SlotTypes, RingReasons, TakeRelease, MayRelease, flagVars, workVars, userVars,
      xferVars, stateVars, callVars, wireVars, NamesApart, Outstanding, WorkerHolds, Running,
      Draining
<1>5. LastRound'
  BY <1>1 DEF SlotTypes, RingReasons, TakeRelease, MayRelease, flagVars, workVars, userVars,
      xferVars, stateVars, callVars, wireVars, LastRound, RingOrder, WorkerHolds, Running,
      Draining
<1>6. CallsApart' /\ FlightHolds' /\ StartHolds' /\ PendingIsKnown'
  BY <1>1 DEF SlotTypes, RingReasons, TakeRelease, MayRelease, flagVars, workVars, userVars,
      xferVars, stateVars, callVars, wireVars, CallsApart, FlightHolds, StartHolds,
      PendingIsKnown, VerdictsInOrder, WorkerHolds, RingOrder, Running, Draining
<1>7. VerdictsInOrder'
  BY <1>1 DEF SlotTypes, RingReasons, TakeRelease, MayRelease, flagVars, workVars, userVars,
      xferVars, stateVars, callVars, wireVars, VerdictsInOrder, WorkerHolds, RingOrder,
      SlotStates, Running, Draining
<1>8. CompletedMeansSent'
  BY <1>1 DEF SlotTypes, RingReasons, TakeRelease, MayRelease, flagVars, workVars, userVars,
      xferVars, stateVars, callVars, wireVars, CompletedMeansSent, FlightHolds, WorkerHolds,
      Running, Draining
<1> QED BY <1>2, <1>3, <1>4, <1>5, <1>6, <1>7, <1>8 DEF RingReasons

\* take() reports the oldest verdict and empties its slot.
LEMMA TakeCompleteSafe ==
  ASSUME RingSafe, TakeComplete
  PROVE  RingReasons'
<1> USE DEF Slots, NoSlot, Other
<1>1. SlotTypes /\ RingReasons
  BY DEF RingSafe, TypeOK, SlotTypes
<1>2. RingOrder'
  BY <1>1 DEF SlotTypes, RingReasons, TakeComplete, MayComplete, flagVars, workVars, xferVars,
      stateVars, callVars, wireVars, RingOrder, WorkerHolds, Running, Draining, Converted
<1>3. WorkerHolds'
  BY <1>1 DEF SlotTypes, RingReasons, TakeComplete, MayComplete, flagVars, workVars, xferVars,
      stateVars, callVars, wireVars, WorkerHolds, Running, Draining
<1>4. NamesApart'
  BY <1>1 DEF SlotTypes, RingReasons, TakeComplete, MayComplete, flagVars, workVars, xferVars,
      stateVars, callVars, wireVars, NamesApart, Outstanding, WorkerHolds, Running, Draining
<1>5. LastRound'
  BY <1>1 DEF SlotTypes, RingReasons, TakeComplete, MayComplete, flagVars, workVars, xferVars,
      stateVars, callVars, wireVars, LastRound, RingOrder, WorkerHolds, Running, Draining
<1>6. CallsApart' /\ FlightHolds' /\ StartHolds' /\ PendingIsKnown'
  BY <1>1 DEF SlotTypes, RingReasons, TakeComplete, MayComplete, flagVars, workVars, xferVars,
      stateVars, callVars, wireVars, CallsApart, FlightHolds, StartHolds, PendingIsKnown,
      VerdictsInOrder, WorkerHolds, RingOrder, Running, Draining
<1>7. VerdictsInOrder'
  <2>1. /\ UNCHANGED <<flying, halted, wpc, cur>>
        /\ wpc \in Running => submitted'[cur] = submitted[cur]
    BY <1>1 DEF SlotTypes, RingReasons, TakeComplete, MayComplete, flagVars, workVars,
        WorkerHolds,
        Running
  <2>2. state[take] = "DONE" /\ VerdictsInOrder
    BY <1>1 DEF RingReasons, TakeComplete, MayComplete
  <2>3. /\ state' = [state EXCEPT ![take] = "EMPTY"]
        /\ completed' = [completed EXCEPT ![take] = "OK"]
        /\ take' = Other(take) /\ (alarm' <=> alarm \/ completed[take] = "FAULT")
    BY DEF TakeComplete
  <2> QED BY <1>1, <2>1, <2>2, <2>3 DEF SlotTypes, VerdictsInOrder, Running
<1>8. CompletedMeansSent'
  BY <1>1 DEF SlotTypes, RingReasons, TakeComplete, MayComplete, flagVars, workVars, xferVars,
      stateVars, callVars, wireVars, CompletedMeansSent, FlightHolds, WorkerHolds, Running,
      Draining
<1> QED BY <1>2, <1>3, <1>4, <1>5, <1>6, <1>7, <1>8 DEF RingReasons

-----------------------------------------------------------------------------
(* The worker: worker_entry, run_next and drain. *)

\* What the worker does between its jobs (worker_entry).
LEMMA WorkerQuietSafe ==
  ASSUME RingSafe, SemTake \/ ScanEnds \/ CheckStop \/ DrainNothing \/ Exit
  PROVE  RingReasons'
<1> USE DEF Slots, NoSlot, Other
<1>1. SlotTypes /\ RingReasons
  BY DEF RingSafe, TypeOK, SlotTypes
<1>2. UNCHANGED <<slotVars, ringVars, halted, run, flying, cur, userVars, xferVars>>
  BY DEF SemTake, ScanEnds, CheckStop, DrainNothing, Exit, flagVars
<1>3. /\ wpc \in {"wait", "scan", "check", "drain", "exit"}
      /\ wpc' \in {"wait", "scan", "check", "drain", "exit", "gone"}
  BY DEF SemTake, ScanEnds, CheckStop, DrainNothing, Exit, AfterIdle, LastPhase, AfterDrain
<1>4. RingOrder'
  BY <1>1, <1>2 DEF RingReasons, RingOrder, slotVars, ringVars
<1>5. WorkerHolds'
  <2>1. wpc' \in {"exit", "gone"} => flying = NoSlot /\ last'
    BY <1>1 DEF RingReasons, WorkerHolds, SemTake, ScanEnds, CheckStop, DrainNothing, Exit,
        AfterIdle, LastPhase, AfterDrain
  <2>2. exited' <=> wpc' = "gone"
    BY <1>1 DEF RingReasons, WorkerHolds, SemTake, ScanEnds, CheckStop, DrainNothing, Exit,
        AfterIdle, LastPhase, AfterDrain, flagVars
  <2> QED BY <1>1, <1>2, <1>3, <2>1, <2>2
          DEF RingReasons, WorkerHolds, Running, Draining, slotVars
<1>6. LastRound'
  <2>1. CASE ScanEnds
    BY <1>1, <2>1 DEF SlotTypes, RingReasons, RingOrder, WorkerHolds, LastRound, ScanEnds,
        Running, Draining,
        slotVars, ringVars, userVars
  <2>2. CASE SemTake \/ CheckStop \/ DrainNothing \/ Exit
    BY <1>1, <1>2, <2>2 DEF SlotTypes, RingReasons, LastRound, SemTake, CheckStop,
        DrainNothing, Exit,
        AfterIdle, LastPhase, AfterDrain, Running, slotVars, ringVars, userVars
  <2> QED BY <2>1, <2>2
<1>7. NamesApart'
  BY <1>1, <1>2 DEF RingReasons, NamesApart, Outstanding, slotVars, userVars
<1>8. CallsApart'
  <2>1. exited => exited'
    BY DEF SemTake, ScanEnds, CheckStop, DrainNothing, Exit, flagVars
  <2> QED BY <1>1, <1>2, <1>3, <2>1 DEF RingReasons, CallsApart, slotVars, ringVars,
      userVars, xferVars, stateVars, callVars, wireVars
<1>9. FlightHolds' /\ StartHolds' /\ PendingIsKnown'
  BY <1>1, <1>2, <1>3 DEF RingReasons, FlightHolds, StartHolds, PendingIsKnown, slotVars,
      xferVars, stateVars, callVars, wireVars
<1>10. VerdictsInOrder' /\ CompletedMeansSent'
  BY <1>1, <1>2, <1>3 DEF RingReasons, VerdictsInOrder, CompletedMeansSent, slotVars, ringVars,
      userVars,
      xferVars, wireVars
<1> QED BY <1>4, <1>5, <1>6, <1>7, <1>8, <1>9, <1>10 DEF RingReasons

\* run_next takes up the oldest queued frame.
LEMMA RunNextSafe ==
  ASSUME RingSafe, RunNext
  PROVE  RingReasons'
<1> USE DEF Slots, NoSlot, Other
<1>1. SlotTypes /\ RingReasons
  BY DEF RingSafe, TypeOK, SlotTypes
<1>2. RingOrder'
  BY <1>1 DEF SlotTypes, RingReasons, RunNext, ringVars, flagVars, userVars, xferVars,
      stateVars, callVars, wireVars, RingOrder, WorkerHolds, Running, Draining, Converted
<1>3. WorkerHolds'
  BY <1>1 DEF SlotTypes, RingReasons, RunNext, ringVars, flagVars, userVars, xferVars,
      stateVars, callVars, wireVars, WorkerHolds, Running, Draining
<1>4. NamesApart'
  BY <1>1 DEF SlotTypes, RingReasons, RunNext, ringVars, flagVars, userVars, xferVars,
      stateVars, callVars, wireVars, NamesApart, Outstanding, WorkerHolds, Running, Draining
<1>5. LastRound'
  BY <1>1 DEF SlotTypes, RingReasons, RunNext, ringVars, flagVars, userVars, xferVars,
      stateVars, callVars, wireVars, LastRound, RingOrder, WorkerHolds, Running, Draining
<1>6. CallsApart' /\ FlightHolds' /\ StartHolds' /\ PendingIsKnown'
  BY <1>1 DEF SlotTypes, RingReasons, RunNext, ringVars, flagVars, userVars, xferVars,
      stateVars, callVars, wireVars, CallsApart, FlightHolds, StartHolds, PendingIsKnown,
      VerdictsInOrder, WorkerHolds, RingOrder, Running, Draining
<1>7. VerdictsInOrder'
  BY <1>1 DEF SlotTypes, RingReasons, RunNext, ringVars, flagVars, userVars, xferVars,
      stateVars, callVars, wireVars, VerdictsInOrder, WorkerHolds, RingOrder, SlotStates,
      Running, Draining
<1>8. CompletedMeansSent'
  BY <1>1 DEF SlotTypes, RingReasons, RunNext, ringVars, flagVars, userVars, xferVars,
      stateVars, callVars, wireVars, CompletedMeansSent, FlightHolds, WorkerHolds, Running,
      Draining
<1> QED BY <1>2, <1>3, <1>4, <1>5, <1>6, <1>7, <1>8 DEF RingReasons

\* run_next after a fault.
LEMMA RunHaltedSafe ==
  ASSUME RingSafe, RunHalted
  PROVE  RingReasons'
<1> USE DEF Slots, NoSlot, Other
<1>1. SlotTypes /\ RingReasons
  BY DEF RingSafe, TypeOK, SlotTypes
<1>2. RingOrder'
  BY <1>1 DEF SlotTypes, RingReasons, RunHalted, SessionUsable, ringVars, flagVars, userVars,
      xferVars, stateVars, callVars, wireVars, RingOrder, WorkerHolds, Running, Draining,
      Converted
<1>3. WorkerHolds'
  BY <1>1 DEF SlotTypes, RingReasons, RunHalted, SessionUsable, ringVars, flagVars, userVars,
      xferVars, stateVars, callVars, wireVars, WorkerHolds, Running, Draining
<1>4. NamesApart'
  BY <1>1 DEF SlotTypes, RingReasons, RunHalted, SessionUsable, ringVars, flagVars, userVars,
      xferVars, stateVars, callVars, wireVars, NamesApart, Outstanding, WorkerHolds, Running,
      Draining
<1>5. LastRound'
  BY <1>1 DEF SlotTypes, RingReasons, RunHalted, SessionUsable, ringVars, flagVars, userVars,
      xferVars, stateVars, callVars, wireVars, LastRound, RingOrder, WorkerHolds, Running,
      Draining
<1>6. CallsApart' /\ FlightHolds' /\ StartHolds' /\ PendingIsKnown'
  BY <1>1 DEF SlotTypes, RingReasons, RunHalted, SessionUsable, ringVars, flagVars, userVars,
      xferVars, stateVars, callVars, wireVars, CallsApart, FlightHolds, StartHolds,
      PendingIsKnown, VerdictsInOrder, WorkerHolds, RingOrder, Running, Draining
<1>7. VerdictsInOrder' /\ CompletedMeansSent'
  BY <1>1 DEF SlotTypes, RingReasons, RunHalted, SessionUsable, ringVars, flagVars, userVars,
      xferVars, stateVars, callVars, wireVars, VerdictsInOrder, CompletedMeansSent, FlightHolds,
      WorkerHolds, RingOrder, Running, Draining
<1> QED BY <1>2, <1>3, <1>4, <1>5, <1>6, <1>7 DEF RingReasons

\* lv_aic_spi_session_submit_ex has returned.
LEMMA RunReturnSafe ==
  ASSUME RingSafe, RunReturn
  PROVE  RingReasons'
<1> USE DEF Slots, NoSlot, Other
<1>1. SlotTypes /\ RingReasons
  BY DEF RingSafe, TypeOK, SlotTypes
<1>2. RingOrder'
  BY <1>1 DEF SlotTypes, RingReasons, RunReturn, ringVars, flagVars, userVars, xferVars,
      stateVars, callVars, wireVars, RingOrder, WorkerHolds, Running, Draining, Converted
<1>3. WorkerHolds'
  BY <1>1 DEF SlotTypes, RingReasons, RunReturn, ringVars, flagVars, userVars, xferVars,
      stateVars, callVars, wireVars, WorkerHolds, Running, Draining
<1>4. NamesApart'
  BY <1>1 DEF SlotTypes, RingReasons, RunReturn, ringVars, flagVars, userVars, xferVars,
      stateVars, callVars, wireVars, NamesApart, Outstanding, WorkerHolds, Running, Draining
<1>5. LastRound'
  BY <1>1 DEF SlotTypes, RingReasons, RunReturn, ringVars, flagVars, userVars, xferVars,
      stateVars, callVars, wireVars, LastRound, RingOrder, WorkerHolds, Running, Draining
<1>6. CallsApart' /\ FlightHolds' /\ StartHolds' /\ PendingIsKnown'
  BY <1>1 DEF SlotTypes, RingReasons, RunReturn, ringVars, flagVars, userVars, xferVars,
      stateVars, callVars, wireVars, CallsApart, FlightHolds, StartHolds, PendingIsKnown,
      VerdictsInOrder, WorkerHolds, RingOrder, Running, Draining
<1>7. VerdictsInOrder' /\ CompletedMeansSent'
  BY <1>1 DEF SlotTypes, RingReasons, RunReturn, ringVars, flagVars, userVars, xferVars,
      stateVars, callVars, wireVars, VerdictsInOrder, CompletedMeansSent, FlightHolds,
      WorkerHolds, RingOrder, Running, Draining
<1> QED BY <1>2, <1>3, <1>4, <1>5, <1>6, <1>7 DEF RingReasons

\* The receipt completes the frame that was out (run_next).
LEMMA RunReceiptSafe ==
  ASSUME RingSafe, RunReceipt
  PROVE  RingReasons'
<1> USE DEF Slots, NoSlot, Other
<1>1. SlotTypes /\ RingReasons
  BY DEF RingSafe, TypeOK, SlotTypes
<1>2. RingOrder'
  BY <1>1 DEF SlotTypes, RingReasons, RunReceipt, Complete, Receipt, ringVars, flagVars,
      userVars, stateVars, wireVars, RingOrder, WorkerHolds, Running, Draining, Converted
<1>3. WorkerHolds'
  BY <1>1 DEF SlotTypes, RingReasons, RunReceipt, Complete, Receipt, ringVars, flagVars,
      userVars, stateVars, wireVars, WorkerHolds, Running, Draining
<1>4. NamesApart'
  BY <1>1 DEF SlotTypes, RingReasons, RunReceipt, Complete, Receipt, ringVars, flagVars,
      userVars, stateVars, wireVars, NamesApart, Outstanding, WorkerHolds, Running, Draining
<1>5. LastRound'
  BY <1>1 DEF SlotTypes, RingReasons, RunReceipt, Complete, Receipt, ringVars, flagVars,
      userVars, stateVars, wireVars, LastRound, RingOrder, WorkerHolds, Running, Draining
<1>6. CallsApart' /\ FlightHolds' /\ StartHolds' /\ PendingIsKnown'
  BY <1>1 DEF SlotTypes, RingReasons, RunReceipt, Complete, Receipt, ringVars, flagVars,
      userVars, stateVars, wireVars, CallsApart, FlightHolds, StartHolds, PendingIsKnown,
      VerdictsInOrder, WorkerHolds, RingOrder, Running, Draining
<1>7. VerdictsInOrder' /\ CompletedMeansSent'
  BY <1>1 DEF SlotTypes, RingReasons, RunReceipt, Complete, Receipt, ringVars, flagVars,
      userVars, stateVars, wireVars, VerdictsInOrder, CompletedMeansSent, FlightHolds,
      WorkerHolds, RingOrder, Running, Draining
<1> QED BY <1>2, <1>3, <1>4, <1>5, <1>6, <1>7 DEF RingReasons

\* run_next halts the pipeline on FAULT, BUSY or a missing receipt.
LEMMA RunJudgeSafe ==
  ASSUME RingSafe, RunJudge
  PROVE  RingReasons'
<1> USE DEF Slots, NoSlot, Other
<1>1. SlotTypes /\ RingReasons
  BY DEF RingSafe, TypeOK, SlotTypes
<1>2. RingOrder'
  BY <1>1 DEF SlotTypes, RingReasons, RunJudge, Halts, ringVars, userVars, xferVars, stateVars,
      callVars, wireVars, RingOrder, WorkerHolds, Running, Draining, Converted
<1>3. WorkerHolds'
  BY <1>1 DEF SlotTypes, RingReasons, RunJudge, Halts, ringVars, userVars, xferVars, stateVars,
      callVars, wireVars, WorkerHolds, Running, Draining
<1>4. NamesApart'
  BY <1>1 DEF SlotTypes, RingReasons, RunJudge, Halts, ringVars, userVars, xferVars, stateVars,
      callVars, wireVars, NamesApart, Outstanding, WorkerHolds, Running, Draining
<1>5. LastRound'
  BY <1>1 DEF SlotTypes, RingReasons, RunJudge, Halts, ringVars, userVars, xferVars, stateVars,
      callVars, wireVars, LastRound, RingOrder, WorkerHolds, Running, Draining
<1>6. CallsApart' /\ FlightHolds' /\ StartHolds' /\ PendingIsKnown'
  BY <1>1 DEF SlotTypes, RingReasons, RunJudge, Halts, ringVars, userVars, xferVars, stateVars,
      callVars, wireVars, CallsApart, FlightHolds, StartHolds, PendingIsKnown, VerdictsInOrder,
      WorkerHolds, RingOrder, Running, Draining
<1>7. VerdictsInOrder' /\ CompletedMeansSent'
  BY <1>1 DEF SlotTypes, RingReasons, RunJudge, Halts, ringVars, userVars, xferVars, stateVars,
      callVars, wireVars, VerdictsInOrder, CompletedMeansSent, FlightHolds, WorkerHolds,
      RingOrder, Running, Draining
<1> QED BY <1>2, <1>3, <1>4, <1>5, <1>6, <1>7 DEF RingReasons

\* run_next fails the frame that was out with the one at hand.
LEMMA RunFailPreviousSafe ==
  ASSUME RingSafe, RunFailPrevious
  PROVE  RingReasons'
<1> USE DEF Slots, NoSlot, Other
<1>1. SlotTypes /\ RingReasons
  BY DEF RingSafe, TypeOK, SlotTypes
<1>2. RingOrder'
  BY <1>1 DEF SlotTypes, RingReasons, RunFailPrevious, Complete, PrevVerdict, ringVars,
      flagVars, userVars, xferVars, stateVars, callVars, wireVars, RingOrder, WorkerHolds,
      Running, Draining, Converted
<1>3. WorkerHolds'
  BY <1>1 DEF SlotTypes, RingReasons, RunFailPrevious, Complete, PrevVerdict, ringVars,
      flagVars, userVars, xferVars, stateVars, callVars, wireVars, WorkerHolds, Running,
      Draining
<1>4. NamesApart'
  BY <1>1 DEF SlotTypes, RingReasons, RunFailPrevious, Complete, PrevVerdict, ringVars,
      flagVars, userVars, xferVars, stateVars, callVars, wireVars, NamesApart, Outstanding,
      WorkerHolds, Running, Draining
<1>5. LastRound'
  BY <1>1 DEF SlotTypes, RingReasons, RunFailPrevious, Complete, PrevVerdict, ringVars,
      flagVars, userVars, xferVars, stateVars, callVars, wireVars, LastRound, RingOrder,
      WorkerHolds, Running, Draining
<1>6. CallsApart' /\ FlightHolds' /\ StartHolds' /\ PendingIsKnown'
  BY <1>1 DEF SlotTypes, RingReasons, RunFailPrevious, Complete, PrevVerdict, ringVars,
      flagVars, userVars, xferVars, stateVars, callVars, wireVars, CallsApart, FlightHolds,
      StartHolds, PendingIsKnown, VerdictsInOrder, WorkerHolds, RingOrder, Running, Draining
<1>7. VerdictsInOrder' /\ CompletedMeansSent'
  BY <1>1 DEF SlotTypes, RingReasons, RunFailPrevious, Complete, PrevVerdict, ringVars,
      flagVars, userVars, xferVars, stateVars, callVars, wireVars, VerdictsInOrder,
      CompletedMeansSent, FlightHolds, WorkerHolds, RingOrder, Running, Draining
<1> QED BY <1>2, <1>3, <1>4, <1>5, <1>6, <1>7 DEF RingReasons

\* The end of run_next: the frame is out, or has its verdict.
LEMMA RunPublishSafe ==
  ASSUME RingSafe, RunPublish
  PROVE  RingReasons'
<1> USE DEF Slots, NoSlot, Other
<1>1. SlotTypes /\ RingReasons
  BY DEF RingSafe, TypeOK, SlotTypes
<1>2. RingOrder'
  BY <1>1 DEF SlotTypes, RingReasons, RunPublish, Complete, ringVars, flagVars, userVars,
      xferVars, stateVars, callVars, wireVars, RingOrder, WorkerHolds, Running, Draining,
      Converted
<1>3. WorkerHolds'
  BY <1>1 DEF SlotTypes, RingReasons, RunPublish, Complete, ringVars, flagVars, userVars,
      xferVars, stateVars, callVars, wireVars, WorkerHolds, StartHolds, Running, Draining
<1>4. NamesApart'
  BY <1>1 DEF SlotTypes, RingReasons, RunPublish, Complete, ringVars, flagVars, userVars,
      xferVars, stateVars, callVars, wireVars, NamesApart, Outstanding, WorkerHolds, Running,
      Draining
<1>5. LastRound'
  BY <1>1 DEF SlotTypes, RingReasons, RunPublish, Complete, ringVars, flagVars, userVars,
      xferVars, stateVars, callVars, wireVars, LastRound, RingOrder, WorkerHolds, Running,
      Draining
<1>6. CallsApart' /\ FlightHolds' /\ StartHolds' /\ PendingIsKnown'
  BY <1>1 DEF SlotTypes, RingReasons, RunPublish, Complete, ringVars, flagVars, userVars,
      xferVars, stateVars, callVars, wireVars, CallsApart, FlightHolds, StartHolds,
      PendingIsKnown, VerdictsInOrder, WorkerHolds, RingOrder, Running, Draining
<1>7. VerdictsInOrder' /\ CompletedMeansSent'
  BY <1>1 DEF SlotTypes, RingReasons, RunPublish, Complete, ringVars, flagVars, userVars,
      xferVars, stateVars, callVars, wireVars, VerdictsInOrder, CompletedMeansSent, FlightHolds,
      WorkerHolds, RingOrder, Running, Draining
<1> QED BY <1>2, <1>3, <1>4, <1>5, <1>6, <1>7 DEF RingReasons

\* lv_aic_spi_session_drain has returned.
LEMMA DrainReturnSafe ==
  ASSUME RingSafe, DrainReturn
  PROVE  RingReasons'
<1> USE DEF Slots, NoSlot, Other
<1>1. SlotTypes /\ RingReasons
  BY DEF RingSafe, TypeOK, SlotTypes
<1>2. RingOrder'
  BY <1>1 DEF SlotTypes, RingReasons, DrainReturn, slotVars, ringVars, userVars, xferVars,
      stateVars, callVars, wireVars, RingOrder, WorkerHolds, Running, Draining, Converted
<1>3. WorkerHolds'
  BY <1>1 DEF SlotTypes, RingReasons, DrainReturn, slotVars, ringVars, userVars, xferVars,
      stateVars, callVars, wireVars, WorkerHolds, Running, Draining
<1>4. NamesApart'
  BY <1>1 DEF SlotTypes, RingReasons, DrainReturn, slotVars, ringVars, userVars, xferVars,
      stateVars, callVars, wireVars, NamesApart, Outstanding, WorkerHolds, Running, Draining
<1>5. LastRound'
  BY <1>1 DEF SlotTypes, RingReasons, DrainReturn, slotVars, ringVars, userVars, xferVars,
      stateVars, callVars, wireVars, LastRound, RingOrder, WorkerHolds, Running, Draining
<1>6. CallsApart' /\ FlightHolds' /\ StartHolds' /\ PendingIsKnown'
  BY <1>1 DEF SlotTypes, RingReasons, DrainReturn, slotVars, ringVars, userVars, xferVars,
      stateVars, callVars, wireVars, CallsApart, FlightHolds, StartHolds, PendingIsKnown,
      VerdictsInOrder, WorkerHolds, RingOrder, Running, Draining
<1>7. VerdictsInOrder' /\ CompletedMeansSent'
  BY <1>1 DEF SlotTypes, RingReasons, DrainReturn, slotVars, ringVars, userVars, xferVars,
      stateVars, callVars, wireVars, VerdictsInOrder, CompletedMeansSent, FlightHolds,
      WorkerHolds, RingOrder, Running, Draining
<1> QED BY <1>2, <1>3, <1>4, <1>5, <1>6, <1>7 DEF RingReasons

\* The end of drain(): the frame that was out has its verdict.
LEMMA DrainCompleteSafe ==
  ASSUME RingSafe, DrainComplete
  PROVE  RingReasons'
<1> USE DEF Slots, NoSlot, Other
<1>1. SlotTypes /\ RingReasons
  BY DEF RingSafe, TypeOK, SlotTypes
<1>2. RingOrder'
  BY <1>1 DEF SlotTypes, RingReasons, DrainComplete, Complete, AfterDrain, ringVars, flagVars,
      userVars, xferVars, stateVars, callVars, wireVars, RingOrder, WorkerHolds, Running,
      Draining, Converted
<1>3. WorkerHolds'
  BY <1>1 DEF SlotTypes, RingReasons, DrainComplete, Complete, AfterDrain, ringVars, flagVars,
      userVars, xferVars, stateVars, callVars, wireVars, WorkerHolds, Running, Draining
<1>4. NamesApart'
  BY <1>1 DEF SlotTypes, RingReasons, DrainComplete, Complete, AfterDrain, ringVars, flagVars,
      userVars, xferVars, stateVars, callVars, wireVars, NamesApart, Outstanding, WorkerHolds,
      Running, Draining
<1>5. LastRound'
  BY <1>1 DEF SlotTypes, RingReasons, DrainComplete, Complete, AfterDrain, ringVars, flagVars,
      userVars, xferVars, stateVars, callVars, wireVars, LastRound, RingOrder, WorkerHolds,
      Running, Draining
<1>6. CallsApart' /\ FlightHolds' /\ StartHolds' /\ PendingIsKnown'
  BY <1>1 DEF SlotTypes, RingReasons, DrainComplete, Complete, AfterDrain, ringVars, flagVars,
      userVars, xferVars, stateVars, callVars, wireVars, CallsApart, FlightHolds, StartHolds,
      PendingIsKnown, VerdictsInOrder, WorkerHolds, RingOrder, Running, Draining
<1>7. VerdictsInOrder'
  BY <1>1 DEF SlotTypes, RingReasons, DrainComplete, Complete, AfterDrain, ringVars, flagVars,
      userVars, xferVars, stateVars, callVars, wireVars, VerdictsInOrder, WorkerHolds,
      RingOrder, SlotStates, Running, Draining
<1>8. CompletedMeansSent'
  BY <1>1 DEF SlotTypes, RingReasons, DrainComplete, Complete, AfterDrain, ringVars, flagVars,
      userVars, xferVars, stateVars, callVars, wireVars, CompletedMeansSent, FlightHolds,
      WorkerHolds, Running, Draining
<1> QED BY <1>2, <1>3, <1>4, <1>5, <1>6, <1>7, <1>8 DEF RingReasons

-----------------------------------------------------------------------------
(* The transfer's steps, and the calls into it. *)

\* What the transfer and its DMA do on their own leaves the ring as it is.
LEMMA RingUntouched ==
  ASSUME RingReasons, UNCHANGED <<slotVars, ringVars, flagVars, workVars, userVars>>
  PROVE  RingOrder' /\ WorkerHolds' /\ NamesApart' /\ LastRound' /\ VerdictsInOrder'
BY DEF RingReasons, RingOrder, WorkerHolds, NamesApart, LastRound, VerdictsInOrder, Outstanding,
   slotVars, ringVars, flagVars, workVars, userVars

\* A step of the call between two callbacks (lv_aic_spi_transfer.c).
LEMMA CallStepRing ==
  ASSUME XferInv, RingSafe, Xfer(CallStep)
  PROVE  RingReasons'
<1>1. RingReasons /\ XferTypeOK /\ Ownership /\ Pixels
  BY DEF RingSafe, XferInv, XferSafe
<1>2. UNCHANGED <<slotVars, ringVars, flagVars, wake, workVars, userVars>> /\ CallStep
  BY DEF Xfer
<1>3. pc # "idle"
  BY <1>2 DEF CallStep, WaitOk, WaitFail, ConvertOk, StartOk, StartFail, ConvertFail
<1>4. UNCHANGED sent
  BY <1>2 DEF CallStep, WaitOk, WaitFail, ConvertOk, StartOk, StartFail, ConvertFail, wireVars
<1>5. CompletedMeansSent'
  BY <1>1, <1>2, <1>4 DEF RingReasons, CompletedMeansSent, slotVars
<1>6. CallsApart' /\ FlightHolds' /\ StartHolds' /\ PendingIsKnown'
  <2> USE DEF RingReasons, CallsApart, FlightHolds, StartHolds, PendingIsKnown,
        slotVars, ringVars, flagVars, workVars, userVars, stateVars, wireVars, Return, FreesOn
  <2>1. CASE WaitOk
    <3>1. CASE op = "submit"
      BY <1>1, <1>2, <2>1, <3>1 DEF WaitOk, WaitEndsWhen, WorkerHolds, Ownership, Pixels
    <3>2. CASE op # "submit"
      <4>1. /\ pc' = "idle" /\ pending' = FALSE
            /\ UNCHANGED <<back, active, content, sent, dma, receipt>>
        BY <2>1, <3>2 DEF WaitOk, Return, wireVars
      <4>2. wpc = "drained" \/ exited
        BY <1>1, <2>1, <3>2 DEF WaitOk
      <4>3. wpc \in {"drained", "gone"} /\ flying = NoSlot
        BY <1>1, <4>2 DEF WorkerHolds, Draining
      <4>4. (wpc = "drained" => cookie[cur] \in sent) /\ (freed' => closed)
        BY <1>1, <2>1, <3>2 DEF WaitOk, WaitEndsWhen, Ownership, Pixels
      <4> QED BY <1>1, <1>2, <4>1, <4>3, <4>4
    <3> QED BY <3>1, <3>2
  <2>2. CASE WaitFail
    BY <1>1, <1>2, <2>2 DEF WaitFail, Ownership
  <2>3. CASE ConvertOk
    BY <1>1, <1>2, <2>3 DEF ConvertOk, AfterConvert, XferTypeOK, Ownership, Buffers
  <2>4. CASE StartOk
    BY <1>1, <1>2, <2>4 DEF StartOk, Ownership
  <2>5. CASE StartFail
    BY <1>1, <1>2, <2>5 DEF StartFail, Ownership
  <2>6. ASSUME NEW r \in Results, ConvertFail(r)
        PROVE  CallsApart' /\ FlightHolds' /\ StartHolds' /\ PendingIsKnown'
    BY <1>1, <1>2, <2>6 DEF ConvertFail, XferTypeOK, Ownership, Buffers
  <2> QED BY <1>2, <2>1, <2>2, <2>3, <2>4, <2>5, <2>6 DEF CallStep
<1> QED BY <1>1, <1>2, <1>5, <1>6, RingUntouched DEF RingReasons

\* The DMA's end.
LEMMA DmaDoneRing ==
  ASSUME RingSafe, Xfer(DmaDone)
  PROVE  RingReasons'
<1>1. RingReasons /\ UNCHANGED <<slotVars, ringVars, flagVars, wake, workVars, userVars>>
  BY DEF RingSafe, Xfer
<1>2. UNCHANGED <<stateVars, callVars, content>> /\ sent \subseteq sent'
  BY DEF Xfer, DmaDone
<1>3. CallsApart' /\ FlightHolds' /\ StartHolds' /\ PendingIsKnown' /\ CompletedMeansSent'
  BY <1>1, <1>2 DEF RingReasons, CallsApart, FlightHolds, StartHolds, PendingIsKnown,
      CompletedMeansSent, slotVars, ringVars, flagVars, workVars, userVars, stateVars, callVars
<1> QED BY <1>1, <1>3, RingUntouched DEF RingReasons

\* run_next enters lv_aic_spi_session_submit_ex with a frame of its own.
LEMMA RunSubmitNamed ==
  ASSUME RingSafe, RunSubmit
  PROVE  /\ cookie[cur] \in Frames
         /\ pending => content[active] # cookie[cur]
         /\ \A i \in Slots : state[i] # "EMPTY" /\ i # cur => cookie[i] # cookie[cur]
<1> USE DEF Slots, NoSlot, Other
<1>1. SlotTypes /\ RingReasons /\ wpc = "submit" /\ ~halted
  BY DEF RingSafe, TypeOK, SlotTypes, RunSubmit, SessionUsable
<1>2. /\ cookie[cur] \in Frames
      /\ \A i \in Slots : state[i] # "EMPTY" /\ i # cur => cookie[i] # cookie[cur]
  BY <1>1 DEF SlotTypes, RingReasons, WorkerHolds, NamesApart, Running
<1>3. pending => flying # NoSlot /\ content[active] = cookie[flying]
  BY <1>1 DEF SlotTypes, RingReasons, PendingIsKnown, FlightHolds
<1>4. flying # NoSlot => flying \in Slots /\ flying # cur /\ state[flying] # "EMPTY"
  BY <1>1 DEF SlotTypes, RingReasons, WorkerHolds, Running
<1> QED BY <1>2, <1>3, <1>4

\* The call begins: no receipt is known, the frame that was out still is.
LEMMA RunSubmitSafe ==
  ASSUME XferInv, RingSafe, RunSubmit
  PROVE  RingReasons'
<1> USE DEF Slots, NoSlot, Other
<1>1. SlotTypes /\ RingReasons /\ wpc = "submit" /\ wpc' = "call" /\ ~halted
  BY DEF RingSafe, TypeOK, SlotTypes, RunSubmit, SessionUsable
<1>2. UNCHANGED <<slotVars, ringVars, flagVars, wake, run, flying, cur, tries, ran, woke, last,
                  userVars>>
  BY DEF RunSubmit
<1>3. SubmitEnter(cookie[cur]) /\ Ownership
  BY DEF RunSubmit, XferInv, XferSafe
<1>4. RingOrder' /\ WorkerHolds' /\ NamesApart' /\ LastRound' /\ VerdictsInOrder'
  BY <1>1, <1>2 DEF RingReasons, RingOrder, WorkerHolds, NamesApart, LastRound,
      VerdictsInOrder, Outstanding,
      slotVars, ringVars, flagVars, userVars, Running, Draining
<1>5. CallsApart' /\ FlightHolds' /\ StartHolds' /\ PendingIsKnown'
  BY <1>1, <1>2, <1>3 DEF RingReasons, CallsApart, FlightHolds, StartHolds, PendingIsKnown,
      slotVars, ringVars, flagVars, userVars, SubmitEnter, Refused, Return, FreesOn, FirstStep,
      OutputBuffer, Ownership
<1>6. CompletedMeansSent'
  BY <1>1, <1>2, <1>3, RunSubmitNamed DEF RingReasons, CompletedMeansSent, SubmitEnter,
      WorkerHolds, Running, slotVars
<1> QED BY <1>4, <1>5, <1>6 DEF RingReasons

\* drain() takes the frame that is out in its hands.
LEMMA DrainCallSafe ==
  ASSUME XferInv, RingSafe, DrainCall
  PROVE  RingReasons'
<1> USE DEF Slots, NoSlot, Other
<1>1. SlotTypes /\ RingReasons
  BY DEF RingSafe, TypeOK, SlotTypes
<1>2. /\ UNCHANGED <<slotVars, ringVars, flagVars, wake, run, tries, ran, woke, last, userVars>>
      /\ wpc = "drain" /\ flying # NoSlot
      /\ cur' = flying /\ flying' = NoSlot /\ wpc' = "drained"
  BY DEF DrainCall
<1>3. DrainEnter("drain") /\ Ownership
  BY DEF DrainCall, XferInv, XferSafe
<1>4. RingOrder' /\ NamesApart' /\ LastRound'
  BY <1>1, <1>2 DEF RingReasons, RingOrder, NamesApart, LastRound, Outstanding,
      slotVars, ringVars, flagVars, userVars, Running, Draining
<1>5. WorkerHolds' /\ VerdictsInOrder'
  BY <1>1, <1>2 DEF SlotTypes, RingReasons, WorkerHolds, VerdictsInOrder,
      slotVars, ringVars, flagVars, userVars, Running, Draining
<1>6. CallsApart' /\ FlightHolds' /\ StartHolds' /\ PendingIsKnown'
  <2>1. pending /\ content[active] = cookie[flying] /\ ~halted /\ pc = "idle"
    BY <1>1, <1>2, <1>3 DEF RingReasons, FlightHolds, VerdictsInOrder, DrainEnter
  <2>2. UNCHANGED <<back, pending, active, wireVars>> /\ (freed' => freed)
    <3>1. UNCHANGED <<back, pending, active, wireVars>>
      BY <1>3 DEF DrainEnter
    <3>2. freed' => freed
      BY <1>3 DEF DrainEnter, Return, FreesOn
    <3> QED BY <3>1, <3>2
  <2>3. \/ pc' = "idle" /\ result' = "FAULT"
        \/ pc' = "wait" /\ op' = "drain"
    BY <1>3, <2>1 DEF DrainEnter, Return
  <2> QED BY <1>1, <1>2, <2>1, <2>2, <2>3 DEF RingReasons, CallsApart, FlightHolds, StartHolds,
      PendingIsKnown, slotVars, ringVars, flagVars, userVars, wireVars
<1>7. CompletedMeansSent'
  BY <1>1, <1>2, <1>3 DEF RingReasons, CompletedMeansSent, DrainEnter, wireVars, slotVars
<1> QED BY <1>4, <1>5, <1>6, <1>7 DEF RingReasons

\* The owner closes the session after the pipeline.
LEMMA SessionCloseSafe ==
  ASSUME XferInv, RingSafe, SessionClose
  PROVE  RingReasons'
<1>1. RingReasons /\ UNCHANGED <<slotVars, ringVars, flagVars, wake, workVars, userVars>>
  BY DEF RingSafe, SessionClose
<1>2. DrainEnter("close") /\ closed /\ exited /\ wpc = "gone"
  BY <1>1 DEF SessionClose, RingReasons, CallsApart, WorkerHolds
<1>3. CallsApart' /\ FlightHolds' /\ StartHolds' /\ PendingIsKnown' /\ CompletedMeansSent'
  BY <1>1, <1>2 DEF RingReasons, CallsApart, FlightHolds, StartHolds, PendingIsKnown,
      CompletedMeansSent, slotVars, ringVars, flagVars, workVars, userVars, DrainEnter, Return,
      FreesOn, wireVars
<1> QED BY <1>1, <1>3, RingUntouched DEF RingReasons

-----------------------------------------------------------------------------
(* The types, and the transfer in the pipeline. *)

\* Every step but the calls keeps the transfer as it is, or forgets a receipt.
LEMMA PipeXferSafe ==
  ASSUME XferInv, RingSafe, Next
  PROVE  XferInv'
<1>1. CASE RunSubmit
  <2>1. /\ cookie[cur] \in Frames /\ SubmitEnter(cookie[cur])
        /\ pending => content[active] # cookie[cur]
    BY <1>1, RunSubmitNamed DEF RunSubmit
  <2> QED BY <2>1, SubmitEnterSafe, SubmitEnterPixels DEF XferInv
<1>2. CASE DrainCall
  BY <1>2, DrainEnterSafe, DrainEnterPixels DEF DrainCall, XferInv
<1>3. CASE SessionClose
  BY <1>3, DrainEnterSafe, DrainEnterPixels DEF SessionClose, XferInv
<1>4. CASE Xfer(CallStep)
  BY <1>4, CallStepSafe, CallStepPixels DEF Xfer, XferInv
<1>5. CASE Xfer(DmaDone)
  BY <1>5, DmaDoneSafe, DmaDonePixels DEF Xfer, XferInv
<1>6. CASE RunReceipt
  <2>1. receipt' = FALSE /\ UNCHANGED <<stateVars, pc, op, output, source, result, wireVars>>
    BY <1>6 DEF RunReceipt
  <2>2. XferTypeOK'
    <3>1. XferTypeOK
      BY DEF XferInv, XferSafe
    <3>2. /\ back' \in BOOLEAN /\ transform' \in BOOLEAN /\ pending' \in BOOLEAN
          /\ busy' \in BOOLEAN /\ fault' \in BOOLEAN /\ started' \in BOOLEAN
          /\ freed' \in BOOLEAN /\ receipt' \in BOOLEAN
      BY <2>1, <3>1 DEF XferTypeOK, stateVars
    <3>3. active' = active /\ UNCHANGED <<pc, op, output, source, result, dma, content, sent>>
      BY <2>1 DEF stateVars, wireVars
    <3> QED BY <3>1, <3>2, <3>3 DEF XferTypeOK
  <2>3. Ownership'
    BY <2>1 DEF XferInv, XferSafe, Ownership, stateVars, wireVars
  <2>4. Pixels'
    BY <2>1 DEF XferInv, Pixels, stateVars, wireVars
  <2> QED BY <2>2, <2>3, <2>4 DEF XferInv, XferSafe
<1>7. ASSUME UNCHANGED xferVars PROVE XferInv'
  BY <1>7, XferStutter
<1>8. CASE Producer /\ ~SessionClose
  <2>1. UNCHANGED xferVars
    BY <1>8 DEF Producer, Submit, Enqueue, SubmitBusy, Give, TakeRelease, TakeLook,
        TakeComplete,
        TakeNothing, Stop, Close
  <2> QED BY <1>7, <2>1
<1>9. CASE Worker /\ ~RunSubmit /\ ~DrainCall /\ ~RunReceipt
  <2>1. UNCHANGED xferVars
    BY <1>9 DEF Worker, SemTake, RunNext, ScanEnds, RunHalted, RunReturn, RunJudge,
        RunFailPrevious,
        RunPublish, CheckStop, DrainNothing, DrainReturn, DrainComplete, Exit
  <2> QED BY <1>7, <2>1
<1> QED BY <1>1, <1>2, <1>3, <1>4, <1>5, <1>6, <1>8, <1>9 DEF Next

\* The producer's steps keep the types.
LEMMA ProducerTypes ==
  ASSUME XferInv', RingSafe, Producer
  PROVE  TypeOK'
<1>1. TypeOK /\ XferTypeOK'
  BY DEF RingSafe, XferInv, XferSafe
<1> USE DEF TypeOK, slotVars, ringVars, flagVars, workVars, userVars, Other, Slots
<1>2. ASSUME NEW f \in Frames, Submit(f) PROVE TypeOK'
  BY <1>1, <1>2 DEF Submit
<1>3. CASE Enqueue
  <2>1. put' \in Slots /\ state' \in [Slots -> SlotStates] /\ released' \in [Slots -> BOOLEAN]
        /\ cookie' \in [Slots -> Frames \cup {Torn}]
    BY <1>1, <1>3 DEF Enqueue, SlotStates
  <2> QED BY <1>1, <1>3, <2>1 DEF Enqueue
<1>4. CASE SubmitBusy \/ Give \/ TakeLook \/ TakeNothing \/ Stop
  <2>1. CASE SubmitBusy
    BY <1>1, <2>1 DEF SubmitBusy
  <2>2. CASE Give
    BY <1>1, <2>2 DEF Give
  <2>3. CASE TakeLook
    BY <1>1, <2>3 DEF TakeLook
  <2>4. CASE TakeNothing
    BY <1>1, <2>4 DEF TakeNothing
  <2>5. CASE Stop
    BY <1>1, <2>5 DEF Stop
  <2> QED BY <1>4, <2>1, <2>2, <2>3, <2>4, <2>5
<1>5. CASE TakeRelease
  BY <1>1, <1>5 DEF TakeRelease
<1>6. CASE TakeComplete
  <2>1. take' \in Slots /\ state' \in [Slots -> SlotStates] /\ released' \in [Slots -> BOOLEAN]
        /\ cookie' \in [Slots -> Frames \cup {Torn}] /\ submitted' \in [Slots -> Results]
        /\ completed' \in [Slots -> Results]
    BY <1>1, <1>6 DEF TakeComplete, SlotStates, Results
  <2>2. alarm' \in BOOLEAN
    BY <1>1, <1>6 DEF TakeComplete
  <2> QED BY <1>1, <1>6, <2>1, <2>2 DEF TakeComplete
<1>7. CASE Close \/ SessionClose
  BY <1>1, <1>7 DEF Close, SessionClose
<1> QED BY <1>2, <1>3, <1>4, <1>5, <1>6, <1>7 DEF Producer

\* So do the worker's.
LEMMA WorkerTypes ==
  ASSUME XferInv', RingSafe, Worker
  PROVE  TypeOK'
<1>1. TypeOK /\ XferTypeOK'
  BY DEF RingSafe, XferInv, XferSafe
<1> USE DEF TypeOK, slotVars, ringVars, flagVars, workVars, userVars, Other, Slots, SlotStates,
    Results, Complete
<1>2. CASE SemTake
  BY <1>1, <1>2, MaxWakeIsPositive DEF SemTake
<1>3. CASE RunNext
  BY <1>1, <1>3 DEF RunNext
<1>4. CASE ScanEnds \/ DrainNothing \/ Exit
  BY <1>1, <1>4 DEF ScanEnds, DrainNothing, Exit, AfterDrain
<1>10. CASE CheckStop
  <2>1. /\ wpc' \in {"scan", "drain", "wait"} /\ last' \in BOOLEAN
        /\ tries' = 0 /\ ran' = FALSE /\ woke' = FALSE
    <3>1. CASE stopping
      BY <1>10, <3>1 DEF CheckStop, LastPhase
    <3>2. CASE ~stopping
      BY <1>1, <1>10, <3>2 DEF CheckStop, AfterIdle
    <3> QED BY <3>1, <3>2
  <2>2. UNCHANGED <<slotVars, ringVars, flagVars, wake, run, flying, cur, userVars>>
    BY <1>10 DEF CheckStop
  <2>3. {stopping, exited, halted, closed, ran, woke, last, alarm}' \subseteq BOOLEAN
    BY <1>1, <2>1, <2>2
  <2>4. {put, release, take, run, cur}' \subseteq Slots
    BY <1>1, <2>1, <2>2
  <2>5. (wake \in 0..MaxWake)' /\ (tries \in 0..2)'
    BY <1>1, <2>1, <2>2
  <2> QED BY <1>1, <2>1, <2>2, <2>3, <2>4, <2>5
<1>5. CASE RunHalted \/ RunSubmit
  BY <1>1, <1>5 DEF RunHalted, RunSubmit
<1>11. CASE RunReturn
  <2>1. submitted' \in [Slots -> Results]
    BY <1>1, <1>11 DEF RunReturn, XferTypeOK
  <2> QED BY <1>1, <1>11, <2>1 DEF RunReturn
<1>12. CASE RunJudge
  BY <1>1, <1>12 DEF RunJudge
<1>6. CASE RunReceipt \/ RunFailPrevious
  BY <1>1, <1>6 DEF RunReceipt, RunFailPrevious, PrevVerdict
<1>7. CASE RunPublish
  BY <1>1, <1>7 DEF RunPublish, RingSafe, RingReasons, LastRound, Running
<1>8. CASE DrainCall \/ DrainReturn
  BY <1>1, <1>8 DEF DrainCall, DrainReturn
<1>9. CASE DrainComplete
  BY <1>1, <1>9 DEF DrainComplete, AfterDrain
<1> QED BY <1>2, <1>3, <1>4, <1>5, <1>6, <1>7, <1>8, <1>9, <1>10, <1>11, <1>12 DEF Worker

-----------------------------------------------------------------------------
(* The invariants. *)

\* RingSafe and XferInv are inductive together.
LEMMA RingStep ==
  ASSUME XferInv, RingSafe, Next
  PROVE  RingSafe'
<1>1. XferInv'
  BY PipeXferSafe
<1>2. TypeOK'
  <2>1. CASE Xfer(CallStep) \/ Xfer(DmaDone)
    BY <1>1, <2>1 DEF Xfer, RingSafe, TypeOK, XferInv, XferSafe, slotVars, ringVars, flagVars,
        workVars, userVars
  <2> QED BY <1>1, <2>1, ProducerTypes, WorkerTypes DEF Next
<1>3. RingReasons'
  <2>1. CASE Producer
    BY <2>1, UserQuietSafe, EnqueueSafe, TakeReleaseSafe, TakeCompleteSafe,
        SessionCloseSafe DEF Producer
  <2>2. CASE Worker
    BY <2>2, WorkerQuietSafe, RunNextSafe, RunHaltedSafe, RunSubmitSafe, RunReturnSafe,
        RunReceiptSafe,
       RunJudgeSafe, RunFailPreviousSafe, RunPublishSafe, DrainCallSafe, DrainReturnSafe,
       DrainCompleteSafe DEF Worker
  <2> QED BY <2>1, <2>2, CallStepRing, DmaDoneRing DEF Next
<1> QED BY <1>2, <1>3 DEF RingSafe

\* Nothing changes when nothing happens.
LEMMA RingStutter ==
  ASSUME RingSafe, UNCHANGED vars
  PROVE  RingSafe'
<1>1. UNCHANGED <<slotVars, ringVars, flagVars, wake, workVars, userVars, stateVars, callVars,
                  wireVars>>
  BY DEF vars, xferVars
<1>2. TypeOK'
  BY <1>1 DEF RingSafe, TypeOK, XferTypeOK, slotVars, ringVars, flagVars, workVars, userVars,
      stateVars,
      callVars, wireVars
<1>3. RingOrder' /\ WorkerHolds' /\ NamesApart' /\ LastRound' /\ VerdictsInOrder'
  BY <1>1, RingUntouched DEF RingSafe
<1>4. CallsApart' /\ FlightHolds' /\ StartHolds' /\ PendingIsKnown' /\ CompletedMeansSent'
  BY <1>1 DEF RingSafe, RingReasons, CallsApart, FlightHolds, StartHolds, PendingIsKnown,
      CompletedMeansSent, slotVars, ringVars, flagVars, workVars, userVars, stateVars,
      callVars, wireVars
<1> QED BY <1>2, <1>3, <1>4 DEF RingSafe, RingReasons

\* A pipeline just created (lv_aic_spi_pipeline_create) is safe.
LEMMA RingStart ==
  ASSUME Init
  PROVE  XferInv /\ RingSafe
<1> USE DEF Slots, NoSlot, Other
<1>1. XferInv
  BY XferStartInv DEF Init
<1>2. TypeOK
  <2>1. {put, release, take, run, cur} \subseteq Slots /\ wake \in 0..MaxWake /\ tries \in 0..2
    BY MaxWakeIsPositive DEF Init
  <2>2. {stopping, exited, halted, closed, ran, woke, last, alarm} \subseteq BOOLEAN
    BY DEF Init
  <2>3. /\ state \in [Slots -> SlotStates] /\ released \in [Slots -> BOOLEAN]
        /\ cookie \in [Slots -> Frames \cup {Torn}]
        /\ submitted \in [Slots -> Results] /\ completed \in [Slots -> Results]
    BY DEF Init, SlotStates, Results
  <2> QED BY <1>1, <2>1, <2>2, <2>3 DEF Init, TypeOK, XferInv, XferSafe
<1>3. RingOrder /\ WorkerHolds /\ NamesApart /\ LastRound
  BY DEF Init, RingOrder, WorkerHolds, NamesApart, LastRound, Running, Draining, Converted
<1>4. /\ CallsApart /\ FlightHolds /\ StartHolds /\ PendingIsKnown
      /\ VerdictsInOrder /\ CompletedMeansSent
  BY DEF Init, XferStart, CallsApart, FlightHolds, StartHolds, PendingIsKnown, VerdictsInOrder,
      CompletedMeansSent
<1> QED BY <1>1, <1>2, <1>3, <1>4 DEF RingSafe, RingReasons

\* The inductive invariant of the pipeline and the transfer it runs.
THEOREM PipelineInvariance == Spec => [](XferInv /\ RingSafe)
<1>1. Init => XferInv /\ RingSafe
  BY RingStart
<1>2. XferInv /\ RingSafe /\ [Next]_vars => (XferInv /\ RingSafe)'
  <2> SUFFICES ASSUME XferInv, RingSafe, [Next]_vars PROVE XferInv' /\ RingSafe'
    OBVIOUS
  <2>1. CASE Next
    BY <2>1, PipeXferSafe, RingStep
  <2>2. CASE UNCHANGED vars
    BY <2>2, XferStutter, RingStutter DEF vars
  <2> QED BY <2>1, <2>2
<1> QED BY <1>1, <1>2, PTL DEF Spec

\* The ring, its verdicts, the borrowed sources and what is freed are as
\* lv_aic_spi_pipeline.c intends, for any frames and any order of the two threads.
THEOREM RingCorrect == Spec => []RingInv
<1>1. XferInv /\ RingSafe => RingInv
  <2> SUFFICES ASSUME XferInv, RingSafe PROVE RingInv
    OBVIOUS
  <2>1. SlotTypes /\ RingReasons /\ Ownership
    BY DEF RingSafe, TypeOK, SlotTypes, XferInv, XferSafe
  <2>2. SourceBorrowed
    BY <2>1 DEF SlotTypes, RingReasons, SourceBorrowed, CallsApart, Ownership, WorkerHolds,
        RingOrder, Running, Converted
  <2>3. FreedIsUnused
    BY <2>1 DEF RingReasons, FreedIsUnused, CallsApart, Ownership, WorkerHolds
  <2>4. NothingStranded
    <3> SUFFICES ASSUME exited, NEW i \in Slots PROVE state[i] \in {"EMPTY", "DONE"}
      BY DEF NothingStranded
    <3>1. wpc = "gone" /\ last /\ flying = NoSlot
      BY <2>1 DEF RingReasons, WorkerHolds
    <3>2. state[i] \notin {"QUEUED", "RUNNING", "SUBMITTED"}
      BY <2>1, <3>1 DEF RingReasons, WorkerHolds, LastRound, Running, Draining, Slots, NoSlot
    <3> QED BY <2>1, <3>2 DEF SlotTypes, SlotStates
  <2> QED BY <2>2, <2>3, <2>4 DEF RingInv
<1> QED BY <1>1, PipelineInvariance, PTL

-----------------------------------------------------------------------------
(* The pipeline implements SpiEvents. *)

\* Appending to a sequence of one frame.
LEMMA AppendToOne ==
  ASSUME NEW S, NEW a \in S, NEW b \in S
  PROVE  Append(<<a>>, b) = <<a, b>>
<1>1. <<a>> \in Seq(S) /\ <<a, b>> \in Seq(S)
  OBVIOUS
<1>2. Append(<<a>>, b) \in Seq(S) /\ Len(Append(<<a>>, b)) = 2
      /\ \A i \in 1..2 : Append(<<a>>, b)[i] = <<a, b>>[i]
  BY <1>1
<1> QED BY <1>1, <1>2, SeqEqual

\* The frame put into the ring is accepted (lv_aic_spi_pipeline_submit).
LEMMA EnqueueAccepts ==
  ASSUME RingSafe, Enqueue
  PROVE  Events!Accept(arg) /\ arg \in Frames
<1> USE DEF Slots, Other
<1>1. SlotTypes /\ RingReasons
  BY DEF RingSafe, TypeOK, SlotTypes
<1>2. Phase = "open" /\ UNCHANGED <<take, Phase, alarm>> /\ arg \in Frames \ Outstanding
  BY <1>1 DEF Enqueue, RingReasons, LastRound, NamesApart, Phase
<1>3. /\ state[put] = "EMPTY" /\ state' = [state EXCEPT ![put] = "QUEUED"]
      /\ cookie' = [cookie EXCEPT ![put] = arg] /\ released' = [released EXCEPT ![put] = FALSE]
  BY DEF Enqueue, SlotFree
<1>4. CASE state[take] = "EMPTY"
  <2>1. put = take /\ state[Other(take)] = "EMPTY"
    BY <1>1, <1>4 DEF RingReasons, RingOrder
  <2>2. HeldFrames = <<>> /\ HeldFrames' = <<arg>> /\ ReleasedCount = 0 /\ ReleasedCount' = 0
    BY <1>1, <1>2, <1>3, <1>4, <2>1 DEF SlotTypes, HeldFrames, ReleasedCount
  <2> QED BY <1>2, <2>2 DEF Events!Accept
<1>5. CASE state[take] # "EMPTY"
  <2>1. put = Other(take) /\ state[put] = "EMPTY"
    BY <1>1, <1>3, <1>5 DEF RingReasons, RingOrder
  <2>2. cookie[take] \in Frames /\ cookie[take] # arg
    BY <1>1, <1>2, <1>5 DEF SlotTypes, RingReasons, NamesApart, Outstanding
  <2>3. HeldFrames = <<cookie[take]>> /\ HeldFrames' = <<cookie[take], arg>>
    BY <1>1, <1>2, <1>3, <1>5, <2>1 DEF SlotTypes, HeldFrames
  <2>4. UNCHANGED ReleasedCount
    BY <1>1, <1>2, <1>3, <1>5, <2>1 DEF SlotTypes, ReleasedCount
  <2>5. HeldFrames' = Append(HeldFrames, arg)
    BY <1>2, <2>2, <2>3, AppendToOne
  <2> QED BY <1>2, <2>2, <2>3, <2>4, <2>5 DEF Events!Accept
<1> QED BY <1>2, <1>4, <1>5

\* The release event is that of the oldest unreleased frame (lv_aic_spi_pipeline_take).
LEMMA TakeReleaseReleases ==
  ASSUME RingSafe, TakeRelease
  PROVE  Events!ReleaseSource
<1> USE DEF Slots, Other
<1>1. SlotTypes /\ RingReasons
  BY DEF RingSafe, TypeOK, SlotTypes
<1>2. Phase # "closed" /\ UNCHANGED <<take, Phase, alarm, state, cookie>>
  BY DEF TakeRelease, Phase, userVars
<1>3. /\ state[release] \in Converted /\ ~released[release]
      /\ released' = [released EXCEPT ![release] = TRUE]
  BY DEF TakeRelease, MayRelease
<1>4. HeldFrames' = HeldFrames
  BY <1>2 DEF HeldFrames
<1>5. state[take] # "EMPTY"
  BY <1>1, <1>3 DEF SlotTypes, RingReasons, RingOrder, Converted
<1>6. CASE release = take
  <2>1. ~released[take] /\ ~released[Other(take)]
    BY <1>1, <1>3, <1>6 DEF RingReasons, RingOrder
  <2>2. ReleasedCount = 0 /\ ReleasedCount' = 1 /\ Len(HeldFrames) \in {1, 2}
    BY <1>1, <1>2, <1>3, <1>5, <1>6, <2>1 DEF SlotTypes, ReleasedCount, HeldFrames
  <2> QED BY <1>2, <1>4, <2>2 DEF Events!ReleaseSource
<1>7. CASE release # take
  <2>1. release = Other(take) /\ released[take] /\ state[Other(take)] # "EMPTY"
    BY <1>1, <1>3, <1>7 DEF SlotTypes, RingReasons, RingOrder, Converted
  <2>2. ReleasedCount = 1 /\ ReleasedCount' = 2 /\ Len(HeldFrames) = 2
    BY <1>1, <1>2, <1>3, <1>5, <2>1 DEF SlotTypes, ReleasedCount, HeldFrames
  <2> QED BY <1>2, <1>4, <2>2 DEF Events!ReleaseSource
<1> QED BY <1>6, <1>7

\* The completion event is that of the oldest frame, after its release and not
\* OK after a fault (lv_aic_spi_pipeline_take).
LEMMA TakeCompleteCompletes ==
  ASSUME RingSafe, TakeComplete, ~closed
  PROVE  \E r \in {"OK", "INVALID", "FAULT"} : Events!Completion(r)
<1> USE DEF Slots, Other
<1>1. SlotTypes /\ RingReasons
  BY DEF RingSafe, TypeOK, SlotTypes
<1>2. /\ state[take] = "DONE" /\ released[take] /\ take' = Other(take)
      /\ state' = [state EXCEPT ![take] = "EMPTY"] /\ cookie' = [cookie EXCEPT ![take] = Torn]
      /\ released' = [released EXCEPT ![take] = FALSE]
      /\ alarm' = (alarm \/ completed[take] = "FAULT")
  BY DEF TakeComplete, MayComplete
<1>3. Phase # "closed" /\ UNCHANGED Phase
  BY DEF TakeComplete, Phase
<1>4. completed[take] \in {"OK", "INVALID", "FAULT"} /\ (alarm => completed[take] # "OK")
  BY <1>1, <1>2 DEF SlotTypes, RingReasons, VerdictsInOrder, Results
<1>5. ReleasedCount \in {1, 2} /\ ReleasedCount' = ReleasedCount - 1
  BY <1>1, <1>2 DEF SlotTypes, RingReasons, RingOrder, Converted, ReleasedCount
<1>6. HeldFrames' = Tail(HeldFrames)
  BY <1>1, <1>2 DEF SlotTypes, RingReasons, RingOrder, HeldFrames
<1> QED BY <1>2, <1>3, <1>4, <1>5, <1>6 DEF Events!Completion

\* stop and close are the abstract ones, once each.
LEMMA StopCloseEvents ==
  ASSUME RingSafe, Stop \/ Close
  PROVE  Events!StopAdmission \/ Events!CloseHandle \/ UNCHANGED Events!eventVars
<1>1. RingReasons /\ take \in Slots
  BY DEF RingSafe, TypeOK
<1>2. UNCHANGED <<HeldFrames, ReleasedCount, alarm>> /\ ~closed
  BY DEF Stop, Close, HeldFrames, ReleasedCount, slotVars, userVars
<1>3. CASE Stop
  BY <1>2, <1>3 DEF Stop, Phase, Events!StopAdmission, Events!eventVars
<1>4. CASE Close
  <2>1. stopping /\ state[take] = "EMPTY"
    BY <1>1, <1>4 DEF Close, MayClose, RingReasons, WorkerHolds, LastRound
  <2> QED BY <1>2, <1>4, <2>1 DEF Close, Phase, HeldFrames, Events!CloseHandle
<1> QED BY <1>3, <1>4

\* A step that empties, fills or releases no slot is none of the promise's.
LEMMA EventsStutter ==
  ASSUME take \in Slots, UNCHANGED <<take, cookie, released, closed, stopping, alarm>>,
         \A i \in Slots : state'[i] = "EMPTY" <=> state[i] = "EMPTY"
  PROVE  UNCHANGED Events!eventVars
BY DEF Slots, Other, HeldFrames, ReleasedCount, Phase, Events!eventVars

\* Every step of the two threads is one of the promise, or none of it.
LEMMA EventsStep ==
  ASSUME RingSafe, [Next]_vars
  PROVE  [Events!EventsNext]_(Events!eventVars)
<1>1. SlotTypes /\ RingReasons
  BY DEF RingSafe, TypeOK, SlotTypes
<1>2. CASE Enqueue
  BY <1>2, EnqueueAccepts DEF Events!EventsNext
<1>3. CASE TakeRelease
  BY <1>3, TakeReleaseReleases DEF Events!EventsNext
<1>4. CASE TakeComplete
  <2>1. ~closed
    BY <1>1, <1>4 DEF TakeComplete, RingReasons, CallsApart
  <2> QED BY <1>4, <2>1, TakeCompleteCompletes DEF Events!EventsNext
<1>5. CASE Stop \/ Close
  BY <1>5, StopCloseEvents DEF Events!EventsNext
<1>6. CASE \/ \E f \in Frames : Submit(f)
           \/ SubmitBusy \/ Give \/ TakeLook \/ TakeNothing \/ SessionClose
           \/ Xfer(CallStep) \/ Xfer(DmaDone) \/ UNCHANGED vars
  <2>1. UNCHANGED <<slotVars, ringVars, alarm>>
    BY <1>6 DEF Submit, SubmitBusy, Give, TakeLook, TakeNothing, SessionClose, Xfer, vars,
        userVars
  <2> QED BY <1>1, <2>1, EventsStutter DEF SlotTypes, slotVars, ringVars
<1>7. CASE Worker
  <2>1. UNCHANGED <<released, cookie, ringVars, alarm>>
    BY <1>7 DEF Worker, SemTake, RunNext, ScanEnds, RunHalted, RunSubmit, RunReturn,
        RunReceipt, RunJudge,
        RunFailPrevious, RunPublish, CheckStop, DrainNothing, DrainCall, DrainReturn,
        DrainComplete, Exit,
        slotVars, userVars
  <2>2. \A i \in Slots : state'[i] = "EMPTY" <=> state[i] = "EMPTY"
    <3>1. CASE RunNext
      BY <1>1, <3>1 DEF SlotTypes, RunNext
    <3>2. CASE RunReceipt \/ RunFailPrevious
      BY <1>1, <3>2 DEF SlotTypes, RingReasons, WorkerHolds, RunReceipt, RunFailPrevious,
          Complete
    <3>3. CASE RunPublish
      BY <1>1, <3>3 DEF SlotTypes, RingReasons, WorkerHolds, RunPublish, Complete, Running
    <3>4. CASE DrainComplete
      BY <1>1, <3>4 DEF SlotTypes, RingReasons, WorkerHolds, DrainComplete, Complete, Draining
    <3>5. CASE ~(RunNext \/ RunReceipt \/ RunFailPrevious \/ RunPublish \/ DrainComplete)
      BY <1>7, <3>5 DEF Worker, SemTake, ScanEnds, RunHalted, RunSubmit, RunReturn, RunJudge,
         CheckStop, DrainNothing, DrainCall, DrainReturn, Exit, slotVars
    <3> QED BY <3>1, <3>2, <3>3, <3>4, <3>5
  <2> QED BY <1>1, <2>1, <2>2, EventsStutter DEF SlotTypes, ringVars
<1> QED BY <1>2, <1>3, <1>4, <1>5, <1>6, <1>7 DEF Next, Producer

\* The two threads keep what include/lv_aic_spi_pipeline.h promises the UI.
THEOREM EventsRefined == Spec => EventsHonoured
<1>1. Init => Events!EventsInit
  BY DEF Init, Events!EventsInit, HeldFrames, ReleasedCount, Phase, Slots
<1> QED BY <1>1, EventsStep, PipelineInvariance, PTL DEF Spec, EventsHonoured, Events!EventsSpec

-----------------------------------------------------------------------------
(* The transfer keeps its promises under the worker as well. *)

\* What the pipeline does to the transfer is a transfer's step.
LEMMA PipeIsAnyStep ==
  ASSUME RingSafe, [Next]_vars
  PROVE  [AnyStep]_xferVars
<1>1. CASE RunSubmit
  BY <1>1, RunSubmitNamed DEF RunSubmit, AnyStep
<1>2. CASE DrainCall \/ SessionClose \/ Xfer(CallStep) \/ Xfer(DmaDone) \/ RunReceipt
  BY <1>2 DEF DrainCall, SessionClose, Xfer, RunReceipt, AnyStep
<1>3. CASE Producer /\ ~SessionClose
  BY <1>3 DEF Producer, Submit, Enqueue, SubmitBusy, Give, TakeRelease, TakeLook, TakeComplete,
      TakeNothing, Stop, Close
<1>4. CASE Worker /\ ~RunSubmit /\ ~DrainCall /\ ~RunReceipt
  BY <1>4 DEF Worker, SemTake, RunNext, ScanEnds, RunHalted, RunReturn, RunJudge,
      RunFailPrevious,
      RunPublish, CheckStop, DrainNothing, DrainReturn, DrainComplete, Exit
<1>5. CASE UNCHANGED vars
  BY <1>5 DEF vars
<1> QED BY <1>1, <1>2, <1>3, <1>4, <1>5 DEF Next

\* While the worker converts the next frame the DMA's pixels stay those of one frame.
THEOREM PipelinePixelsStable == Spec => DmaPixelsStable
BY PipeIsAnyStep, PixelsStep, PipelineInvariance, PTL DEF Spec, DmaPixelsStable

\* The receipt run_next completes a frame on is given only once it was sent.
THEOREM PipelineReceiptsTrue == Spec => ReceiptIsTrue
BY PipeIsAnyStep, ReceiptStep, PipelineInvariance, PTL DEF Spec, ReceiptIsTrue

\* No step of the worker or the owner ends the quarantine of a transfer.
THEOREM PipelineQuarantine == Spec => QuarantineHolds
BY PipeIsAnyStep, QuarantineStep, PipelineInvariance, PTL DEF Spec, QuarantineHolds

=============================================================================
