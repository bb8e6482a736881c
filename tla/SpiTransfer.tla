----------------------------- MODULE SpiTransfer -----------------------------
(***************************************************************************)
(* One SPI frame transfer (common/lv_aic_spi_transfer.c): a caller submits *)
(* RGB565 frames; each is converted into a transmit buffer the transfer    *)
(* owns and handed to the bus DMA, which reads that buffer on its own time.*)
(* With a back buffer the next frame is converted while the DMA still      *)
(* reads the other one.  A transport or conversion failure latches a       *)
(* quarantine: whatever the DMA may still be doing, its memory stays owned.*)
(*                                                                         *)
(* The callbacks the code runs (transform, ops.start, ops.wait) and the    *)
(* DMA engine are modelled from their contract in                          *)
(* include/lv_aic_spi_transfer.h.  A call is a program counter: every      *)
(* point at which the DMA can move on its own is a state.                  *)
(***************************************************************************)
EXTENDS Naturals

CONSTANTS Frames,  \* the caller's frames
          Torn     \* pixels that belong to no single frame

ASSUME TornIsNoFrame == Torn \notin Frames

Buffers == {"tx", "back"}
Results == {"OK", "INVALID", "BUSY", "FAULT"}

VARIABLES
  back,       \* a second DMA buffer is configured (s->back)
  transform,  \* a conversion callback is configured (s->transform)
  pending,    \* a start was attempted and its end is not verified
  busy, fault, started,
  active,     \* the buffer of the latest start (s->active; s->tx before)
  freed,      \* lv_free(s) happened
  pc,         \* where the current call is: idle, wait, convert or start
  op,         \* the current call: submit, drain or close
  output,     \* submit's local: the buffer it converts into
  source,     \* submit's argument
  receipt,    \* *previous_completed
  result,     \* what the latest call returned (OK while a call runs)
  dma,        \* hardware: the buffer being read, or "none"
  content,    \* memory: whose pixels each buffer holds
  sent        \* the bus: frames whose transmission ended since their submit

callVars == <<pc, op, output, source, receipt, result>>
stateVars == <<back, transform, pending, busy, fault, started, active, freed>>
wireVars == <<dma, content, sent>>
xferVars == <<stateVars, callVars, wireVars>>

XferTypeOK ==
  /\ back \in BOOLEAN /\ transform \in BOOLEAN /\ pending \in BOOLEAN
  /\ busy \in BOOLEAN /\ fault \in BOOLEAN /\ started \in BOOLEAN
  /\ freed \in BOOLEAN /\ receipt \in BOOLEAN
  /\ active \in Buffers /\ output \in Buffers
  /\ pc \in {"idle", "wait", "convert", "start"}
  /\ op \in {"none", "submit", "drain", "close"}
  /\ source \in Frames \cup {Torn}
  /\ result \in Results
  /\ dma \in Buffers \cup {"none"}
  /\ content \in [Buffers -> Frames \cup {Torn}]
  /\ sent \subseteq Frames

\* A transfer just created, with its set-up calls still to come or done.
XferStart(b, t) ==
  /\ back = b /\ transform = t
  /\ pending = FALSE /\ busy = FALSE /\ fault = FALSE /\ started = FALSE
  /\ active = "tx" /\ freed = FALSE
  /\ pc = "idle" /\ op = "none" /\ output = "tx" /\ source = Torn
  /\ receipt = FALSE /\ result = "OK"
  /\ dma = "none" /\ content = [b1 \in Buffers |-> Torn] /\ sent = {}

XferInit == XferStart(FALSE, FALSE)

(***************************************************************************)
(* Slips the runs must notice (see the mutants in PROJECT.json).           *)
(***************************************************************************)
OutputAlwaysTx == "tx"
AfterConvertNoWait == "start"
WaitEndsByTimeout == TRUE
RefusedNever == FALSE

-----------------------------------------------------------------------------
(* Set-up calls: refused once a submit was attempted. *)

\* lv_aic_spi_transfer_set_transform
SetTransform ==
  /\ ~freed /\ ~busy /\ ~started /\ ~transform /\ ~fault
  /\ transform' = TRUE
  /\ UNCHANGED <<back, pending, busy, fault, started, active, freed, callVars, wireVars>>

\* lv_aic_spi_transfer_set_back_buffer, with a region disjoint from tx
SetBackBuffer ==
  /\ ~freed /\ ~busy /\ ~started /\ ~fault /\ ~back
  /\ back' = TRUE
  /\ UNCHANGED <<transform, pending, busy, fault, started, active, freed, callVars, wireVars>>

-----------------------------------------------------------------------------
(* The call: entry, then one action per callback it runs. *)

\* close frees the transfer only when its drain was OK.
FreesOn(how, r) == how = "close" /\ r = "OK"

\* The call returns r; its locals end with it.
Return(how, r) ==
  /\ pc' = "idle" /\ busy' = FALSE /\ result' = r
  /\ op' = "none" /\ output' = "tx" /\ source' = Torn
  /\ freed' = (freed \/ FreesOn(how, r))

OutputBuffer == IF back /\ pending /\ active = "tx" THEN "back" ELSE "tx"

\* Without a back buffer finish() comes before the conversion, with one after.
FirstStep == IF ~back /\ pending THEN "wait" ELSE "convert"
AfterConvert == IF back /\ pending THEN "wait" ELSE "start"

\* s->fault: every later submit and drain is refused.
Refused == fault

\* lv_aic_spi_transfer_submit_ex up to its first callback.
SubmitEnter(f) ==
  /\ ~freed /\ pc = "idle" /\ ~busy
  /\ receipt' = FALSE /\ started' = TRUE /\ sent' = sent \ {f}
  /\ IF Refused
       THEN Return("submit", "FAULT")
       ELSE /\ op' = "submit" /\ source' = f /\ output' = OutputBuffer
            /\ pc' = FirstStep /\ busy' = TRUE /\ result' = "OK"
            /\ UNCHANGED freed
  /\ UNCHANGED <<back, transform, pending, fault, active, dma, content>>

\* lv_aic_spi_transfer_drain, and _close, which starts with a drain.
DrainEnter(how) ==
  /\ ~freed /\ pc = "idle" /\ ~busy
  /\ \/ Refused /\ Return(how, "FAULT")
     \/ ~Refused /\ ~pending /\ Return(how, "OK")
     \/ /\ ~Refused /\ pending
        /\ op' = how /\ pc' = "wait" /\ busy' = TRUE /\ result' = "OK"
        /\ UNCHANGED <<freed, output, source>>
  /\ UNCHANGED <<back, transform, pending, fault, started, active, receipt, wireVars>>

\* ops.wait's contract: true only once the DMA can no longer read the buffer.
WaitEndsWhen == dma = "none"

\* finish(): ops.wait returned true.
WaitOk ==
  /\ pc = "wait" /\ WaitEndsWhen
  /\ pending' = FALSE
  /\ IF op = "submit"
       THEN /\ receipt' = TRUE
            /\ pc' = IF back THEN "start" ELSE "convert"
            /\ UNCHANGED <<busy, result, freed, op, output, source>>
       ELSE Return(op, "OK") /\ UNCHANGED receipt
  /\ UNCHANGED <<back, transform, fault, started, active, wireVars>>

\* finish(): ops.wait returned false; the DMA may still be running.
WaitFail ==
  /\ pc = "wait"
  /\ fault' = TRUE
  /\ Return(op, "FAULT")
  /\ UNCHANGED <<back, transform, pending, started, active, receipt, wireVars>>

\* While pc = "convert" the caller's thread reads source and writes output.
ConvertOk ==
  /\ pc = "convert"
  /\ content' = [content EXCEPT ![output] = source]
  /\ pc' = AfterConvert
  /\ UNCHANGED <<stateVars, op, output, source, receipt, result, dma, sent>>

\* INVALID leaves output as it was.  Only a transform reports BUSY or FAULT;
\* anything but OK, INVALID and BUSY latches the quarantine.
ConvertFail(r) ==
  /\ pc = "convert"
  /\ r \in IF transform THEN {"INVALID", "BUSY", "FAULT"} ELSE {"INVALID"}
  /\ content' = IF r = "INVALID" THEN content ELSE [content EXCEPT ![output] = Torn]
  /\ fault' = (fault \/ r = "FAULT")
  /\ Return(op, r)
  /\ UNCHANGED <<back, transform, pending, started, active, receipt, dma, sent>>

\* ops.start accepted the frame: the DMA owns output.
StartOk ==
  /\ pc = "start"
  /\ active' = output /\ pending' = TRUE /\ dma' = output
  /\ Return(op, "OK")
  /\ UNCHANGED <<back, transform, fault, started, receipt, content, sent>>

\* A failed submission may have started the DMA all the same.
StartFail ==
  /\ pc = "start"
  /\ active' = output /\ pending' = TRUE /\ dma' \in {dma, output}
  /\ fault' = TRUE
  /\ Return(op, "FAULT")
  /\ UNCHANGED <<back, transform, started, receipt, content, sent>>

\* The DMA has read its buffer to the end.
DmaDone ==
  /\ dma # "none"
  /\ dma' = "none"
  /\ sent' = sent \cup ({content[dma]} \cap Frames)
  /\ UNCHANGED <<stateVars, callVars, content>>

CallStep ==
  \/ WaitOk \/ WaitFail \/ ConvertOk \/ StartOk \/ StartFail
  \/ \E r \in Results : ConvertFail(r)

\* A frame's name stands for one submission: it is used again only when no
\* buffer holds the earlier one.
FreshFrames == Frames \ {content[b] : b \in Buffers}

XferNext ==
  \/ SetTransform
  \/ SetBackBuffer
  \/ \E f \in FreshFrames : SubmitEnter(f)
  \/ DrainEnter("drain")
  \/ DrainEnter("close")
  \/ CallStep
  \/ DmaDone

XferSpec == XferInit /\ [][XferNext]_xferVars

-----------------------------------------------------------------------------
(* Properties *)

\* What the DMA is reading is never written: the pixels on the wire are those
\* of one frame (lv_aic_spi_transfer_submit_ex picks the idle buffer).
DmaPixelsStable == [][dma # "none" => content'[dma] = content[dma]]_xferVars

\* The caller's thread is never inside a conversion into the DMA's buffer, and
\* never in ops.start (panel set-up commands included) while the DMA runs.
BufferHandover ==
  /\ pc = "convert" => output # dma
  /\ pc = "start" => dma = "none"

\* A receipt for the previous frame is given only when that frame, which the
\* active buffer holds, went over the bus.
ReceiptIsTrue ==
  [][receipt' /\ ~receipt => content[active] \in sent]_xferVars

\* Metadata is freed only when no DMA can still read the borrowed buffers.
FreedIsQuiet == freed => dma = "none" /\ ~pending

\* Once faulted: no buffer is written, no DMA starts, nothing is freed.
QuarantineHolds ==
  [][fault => fault' /\ content' = content /\ dma' \in {dma, "none"} /\ freed' = freed]_xferVars

-----------------------------------------------------------------------------
(* What makes them true in every state (proved in SpiProofs). *)

\* A DMA runs only on the buffer of an unverified start, and a call is where
\* its guards put it: no call runs on in a quarantine or after the free.
Ownership ==
  /\ busy <=> pc # "idle"
  /\ dma # "none" => pending /\ dma = active
  /\ pc # "idle" => ~fault /\ ~freed
  /\ pc = "wait" => pending
  /\ pc = "start" => ~pending
  /\ pc = "convert" /\ pending => back /\ output # active
  /\ pc = "wait" /\ back /\ op = "submit" => output # active
  /\ pc \in {"convert", "start"} => op = "submit"
  /\ freed => ~pending

XferSafe == XferTypeOK /\ Ownership

\* The buffers hold what is going out: the frame under way in its whole, and
\* the active one until it is on the bus.
Pixels ==
  /\ pc # "idle" /\ op = "submit" => source \in Frames
  /\ pc = "start" \/ (pc = "wait" /\ back /\ op = "submit") => content[output] \in Frames
  /\ pending /\ ~fault => content[active] \in Frames
  /\ pending /\ ~fault /\ dma = "none" => content[active] \in sent

XferInv == XferSafe /\ Pixels
=============================================================================
