----------------------------- MODULE SpiPipeline -----------------------------
(***************************************************************************)
(* The two-slot SPI pipeline (port/lv_aic_spi_pipeline.c): the UI thread   *)
(* puts frames into a ring of two slots and consumes, per frame, a         *)
(* SOURCE_RELEASED and a COMPLETED event; one worker thread runs the       *)
(* transfer of module SpiTransfer, so that the DMA of one frame overlaps   *)
(* the conversion of the next.  The threads share the slots' states, the   *)
(* three flags and the wake semaphore, all accessed atomically; each load  *)
(* or store another thread can see is an action of its own.  A slot's      *)
(* other fields are written before the release store that publishes them   *)
(* and are part of that action.                                            *)
(*                                                                         *)
(* Calls that are refused and change nothing (submit after stop or fault,  *)
(* take with no event, close too early) are stuttering steps.              *)
(***************************************************************************)
EXTENDS SpiTransfer, Sequences

CONSTANT MaxWake  \* bound on the semaphore's count (the kernel's is 65535)

ASSUME MaxWakeIsPositive == MaxWake \in Nat \ {0}

Slots == {0, 1}
NoSlot == 2
Other(i) == 1 - i
SlotStates == {"EMPTY", "QUEUED", "RUNNING", "SUBMITTED", "DONE"}
Converted == {"SUBMITTED", "DONE"}      \* state>=SUBMITTED

VARIABLES
  \* slot_t
  state,       \* Slots -> SlotStates
  released,    \* Slots -> BOOLEAN
  cookie,      \* Slots -> Frames: the frame and the cookie that names it
  submitted,   \* Slots -> Results
  completed,   \* Slots -> Results
  \* struct lv_aic_spi_pipeline
  put, release, take,           \* the producer's next slots
  run,                          \* the worker's next slot
  flying,                       \* p->active: the slot whose DMA is out, or NoSlot
  stopping, exited, halted,     \* halted is p->fault
  wake,                         \* the semaphore's count
  closed,                       \* lv_free(p) happened
  \* the worker's locals
  wpc, cur, tries, ran, woke, last,
  \* the UI thread's program counter and argument, and what it consumed
  upc, arg,
  alarm    \* history: it has consumed a FAULT

slotVars == <<state, released, cookie, submitted, completed>>
ringVars == <<put, release, take, closed, stopping>>
flagVars == <<exited, halted>>
workVars == <<run, flying, wpc, cur, tries, ran, woke, last>>
userVars == <<upc, arg, alarm>>
vars == <<slotVars, ringVars, flagVars, wake, workVars, userVars, xferVars>>

TypeOK ==
  /\ XferTypeOK
  /\ state \in [Slots -> SlotStates]
  /\ released \in [Slots -> BOOLEAN]
  /\ cookie \in [Slots -> Frames \cup {Torn}]
  /\ submitted \in [Slots -> Results]
  /\ completed \in [Slots -> Results]
  /\ {put, release, take, run, cur} \subseteq Slots
  /\ flying \in Slots \cup {NoSlot}
  /\ {stopping, exited, halted, closed, ran, woke, last, alarm} \subseteq BOOLEAN
  /\ wake \in 0..MaxWake
  /\ tries \in 0..2
  /\ wpc \in {"wait", "scan", "submit", "call", "receipt", "judge", "failprev",
              "publish", "check", "drain", "drained", "halt", "finish", "exit", "gone"}
  /\ upc \in {"idle", "enqueue", "give", "take"}
  /\ arg \in Frames \cup {Torn}

\* lv_aic_spi_pipeline_create on a session whose set-up calls are done.
Init ==
  /\ \E b, t \in BOOLEAN : XferStart(b, t)
  /\ state = [i \in Slots |-> "EMPTY"] /\ released = [i \in Slots |-> FALSE]
  /\ cookie = [i \in Slots |-> Torn]
  /\ submitted = [i \in Slots |-> "OK"] /\ completed = [i \in Slots |-> "OK"]
  /\ put = 0 /\ release = 0 /\ take = 0 /\ run = 0 /\ flying = NoSlot
  /\ stopping = FALSE /\ exited = FALSE /\ halted = FALSE /\ closed = FALSE
  /\ wake = 0
  /\ wpc = "wait" /\ cur = 0 /\ tries = 0 /\ ran = FALSE /\ woke = FALSE /\ last = FALSE
  /\ upc = "idle" /\ arg = Torn /\ alarm = FALSE

-----------------------------------------------------------------------------
(* Slips the runs must notice (see the mutants in PROJECT.json). *)

MayCompleteEarly(i) == state[i] \in Converted /\ released[i]
AfterIdleNoDrain == "wait"
LastPhaseSkipsScan == "drain"
AfterDrainLoops == "wait"

-----------------------------------------------------------------------------
(* The UI thread *)

Outstanding == {cookie[i] : i \in {j \in Slots : state[j] # "EMPTY"}}

\* lv_aic_spi_pipeline_submit up to its load of p->fault.  The caller names
\* each frame by a cookie not in use, as the display does with its job records.
Submit(f) ==
  /\ upc = "idle" /\ ~closed /\ ~stopping /\ ~halted
  /\ f \notin Outstanding
  /\ upc' = "enqueue" /\ arg' = f
  /\ UNCHANGED <<slotVars, ringVars, flagVars, wake, workVars, alarm, xferVars>>

SlotFree(i) == state[i] = "EMPTY"

\* ... the rest of submit: fill slots[put] and publish it.
Enqueue ==
  /\ upc = "enqueue" /\ SlotFree(put)
  /\ cookie' = [cookie EXCEPT ![put] = arg]
  /\ released' = [released EXCEPT ![put] = FALSE]
  /\ state' = [state EXCEPT ![put] = "QUEUED"]
  /\ put' = Other(put)
  /\ upc' = "give" /\ arg' = Torn
  /\ UNCHANGED <<submitted, completed, release, take, closed, stopping, flagVars, wake>>
  /\ UNCHANGED <<workVars, alarm, xferVars>>

\* ... or LV_AIC_SPI_BUSY: both slots are held.
SubmitBusy ==
  /\ upc = "enqueue" /\ ~SlotFree(put)
  /\ upc' = "idle" /\ arg' = Torn
  /\ UNCHANGED <<slotVars, ringVars, flagVars, wake, workVars, alarm, xferVars>>

\* aicos_sem_give, at the end of submit and stop.  It may fail.
Give ==
  /\ upc = "give" /\ upc' = "idle"
  /\ wake' \in {wake} \cup ({wake + 1} \cap 0..MaxWake)
  /\ UNCHANGED <<slotVars, ringVars, flagVars, workVars, arg, alarm, xferVars>>

MayRelease(i) == state[i] \in Converted /\ ~released[i]
MayComplete(i) == state[i] = "DONE" /\ released[i]

\* lv_aic_spi_pipeline_take: the release event of slots[release] ...
TakeRelease ==
  /\ upc = "idle" /\ ~closed /\ MayRelease(release)
  /\ released' = [released EXCEPT ![release] = TRUE]
  /\ release' = Other(release)
  /\ UNCHANGED <<state, cookie, submitted, completed, put, take, closed, stopping>>
  /\ UNCHANGED <<flagVars, wake, workVars, userVars, xferVars>>

\* ... or, if that slot had none when it was looked at, ...
TakeLook ==
  /\ upc = "idle" /\ ~closed /\ ~MayRelease(release)
  /\ upc' = "take"
  /\ UNCHANGED <<slotVars, ringVars, flagVars, wake, workVars, arg, alarm, xferVars>>

\* ... the completion event of slots[take], which empties the slot (the model
\* clears its fields: the next submit writes them before they are read).
TakeComplete ==
  /\ upc = "take" /\ MayComplete(take)
  /\ alarm' = (alarm \/ completed[take] = "FAULT")
  /\ state' = [state EXCEPT ![take] = "EMPTY"]
  /\ released' = [released EXCEPT ![take] = FALSE]
  /\ cookie' = [cookie EXCEPT ![take] = Torn]
  /\ submitted' = [submitted EXCEPT ![take] = "OK"]
  /\ completed' = [completed EXCEPT ![take] = "OK"]
  /\ take' = Other(take)
  /\ upc' = "idle"
  /\ UNCHANGED <<put, release, closed, stopping>>
  /\ UNCHANGED <<flagVars, wake, workVars, arg, xferVars>>

TakeNothing ==
  /\ upc = "take" /\ ~MayComplete(take)
  /\ upc' = "idle"
  /\ UNCHANGED <<slotVars, ringVars, flagVars, wake, workVars, arg, alarm, xferVars>>

\* lv_aic_spi_pipeline_stop
Stop ==
  /\ upc = "idle" /\ ~closed
  /\ stopping' = TRUE
  /\ upc' = "give"
  /\ UNCHANGED <<slotVars, put, release, take, closed, flagVars, wake, workVars, arg, alarm, xferVars>>

MayClose == exited /\ \A i \in Slots : state[i] = "EMPTY"

\* lv_aic_spi_pipeline_close
Close ==
  /\ upc = "idle" /\ ~closed /\ MayClose
  /\ closed' = TRUE
  /\ UNCHANGED <<slotVars, put, release, take, stopping, flagVars, wake, workVars, userVars, xferVars>>

\* Only then may the owner call the session itself (lv_aic_spi_session_close).
SessionClose ==
  /\ closed /\ upc = "idle" /\ DrainEnter("close")
  /\ UNCHANGED <<slotVars, ringVars, flagVars, wake, workVars, userVars>>

-----------------------------------------------------------------------------
(* The worker thread: worker_entry, run_next, drain *)

\* aicos_sem_take(p->wake,10): a token, or 10 ms without one.
SemTake ==
  /\ wpc = "wait"
  /\ wake' = IF wake > 0 THEN wake - 1 ELSE 0
  /\ woke' = (wake > 0)
  /\ wpc' = "scan"
  /\ UNCHANGED <<slotVars, ringVars, flagVars, run, flying, cur, tries, ran, last>>
  /\ UNCHANGED <<userVars, xferVars>>

\* run_next finds slots[run] queued and takes it.
RunNext ==
  /\ wpc = "scan" /\ tries < 2 /\ state[run] = "QUEUED"
  /\ state' = [state EXCEPT ![run] = "RUNNING"]
  /\ cur' = run /\ run' = Other(run)
  /\ wpc' = "submit"
  /\ UNCHANGED <<released, cookie, submitted, completed, ringVars, flagVars, wake>>
  /\ UNCHANGED <<flying, tries, ran, woke, last, userVars, xferVars>>

\* The loop over run_next ends: two jobs ran or none is queued.
ScanEnds ==
  /\ wpc = "scan" /\ (tries = 2 \/ state[run] # "QUEUED")
  /\ wpc' = IF last THEN "drain" ELSE "check"
  /\ UNCHANGED <<slotVars, ringVars, flagVars, wake, run, flying, cur, tries, ran, woke, last>>
  /\ UNCHANGED <<userVars, xferVars>>

\* After a fault the session is not called any more.
SessionUsable == ~halted

RunHalted ==
  /\ wpc = "submit" /\ ~SessionUsable
  /\ submitted' = [submitted EXCEPT ![cur] = "FAULT"]
  /\ wpc' = "judge"
  /\ UNCHANGED <<state, released, cookie, completed, ringVars, flagVars, wake>>
  /\ UNCHANGED <<run, flying, cur, tries, ran, woke, last, userVars, xferVars>>

\* lv_aic_spi_session_submit_ex
RunSubmit ==
  /\ wpc = "submit" /\ SessionUsable
  /\ SubmitEnter(cookie[cur])
  /\ wpc' = "call"
  /\ UNCHANGED <<slotVars, ringVars, flagVars, wake, run, flying, cur, tries, ran, woke, last, userVars>>

RunReturn ==
  /\ wpc = "call" /\ pc = "idle"
  /\ submitted' = [submitted EXCEPT ![cur] = result]
  /\ wpc' = "receipt"
  /\ UNCHANGED <<state, released, cookie, completed, ringVars, flagVars, wake>>
  /\ UNCHANGED <<run, flying, cur, tries, ran, woke, last, userVars, xferVars>>

\* complete(): publish a verdict.
Complete(i, r) ==
  /\ completed' = [completed EXCEPT ![i] = r]
  /\ state' = [state EXCEPT ![i] = "DONE"]

Receipt == receipt

\* The receipt completes the previous frame.
RunReceipt ==
  /\ wpc = "receipt"
  /\ IF flying # NoSlot /\ Receipt
       THEN Complete(flying, "OK") /\ flying' = NoSlot
       ELSE UNCHANGED <<state, completed, flying>>
  /\ wpc' = "judge"
  /\ receipt' = FALSE     \* previous_completed is not read again
  /\ UNCHANGED <<released, cookie, submitted, ringVars, flagVars, wake>>
  /\ UNCHANGED <<run, cur, tries, ran, woke, last, userVars>>
  /\ UNCHANGED <<stateVars, pc, op, output, source, result, wireVars>>

\* FAULT, BUSY, or OK without the receipt that exclusive use implies.
Halts(r) == r \in {"FAULT", "BUSY"} \/ (r = "OK" /\ flying # NoSlot)

RunJudge ==
  /\ wpc = "judge"
  /\ IF Halts(submitted[cur])
       THEN /\ submitted' = [submitted EXCEPT ![cur] = "FAULT"]
            /\ halted' = TRUE
            /\ wpc' = "failprev"
       ELSE wpc' = "publish" /\ UNCHANGED <<submitted, halted>>
  /\ UNCHANGED <<state, released, cookie, completed, ringVars, exited, wake>>
  /\ UNCHANGED <<run, flying, cur, tries, ran, woke, last, userVars, xferVars>>

PrevVerdict == "FAULT"

RunFailPrevious ==
  /\ wpc = "failprev"
  /\ IF flying # NoSlot
       THEN Complete(flying, PrevVerdict) /\ flying' = NoSlot
       ELSE UNCHANGED <<state, completed, flying>>
  /\ wpc' = "publish"
  /\ UNCHANGED <<released, cookie, submitted, ringVars, flagVars, wake>>
  /\ UNCHANGED <<run, cur, tries, ran, woke, last, userVars, xferVars>>

\* The end of run_next: the frame is out, or done already.
RunPublish ==
  /\ wpc = "publish"
  /\ IF submitted[cur] = "OK"
       THEN /\ flying' = cur
            /\ state' = [state EXCEPT ![cur] = "SUBMITTED"]
            /\ UNCHANGED completed
       ELSE Complete(cur, submitted[cur]) /\ UNCHANGED flying
  /\ ran' = TRUE /\ tries' = tries + 1 /\ cur' = 0
  /\ wpc' = "scan"
  /\ UNCHANGED <<released, cookie, submitted, ringVars, flagVars, wake>>
  /\ UNCHANGED <<run, woke, last, userVars, xferVars>>

\* What follows the loop: a last round once stopping is seen; a drain only
\* when nothing ran and the wait had timed out.
AfterIdle == IF ~ran /\ ~woke THEN "drain" ELSE "wait"
LastPhase == "scan"

CheckStop ==
  /\ wpc = "check"
  /\ IF stopping
       THEN wpc' = LastPhase /\ last' = TRUE
       ELSE wpc' = AfterIdle /\ UNCHANGED last
  /\ tries' = 0 /\ ran' = FALSE /\ woke' = FALSE
  /\ UNCHANGED <<slotVars, ringVars, flagVars, wake, run, flying, cur>>
  /\ UNCHANGED <<userVars, xferVars>>

AfterDrain == IF last THEN "exit" ELSE "wait"

DrainNothing ==
  /\ wpc = "drain" /\ flying = NoSlot
  /\ wpc' = AfterDrain
  /\ UNCHANGED <<slotVars, ringVars, flagVars, wake, run, flying, cur, tries, ran, woke, last>>
  /\ UNCHANGED <<userVars, xferVars>>

\* lv_aic_spi_session_drain for the frame that is out
DrainCall ==
  /\ wpc = "drain" /\ flying # NoSlot
  /\ DrainEnter("drain")
  /\ cur' = flying /\ flying' = NoSlot
  /\ wpc' = "drained"
  /\ UNCHANGED <<slotVars, ringVars, flagVars, wake, run, tries, ran, woke, last, userVars>>

DrainReturn ==
  /\ wpc = "drained" /\ pc = "idle"
  /\ IF result = "OK" THEN UNCHANGED halted ELSE halted' = TRUE
  /\ wpc' = IF result = "OK" THEN "finish" ELSE "halt"
  /\ UNCHANGED <<slotVars, ringVars, exited, wake, run, flying, cur, tries, ran, woke, last>>
  /\ UNCHANGED <<userVars, xferVars>>

DrainComplete ==
  /\ wpc \in {"finish", "halt"}
  /\ Complete(cur, IF wpc = "finish" THEN "OK" ELSE "FAULT")
  /\ wpc' = AfterDrain /\ cur' = 0
  /\ UNCHANGED <<released, cookie, submitted, ringVars, flagVars, wake>>
  /\ UNCHANGED <<run, flying, tries, ran, woke, last, userVars, xferVars>>

\* p->exited is the worker's last access.
Exit ==
  /\ wpc = "exit"
  /\ exited' = TRUE
  /\ wpc' = "gone"
  /\ UNCHANGED <<slotVars, ringVars, halted, wake, run, flying, cur, tries, ran, woke, last>>
  /\ UNCHANGED <<userVars, xferVars>>

-----------------------------------------------------------------------------
Xfer(A) == A /\ UNCHANGED <<slotVars, ringVars, flagVars, wake, workVars, userVars>>

Producer ==
  \/ \E f \in Frames : Submit(f)
  \/ Enqueue \/ SubmitBusy \/ Give
  \/ TakeRelease \/ TakeLook \/ TakeComplete \/ TakeNothing
  \/ Stop \/ Close \/ SessionClose

Worker ==
  \/ SemTake \/ RunNext \/ ScanEnds \/ RunHalted \/ RunSubmit \/ RunReturn
  \/ RunReceipt \/ RunJudge \/ RunFailPrevious \/ RunPublish
  \/ CheckStop \/ DrainNothing \/ DrainCall \/ DrainReturn \/ DrainComplete \/ Exit

Next == Producer \/ Worker \/ Xfer(CallStep) \/ Xfer(DmaDone)

Spec == Init /\ [][Next]_vars

\* The worker is scheduled and the driver's wait and start return; nothing is
\* asked of the UI thread or of the DMA.
Fairness == WF_vars(Worker) /\ WF_vars(Xfer(CallStep))


-----------------------------------------------------------------------------
(* Properties *)

\* The worker reads a source only while its frame is running and unreleased:
\* SOURCE_RELEASED makes reuse of the source safe.
SourceBorrowed ==
  pc = "convert" =>
    \E i \in Slots : state[i] = "RUNNING" /\ cookie[i] = source /\ ~released[i]

\* COMPLETED/OK means the frame went over the bus to the end.
CompletedMeansSent ==
  \A i \in Slots : state[i] = "DONE" /\ completed[i] = "OK" => cookie[i] \in sent

\* No accepted frame is left behind by a worker that has gone, whatever the
\* order of the last submit, the stop and the worker's scan.
NothingStranded == exited => \A i \in Slots : state[i] \in {"EMPTY", "DONE"}

\* The pipeline is freed after the worker's last access, and the session's
\* buffers after the DMA's.
FreedIsUnused ==
  /\ closed => wpc = "gone" /\ upc \in {"idle"}
  /\ freed => closed /\ dma = "none"

-----------------------------------------------------------------------------
(* What makes them true in every state (proved in SpiProofs). *)

Running == {"submit", "call", "receipt", "judge", "failprev", "publish"}  \* inside run_next
Draining == {"drained", "finish", "halt"}                                 \* inside drain

\* The slots are taken up, put on the bus, released and emptied in submission
\* order, and the four indices say how far each of these has come.
RingOrder ==
  /\ state[take] = "EMPTY" => state[Other(take)] = "EMPTY"
  /\ state[take] \in {"QUEUED", "RUNNING"} => state[Other(take)] \in {"EMPTY", "QUEUED"}
  /\ put = IF state[take] # "EMPTY" /\ state[Other(take)] = "EMPTY" THEN Other(take) ELSE take
  /\ run = IF state[take] \notin {"EMPTY", "QUEUED"} /\ state[Other(take)] \in {"EMPTY", "QUEUED"}
             THEN Other(take) ELSE take
  /\ release = IF released[take] /\ ~released[Other(take)] THEN Other(take) ELSE take
  /\ released[Other(take)] => released[take]
  /\ \A i \in Slots : released[i] => state[i] \in Converted

\* The worker's place in its code says whose slots are its own.
WorkerHolds ==
  /\ \A i \in Slots : state[i] = "RUNNING" <=> wpc \in Running /\ i = cur
  /\ \A i \in Slots : state[i] = "SUBMITTED" <=> i = flying \/ (wpc \in Draining /\ i = cur)
  /\ wpc \in Draining \cup {"exit", "gone"} => flying = NoSlot
  /\ wpc \in {"exit", "gone"} => last
  /\ exited <=> wpc = "gone"

\* The frames held have names of their own, the one about to be held included.
NamesApart ==
  /\ \A i \in Slots : state[i] # "EMPTY" => cookie[i] \in Frames
  /\ \A i \in Slots : state[i] # "EMPTY" /\ state[Other(i)] # "EMPTY" => cookie[i] # cookie[Other(i)]
  /\ upc = "enqueue" => arg \in Frames \ Outstanding

\* Once stopping is seen nothing is added and two more jobs empty the queue.
LastRound ==
  /\ last => stopping /\ wpc \notin {"wait", "check"}
  /\ stopping \/ closed => upc # "enqueue"
  /\ wpc \in Running => tries < 2
  /\ last /\ tries = 1 => \E i \in Slots : state[i] # "QUEUED"
  /\ last /\ (tries = 2 \/ (tries = 1 /\ wpc \in Running) \/ wpc \notin Running \cup {"scan"})
       => \A i \in Slots : state[i] # "QUEUED"

\* A call into the session is the worker's, or the owner's after the close.
CallsApart ==
  /\ pc # "idle" =>
       \/ wpc = "call" /\ op = "submit" /\ source = cookie[cur]
       \/ wpc = "drained" /\ op = "drain"
       \/ closed /\ op = "close"
  /\ wpc = "call" /\ (pc = "start" \/ (pc = "wait" /\ back)) => content[output] = source
  /\ freed => closed
  /\ closed => exited /\ upc = "idle"

\* The frame that is out is the one in the active buffer until it is receipted ...
FlightHolds ==
  /\ flying # NoSlot /\ wpc # "failprev" =>
       IF wpc \in {"call", "receipt"} /\ receipt
         THEN cookie[flying] \in sent
         ELSE pending /\ content[active] = cookie[flying]
  /\ wpc = "drained" =>
       IF pc = "idle" THEN result = "OK" => cookie[cur] \in sent
                      ELSE pending /\ content[active] = cookie[cur]
  /\ wpc = "finish" => cookie[cur] \in sent

\* ... an accepted one takes its place, ...
StartHolds ==
  /\ wpc = "call" /\ pc = "idle" /\ result = "OK" =>
       pending /\ content[active] = cookie[cur] /\ (flying # NoSlot => receipt)
  /\ wpc = "receipt" /\ submitted[cur] = "OK" =>
       pending /\ content[active] = cookie[cur] /\ (flying # NoSlot => receipt)
  /\ wpc \in {"judge", "publish"} /\ submitted[cur] = "OK" =>
       pending /\ content[active] = cookie[cur] /\ flying = NoSlot

\* ... and no other is out: a start without a verified end has its slot, or
\* the worker is about to learn of it, or the pipeline is halted.
PendingIsKnown ==
  pending /\ ~halted =>
    \/ flying # NoSlot /\ (wpc \in {"call", "receipt"} => ~receipt)
    \/ wpc = "call" /\ pc = "idle" /\ result \in {"OK", "FAULT"}
    \/ wpc \in {"receipt", "judge"} /\ submitted[cur] \in {"OK", "FAULT"}
    \/ wpc = "publish" /\ submitted[cur] = "OK"
    \/ wpc = "drained" /\ (pc = "idle" => result # "OK")

\* A fault halts the pipeline before anyone sees it, and after that no slot
\* ends in OK: a later frame's OK implies an earlier one's verdict was no fault.
VerdictsInOrder ==
  /\ halted =>
       /\ flying = NoSlot \/ wpc = "failprev"
       /\ wpc \notin {"call", "receipt", "drained", "finish"}
       /\ wpc \in {"judge", "failprev", "publish"} => submitted[cur] = "FAULT"
  /\ wpc \in {"failprev", "halt"} => halted
  /\ wpc = "publish" => submitted[cur] # "BUSY" /\ (submitted[cur] = "FAULT" => halted)
  /\ \A i \in Slots : state[i] = "DONE" =>
       completed[i] # "BUSY" /\ (completed[i] = "FAULT" => halted)
  /\ alarm => halted /\ \A i \in Slots : state[i] = "DONE" => completed[i] # "OK"
  /\ state[Other(take)] = "DONE" /\ completed[Other(take)] = "OK" =>
       state[take] = "DONE" /\ completed[take] # "FAULT"

RingReasons ==
  /\ RingOrder /\ WorkerHolds /\ NamesApart /\ LastRound /\ CallsApart
  /\ FlightHolds /\ StartHolds /\ PendingIsKnown /\ VerdictsInOrder /\ CompletedMeansSent

RingSafe == TypeOK /\ RingReasons

-----------------------------------------------------------------------------
(* Together, and what comes of it in time. *)

\* Whoever touches a slot, a source or a buffer has the right to, and each frame
\* gets its true verdict: the slots are as the two threads leave them, a source is
\* read only while it is borrowed, nothing is freed under the worker or the DMA,
\* OK is said of what was sent, and the worker leaves nothing behind.
RingInv == RingSafe /\ SourceBorrowed /\ FreedIsUnused /\ NothingStranded

\* Every accepted frame gets a verdict, also the last one before an idle time,
\* and even if every wake-up is lost.
EveryFrameEnds == \A i \in Slots : state[i] = "QUEUED" ~> state[i] = "DONE"

\* A stop ends the worker.
StopEndsWorker == stopping ~> exited

-----------------------------------------------------------------------------
(* The pipeline implements SpiEvents. *)

\* The slots in submission order: take is the oldest one held.
HeldFrames ==
  IF state[take] = "EMPTY" THEN <<>>
  ELSE IF state[Other(take)] = "EMPTY" THEN <<cookie[take]>>
  ELSE <<cookie[take], cookie[Other(take)]>>

ReleasedCount ==
  IF state[take] = "EMPTY" \/ ~released[take] THEN 0
  ELSE IF state[Other(take)] = "EMPTY" \/ ~released[Other(take)] THEN 1
  ELSE 2

Phase == IF closed THEN "closed" ELSE IF stopping THEN "stopping" ELSE "open"

Events == INSTANCE SpiEvents WITH
  held <- HeldFrames, nrel <- ReleasedCount, phase <- Phase

EventsHonoured == Events!EventsSpec
=============================================================================
