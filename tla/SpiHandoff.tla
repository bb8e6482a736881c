----------------------------- MODULE SpiHandoff -----------------------------
(***************************************************************************)
(* The unpipelined SPI transport (port/lv_aic_spi_handoff.c and            *)
(* lv_aic_spi_worker.c): one slot between the UI thread, which puts a      *)
(* frame and takes its verdict, and a worker that runs the session on it.  *)
(* Every load, store or exchange of the slot's state and of the two flags  *)
(* that the other thread can see is an action of its own.  What only the   *)
(* UI thread reads and writes (`stopped`, `fault`) goes with its action.   *)
(*                                                                         *)
(* The wake-up semaphore is left out: the worker's wait ends after ten     *)
(* milliseconds anyway, so a wake-up changes only when it looks, which the *)
(* interleaving covers, and a lost one is no other case.  A session used   *)
(* by one thread answers no BUSY (module SpiTransfer).                     *)
(***************************************************************************)
VARIABLES
  slot,       \* h->state
  verdict,    \* h->result
  latched,    \* h->fault
  stopping,   \* h->stopped and w->stopping, set one after the other
  worker,     \* the worker's place; gone: w->exited is set
  final       \* it is in the handoff_run that follows a stop it has seen

handoffVars == <<slot, verdict, latched, stopping, worker, final>>
userSide == <<latched, stopping>>

SlotStates == {"EMPTY", "QUEUED", "RUNNING", "DONE"}
Places == {"wait", "run", "submit", "drain", "publish", "ran", "gone"}
Exited == worker = "gone"

HandoffTypeOK ==
  /\ slot \in SlotStates /\ verdict \in {"OK", "INVALID", "FAULT"}
  /\ {latched, stopping, final} \subseteq BOOLEAN /\ worker \in Places

HandoffInit ==
  /\ slot = "EMPTY" /\ verdict = "OK" /\ latched = FALSE /\ stopping = FALSE
  /\ worker = "wait" /\ final = FALSE

-----------------------------------------------------------------------------
(* The UI thread *)

MayPut == ~latched /\ ~stopping /\ slot = "EMPTY"
PutRefusal == IF latched THEN "FAULT" ELSE IF stopping THEN "INVALID" ELSE "BUSY"

Put == MayPut /\ slot' = "QUEUED" /\ UNCHANGED <<verdict, userSide, worker, final>>

Take ==
  /\ slot = "DONE" /\ slot' = "EMPTY"
  /\ latched' = (latched \/ verdict = "FAULT")
  /\ UNCHANGED <<verdict, stopping, worker, final>>

StopWorker == stopping' = TRUE /\ UNCHANGED <<slot, verdict, latched, worker, final>>

MayCloseWorker == Exited /\ stopping /\ slot = "EMPTY"

-----------------------------------------------------------------------------
(* The worker *)

Step(from, to) == worker = from /\ worker' = to /\ UNCHANGED userSide

\* aicos_sem_take(w->wake, 10)
Wakes == Step("wait", "run") /\ UNCHANGED <<slot, verdict, final>>

\* lv_aic_spi_handoff_run: the exchange, the session's two calls, the verdict.
ClaimJob ==
  /\ slot = "QUEUED" /\ slot' = "RUNNING"
  /\ Step("run", "submit") /\ UNCHANGED <<verdict, final>>

NoJob == slot # "QUEUED" /\ Step("run", "ran") /\ UNCHANGED <<slot, verdict, final>>

SessionSubmit ==
  /\ verdict' \in {"OK", "INVALID", "FAULT"}
  /\ Step("submit", IF verdict' = "OK" THEN "drain" ELSE "publish")
  /\ UNCHANGED <<slot, final>>

SessionDrain ==
  /\ verdict' \in {"OK", "FAULT"}
  /\ Step("drain", "publish") /\ UNCHANGED <<slot, final>>

Publish ==
  /\ slot' = "DONE"
  /\ Step("publish", "ran") /\ UNCHANGED <<verdict, final>>

\* A stop that is seen is followed by one more run (slip: by none).
LeavesAtOnce == TRUE
Leaves == final

LooksForStop ==
  /\ ~Leaves \/ ~stopping
  /\ Step("ran", IF stopping THEN "run" ELSE "wait")
  /\ final' = stopping /\ UNCHANGED <<slot, verdict>>

Exits == Leaves /\ stopping /\ Step("ran", "gone") /\ UNCHANGED <<slot, verdict, final>>

WorkerNext ==
  \/ Wakes \/ ClaimJob \/ NoJob \/ SessionSubmit \/ SessionDrain \/ Publish
  \/ LooksForStop \/ Exits
=============================================================================
