------------------------------ MODULE TouchInput ------------------------------
(* The touch device, port/lv_aic_indev.c: the UI thread that starts and stops *)
(* it, the worker that reads reports, and the callback the driver calls when  *)
(* the panel raises its interrupt.  What a report says and how it is scaled   *)
(* is left out: reading one is the time the device, its buffer and the state  *)
(* lock are in use.                                                           *)
EXTENDS Naturals, FiniteSets

CONSTANTS
  Callback,   \* invocations of the callback that may overlap
  MaxGives    \* no interrupt is raised while irq_sem holds more

ASSUME TouchConstants == IsFiniteSet(Callback) /\ MaxGives \in Nat \ {0}

VARIABLES
  mode,    \* how the build waits: "irq", "fallback" (with a time-out) or "poll"
  t,       \* lv_aic_touch_ctx_t
  active,  \* lv_aic_touch_active_ctx is this context
  rx,      \* device->rx_indicate: the "driver"'s, or "ours"
  irq,     \* irq_sem
  exit,    \* exit_sem
  at,      \* where init or cleanup is, on the UI thread
  cb,      \* where each callback is
  worker   \* where the worker is

touchVars == <<mode, t, active, rx, irq, exit, at, cb, worker>>

Modes == {"irq", "fallback", "poll"}
Sems == {"exit_sem", "delete_sem"} \cup (IF mode = "poll" THEN {} ELSE {"irq_sem"})
Before == {"ctx", "lock", "device", "buffer"}
Complete == Before \cup Sems \cup {"indev"}

\* What init holds when one of its steps fails; the first two undo themselves.
Partial ==
  {{}, {"ctx", "lock"}, {"ctx", "lock", "device"}, Before \cup Sems}
    \cup {Before \cup S : S \in SUBSET Sems}

NoTouch == [has |-> {}, running |-> FALSE, started |-> FALSE, installed |-> FALSE, inflight |-> 0]

TouchInit ==
  /\ mode \in Modes
  /\ t = NoTouch /\ active = FALSE /\ rx = "driver"
  /\ irq = 0 /\ exit = 0
  /\ at = "idle" /\ worker = "none" /\ cb = [c \in Callback |-> "idle"]

-----------------------------------------------------------------------------
(* lv_aic_indev_init *)

Goto(place) == at' = place /\ UNCHANGED mode

PrepareFails(got) ==
  /\ at = "idle" /\ t.has = {}
  /\ t' = [t EXCEPT !.has = got]
  /\ Goto(IF got = {} THEN "gone" ELSE "stop")
  /\ UNCHANGED <<active, rx, irq, exit, cb, worker>>

\* Everything is there; the context is published before the callback is.
Prepare ==
  /\ at = "idle" /\ t.has = {}
  /\ t' = [t EXCEPT !.has = Complete, !.running = TRUE]
  /\ active' = TRUE
  /\ Goto("install")
  /\ UNCHANGED <<rx, irq, exit, cb, worker>>

\* A callback that is ours already belongs to somebody else's context.
Install ==
  /\ at = "install"
  /\ IF rx = "ours" THEN Goto("stop") /\ UNCHANGED <<t, rx>>
     ELSE /\ Goto("spawn")
          /\ IF mode = "poll" THEN UNCHANGED <<t, rx>>
             ELSE rx' = "ours" /\ t' = [t EXCEPT !.installed = TRUE]
  /\ UNCHANGED <<active, irq, exit, cb, worker>>

\* The first read, the interrupt's enabling, and the worker, which may fail.
Spawn ==
  /\ at = "spawn"
  /\ \/ t' = [t EXCEPT !.started = TRUE] /\ worker' = "check" /\ Goto("up")
     \/ t' = [t EXCEPT !.running = FALSE] /\ Goto("stop") /\ UNCHANGED worker
  /\ UNCHANGED <<active, rx, irq, exit, cb>>

-----------------------------------------------------------------------------
(* lv_aic_touch_cleanup; slips the runs must notice precede their originals *)

BeginStop == at = "idle" /\ Goto("stop") /\ UNCHANGED <<t, active, rx, irq, exit, cb, worker>>

\* With interrupts off, after DISABLE_INT.
Stop ==
  /\ at = "stop"
  /\ t' = [t EXCEPT !.running = FALSE, !.installed = FALSE]
  /\ rx' = IF t.installed THEN "driver" ELSE rx
  /\ active' = FALSE
  /\ Goto("quiesce")
  /\ UNCHANGED <<irq, exit, cb, worker>>

Wake == irq' = IF "irq_sem" \in t.has THEN irq + 1 ELSE irq
QuiesceEarly ==
  /\ at = "quiesce" /\ Wake /\ Goto("join") /\ UNCHANGED <<t, active, rx, exit, cb, worker>>
QuiesceSilent ==
  /\ at = "quiesce" /\ t.inflight = 0
  /\ Goto("join") /\ UNCHANGED <<t, active, rx, irq, exit, cb, worker>>

\* No callback is inside any more; the worker is woken to see that it must go.
Quiesce ==
  /\ at = "quiesce" /\ t.inflight = 0
  /\ Wake
  /\ Goto("join")
  /\ UNCHANGED <<t, active, rx, exit, cb, worker>>

Join ==
  /\ at = "join"
  /\ IF t.started
       THEN exit > 0 /\ exit' = exit - 1 /\ worker' = "none" /\ t' = [t EXCEPT !.started = FALSE]
       ELSE UNCHANGED <<exit, worker, t>>
  /\ Goto("free")
  /\ UNCHANGED <<active, rx, irq, cb>>

\* Device, semaphores, buffer, input device, lock and context, in this order.
FreeTouch ==
  /\ at = "free"
  /\ t' = NoTouch /\ irq' = 0 /\ exit' = 0
  /\ Goto("gone")
  /\ UNCHANGED <<active, rx, cb, worker>>

-----------------------------------------------------------------------------
(* lv_aic_touch_irq_cb; the driver has loaded the pointer before it calls *)

\* Interrupts come while the device is open; rx says whose callback is called.
CallsBack(c) ==
  /\ cb[c] = "idle" /\ "device" \in t.has /\ irq < MaxGives
  /\ cb' = IF rx = "ours" THEN [cb EXCEPT ![c] = "called"] ELSE cb
  /\ UNCHANGED <<mode, t, active, rx, irq, exit, at, worker>>

CallbackEnters(c) ==
  /\ cb[c] = "called"
  /\ IF active /\ t.running
       THEN t' = [t EXCEPT !.inflight = @ + 1] /\ cb' = [cb EXCEPT ![c] = "inside"]
       ELSE cb' = [cb EXCEPT ![c] = "idle"] /\ UNCHANGED t
  /\ UNCHANGED <<mode, active, rx, irq, exit, at, worker>>

\* The driver's own callback has been called before.
CallbackGives(c) ==
  /\ cb[c] = "inside"
  /\ Wake
  /\ cb' = [cb EXCEPT ![c] = "leaving"]
  /\ UNCHANGED <<mode, t, active, rx, exit, at, worker>>

CallbackLeaves(c) ==
  /\ cb[c] = "leaving"
  /\ t' = [t EXCEPT !.inflight = IF @ > 0 THEN @ - 1 ELSE @]
  /\ cb' = [cb EXCEPT ![c] = "idle"]
  /\ UNCHANGED <<mode, active, rx, irq, exit, at, worker>>

-----------------------------------------------------------------------------
(* lv_aic_touch_worker *)

WorkerGoes(from, to) ==
  /\ worker = from /\ worker' = to
  /\ UNCHANGED <<mode, t, active, rx, at, cb>>

WorkerChecks ==
  /\ WorkerGoes("check", IF t.running THEN "take" ELSE "leave")
  /\ UNCHANGED <<irq, exit>>

WorkerTakes ==
  /\ WorkerGoes("take", "woken")
  /\ \/ mode # "poll" /\ irq > 0 /\ irq' = irq - 1
     \/ mode # "irq" /\ UNCHANGED irq    \* time-out, or the end of the sleep
  /\ UNCHANGED exit

WorkerWakes ==
  /\ WorkerGoes("woken", IF t.running THEN "read" ELSE "leave")
  /\ UNCHANGED <<irq, exit>>

\* lv_aic_touch_read_once and ENABLE_INT.
WorkerReads == WorkerGoes("read", "check") /\ UNCHANGED <<irq, exit>>

\* It is parked on delete_sem until it is deleted.
WorkerLeaves == WorkerGoes("leave", "parked") /\ exit' = exit + 1 /\ UNCHANGED irq

-----------------------------------------------------------------------------

CallbackRuns == \E c \in Callback : CallbackEnters(c) \/ CallbackGives(c) \/ CallbackLeaves(c)
WorkerRuns == WorkerChecks \/ WorkerTakes \/ WorkerWakes \/ WorkerReads \/ WorkerLeaves
Background == (\E c \in Callback : CallsBack(c)) \/ CallbackRuns \/ WorkerRuns
TouchSteps == Install \/ Spawn \/ Stop \/ Quiesce \/ Join \/ FreeTouch

TouchTypeOK ==
  /\ mode \in Modes /\ active \in BOOLEAN /\ rx \in {"driver", "ours"}
  /\ t \in [has : SUBSET Complete, running : BOOLEAN, started : BOOLEAN, installed : BOOLEAN,
            inflight : 0..Cardinality(Callback)]
  /\ irq \in 0..(MaxGives + Cardinality(Callback) + 1) /\ exit \in 0..1
  /\ at \in {"idle", "install", "spawn", "up", "stop", "quiesce", "join", "free", "gone"}
  /\ cb \in [Callback -> {"idle", "called", "inside", "leaving"}]
  /\ worker \in {"none", "check", "take", "woken", "read", "leave", "parked"}

Inside == {c \in Callback : cb[c] \in {"inside", "leaving"}}

\* Whoever is inside finds everything it uses: the worker until it has been
\* deleted, the callbacks as long as they count; nothing of a context that has
\* gone is left: no owner, no callback in the driver, no thread, no resource.
TouchSafe ==
  /\ TouchTypeOK
  /\ worker # "none" => t.started /\ t.has = Complete
  /\ t.inflight = Cardinality(Inside)
  /\ Inside # {} => {"ctx", "irq_sem"} \subseteq t.has
  /\ rx = "ours" => t.installed /\ active
  /\ t.running => active /\ t.has = Complete
  /\ at = "gone" => t = NoTouch
  /\ t = NoTouch => ~active /\ rx = "driver" /\ worker = "none" /\ irq = 0 /\ exit = 0
=============================================================================
