--------------------------- MODULE PlatformProofs ---------------------------
(***************************************************************************)
(* The platform's life and its touch device, for any number of overlapping *)
(* callbacks, any load of the interrupt's semaphore and any providers.     *)
(* TouchInv strengthens TouchSafe by where the UI thread is: what has been *)
(* stopped before it waits, and whom it has waited for before it frees.    *)
(* PlatformInd says, for each place in the plans of lv_aic_init and        *)
(* lv_aic_deinit, which parts there are; all but the touch device's own    *)
(* steps move along a plan, and what they make follows from its head.      *)
(***************************************************************************)
EXTENDS Platform, FiniteSetTheorems, TLAPS

Ats == {"idle", "install", "spawn", "up", "stop", "quiesce", "join", "free", "gone"}
CbPlaces == {"idle", "called", "inside", "leaving"}
WorkerPlaces == {"none", "check", "take", "woken", "read", "leave", "parked"}

Types ==
  /\ mode \in Modes /\ active \in BOOLEAN /\ rx \in {"driver", "ours"}
  /\ t \in [has : SUBSET Complete, running : BOOLEAN, started : BOOLEAN, installed : BOOLEAN,
            inflight : Nat]
  /\ irq \in Nat /\ at \in Ats
  /\ cb \in [Callback -> CbPlaces] /\ worker \in WorkerPlaces

\* Callbacks that will still give the semaphore.
Coming == {c \in Callback : cb[c] \in {"called", "inside"}}

\* inflight counts who is inside, and the semaphore's load is bounded: a
\* callback is on its way only if there was room, and cleanup gives once.
Counts ==
  /\ t.inflight = Cardinality(Inside)
  /\ irq + Cardinality(Coming)
       <= MaxGives + Cardinality(Callback) + (IF at \in {"join", "free"} THEN 1 ELSE 0)

\* Who is installed, published or inside has a complete context.
Context ==
  /\ t.running => active
  /\ active => t.has = Complete
  /\ rx = "ours" => t.installed /\ active /\ mode # "poll"
  /\ t.has = {} => t = NoTouch
  /\ t = NoTouch => irq = 0
  /\ \A c \in Callback : cb[c] # "idle" => mode # "poll"
  /\ Inside # {} => {"ctx", "irq_sem"} \subseteq t.has

\* The worker exists while `started` says so and reports its end once.
Thread ==
  /\ worker # "none" => t.started /\ t.has = Complete
  /\ exit = (IF worker = "parked" THEN 1 ELSE 0)

Stages ==
  /\ at \in {"install", "spawn"} => t.has = Complete /\ ~t.started /\ active
  /\ at = "install" => ~t.installed
  /\ at \in {"quiesce", "join", "free"} => ~active /\ rx = "driver" /\ ~t.installed
  /\ at \in {"join", "free"} => t.inflight = 0
  /\ at = "free" => ~t.started
  /\ at = "gone" => t = NoTouch

TouchInv == Types /\ Counts /\ Context /\ Thread /\ Stages

-----------------------------------------------------------------------------
(* Cardinalities *)

\* The callbacks are finitely many (TouchConstants).
LEMMA FiniteCallbacks ==
  /\ IsFiniteSet(Callback) /\ Cardinality(Callback) \in Nat /\ MaxGives \in Nat
  /\ \A S \in SUBSET Callback : /\ IsFiniteSet(S) /\ Cardinality(S) \in Nat
                                /\ Cardinality(S) <= Cardinality(Callback)
<1>1. IsFiniteSet(Callback) /\ MaxGives \in Nat
  BY TouchConstants
<1>2. ASSUME NEW S \in SUBSET Callback
      PROVE  /\ IsFiniteSet(S) /\ Cardinality(S) \in Nat
             /\ Cardinality(S) <= Cardinality(Callback)
  <2>1. IsFiniteSet(S) /\ Cardinality(S) <= Cardinality(Callback)
    BY <1>1, FS_Subset
  <2> QED BY <2>1, FS_CardinalityType
<1>3. Cardinality(Callback) \in Nat
  BY <1>1, FS_CardinalityType
<1> QED BY <1>1, <1>2, <1>3

\* One callback more or less.
LEMMA OneCallback ==
  ASSUME NEW S \in SUBSET Callback, NEW c \in Callback
  PROVE  /\ c \notin S => Cardinality(S \cup {c}) = Cardinality(S) + 1
         /\ c \in S => Cardinality(S \ {c}) = Cardinality(S) - 1
<1>1. IsFiniteSet(S)
  BY FiniteCallbacks
<1>2. Cardinality(S \cup {c}) = IF c \in S THEN Cardinality(S) ELSE Cardinality(S) + 1
  BY <1>1, FS_AddElement
<1>3. Cardinality(S \ {c}) = IF c \in S THEN Cardinality(S) - 1 ELSE Cardinality(S)
  BY <1>1, FS_RemoveElement
<1> QED BY <1>2, <1>3

\* Nobody is inside exactly when nobody is counted.
LEMMA NobodyInside ==
  ASSUME Counts
  PROVE  t.inflight = 0 <=> Inside = {}
<1>1. Inside \in SUBSET Callback
  BY DEF Inside
<1>2. IsFiniteSet(Inside)
  BY <1>1, FiniteCallbacks
<1> QED BY <1>2, FS_EmptySet DEF Counts

-----------------------------------------------------------------------------
(* The steps of lv_aic_indev_init and lv_aic_touch_cleanup *)

\* What the touch device does, or has done to it, in one step of the platform.
TouchStep ==
  \/ Prepare \/ (\E got \in Partial : PrepareFails(got)) \/ BeginStop \/ TouchSteps
  \/ at \in {"up", "gone"} /\ Return
  \/ Background

\* A step of the platform is one of the touch device's or leaves it alone.
LEMMA PlatformMoves ==
  ASSUME [PlatformNext]_allVars
  PROVE  TouchStep \/ UNCHANGED touchVars
<1>1. CASE UNCHANGED allVars
  BY <1>1 DEF allVars
<1>2. CASE BeginInit \/ BeginDeinit \/ \E S \in ProviderSets : SetProvider(S)
  BY <1>2 DEF BeginInit, BeginDeinit, SetProvider
<1>3. CASE PlatformCalls
  <2>1. CASE DisplayMade \/ DisplayFails \/ DisplayUnmade
    BY <2>1 DEF DisplayMade, DisplayFails, DisplayUnmade
  <2>2. CASE TouchRuns
    BY <2>2 DEF TouchRuns, TouchStep
  <2>3. CASE TouchReturns
    BY <2>3 DEF TouchReturns, TouchStep
  <2>4. CASE \E part \in {"encoder", "mouse"} :
               InputMade(part) \/ InputFails(part) \/ InputUnmade(part)
    BY <2>4 DEF InputMade, InputFails, InputUnmade
  <2>5. CASE DecoderMade \/ DecoderFails \/ DecoderUnmade
    BY <2>5 DEF DecoderMade, DecoderFails, DecoderUnmade
  <2>6. CASE EngineMade \/ EngineUnmade
    BY <2>6 DEF EngineMade, EngineUnmade
  <2> QED BY <1>3, <2>1, <2>2, <2>3, <2>4, <2>5, <2>6 DEF PlatformCalls
<1>4. CASE Flush \/ FlushQuarantined \/ DrawFaults \/ PicturesUsed
  BY <1>4 DEF Flush, FlushQuarantined, DrawFaults, PicturesUsed
<1>5. CASE TouchBackground
  BY <1>5 DEF TouchBackground, TouchStep
<1> QED BY <1>1, <1>2, <1>3, <1>4, <1>5 DEF PlatformNext

\* Who is counted stays the same while no callback moves.
LEMMA CountsKept ==
  ASSUME Counts, UNCHANGED <<cb, irq>>, t'.inflight = t.inflight,
         at \in {"join", "free"} => at' \in {"join", "free"},
         Types
  PROVE  Counts'
<1>1. Inside' = Inside /\ Coming' = Coming
  BY DEF Inside, Coming
<1>2. Cardinality(Coming) \in Nat
  BY FiniteCallbacks DEF Coming
<1> QED BY <1>1, <1>2, FiniteCallbacks DEF Counts, Types

\* lv_aic_indev_init up to the publication of the context, and its failures.
LEMMA PrepareSafe ==
  ASSUME TouchInv, Prepare \/ \E got \in Partial : PrepareFails(got)
  PROVE  TouchInv'
<1> USE DEF TouchInv, Goto
<1>1. t = NoTouch /\ at = "idle" /\ irq = 0 /\ worker = "none" /\ rx = "driver" /\ ~active
      /\ UNCHANGED <<mode, rx, irq, exit, cb, worker>>
  <2>1. t = NoTouch /\ at = "idle" /\ irq = 0 /\ UNCHANGED <<mode, rx, irq, exit, cb, worker>>
    BY DEF Prepare, PrepareFails, Context
  <2>2. worker = "none" /\ ~active /\ rx = "driver"
    BY <2>1 DEF NoTouch, Thread, Context, Complete, Before, Types
  <2> QED BY <2>1, <2>2
<1>2. Inside = {}
  BY <1>1, NobodyInside DEF NoTouch
<1>3. t'.inflight = 0 /\ at' \in {"install", "gone", "stop"}
  BY <1>1 DEF NoTouch, Prepare, PrepareFails
<1>4. Counts'
  BY <1>1, <1>3, CountsKept DEF NoTouch
<1>5. CASE Prepare
  <2>1. t' = [t EXCEPT !.has = Complete, !.running = TRUE] /\ active' /\ at' = "install"
    BY <1>5 DEF Prepare
  <2>2. t'.has = Complete /\ t'.running /\ ~t'.started /\ ~t'.installed /\ Complete' = Complete
    BY <1>1, <2>1 DEF NoTouch, Complete, Sems
  <2>3. Types'
    BY <1>1, <2>1, <2>2 DEF Types, NoTouch, Ats, Complete, Sems
  <2>4. Context'
    BY <1>1, <1>2, <2>1, <2>2 DEF Context, NoTouch, Complete, Before, Inside
  <2>5. Thread' /\ Stages'
    BY <1>1, <2>1, <2>2 DEF Thread, Stages
  <2> QED BY <1>4, <2>3, <2>4, <2>5
<1>6. ASSUME NEW got \in Partial, PrepareFails(got)
      PROVE  TouchInv'
  <2>1. t' = [t EXCEPT !.has = got] /\ at' = (IF got = {} THEN "gone" ELSE "stop")
        /\ UNCHANGED active
    BY <1>6 DEF PrepareFails
  <2>2. t'.has = got /\ ~t'.running /\ ~t'.started /\ ~t'.installed /\ (got = {} => t' = NoTouch)
        /\ Complete' = Complete
    BY <1>1, <2>1 DEF NoTouch, Complete, Sems
  <2>3. got \subseteq Complete
    BY DEF Partial, Complete, Before
  <2>4. Types'
    BY <1>1, <2>1, <2>2, <2>3 DEF Types, NoTouch, Ats
  <2>5. Context'
    BY <1>1, <1>2, <2>1, <2>2 DEF Context, Inside
  <2>6. Thread' /\ Stages'
    BY <1>1, <2>1, <2>2 DEF Thread, Stages
  <2> QED BY <1>4, <2>4, <2>5, <2>6
<1> QED BY <1>5, <1>6

\* The callback and the worker are installed, in this order.
LEMMA InstallSafe ==
  ASSUME TouchInv, Install \/ Spawn
  PROVE  TouchInv'
<1> USE DEF TouchInv, Goto
<1>1. UNCHANGED <<active, irq, exit, cb, mode>> /\ t'.inflight = t.inflight /\ t'.has = t.has
      /\ at' \in {"spawn", "stop", "up"} /\ at \in {"install", "spawn"} /\ Complete' = Complete
  BY DEF Install, Spawn, Complete, Sems, Types
<1>2. Counts'
  BY <1>1, CountsKept
<1>3. t.has = Complete /\ t.has # {} /\ ~t.started /\ active /\ worker = "none" /\ t' # NoTouch
  BY <1>1 DEF Stages, Thread, Complete, Before, NoTouch
<1>4. Inside' = Inside
  BY <1>1 DEF Inside
<1>5. CASE Install
  <2>1. UNCHANGED worker /\ t'.started = t.started /\ t'.running = t.running
    BY <1>5 DEF Install, Types
  <2>2. rx' = "ours" => t'.installed /\ mode # "poll"
    BY <1>5 DEF Install, Types, Context
  <2>3. Types'
    BY <1>1, <1>5 DEF Install, Types, Ats
  <2>4. Context'
    BY <1>1, <1>3, <1>4, <2>1, <2>2 DEF Context
  <2>5. Thread' /\ Stages'
    BY <1>1, <1>3, <1>5, <2>1 DEF Install, Thread, Stages
  <2> QED BY <1>2, <2>3, <2>4, <2>5
<1>6. CASE Spawn
  <2>1. UNCHANGED rx /\ t'.installed = t.installed /\ (t'.running => t.running)
        /\ at' # "spawn"
    BY <1>6 DEF Spawn, Types
  <2>2. worker' # "none" => worker' = "check" /\ t'.started
    BY <1>3, <1>6 DEF Spawn, Types
  <2>3. Types'
    BY <1>1, <1>6 DEF Spawn, Types, Ats, WorkerPlaces
  <2>4. Context'
    BY <1>1, <1>3, <1>4, <2>1 DEF Context
  <2>5. Thread' /\ Stages'
    BY <1>1, <1>3, <2>1, <2>2 DEF Thread, Stages
  <2> QED BY <1>2, <2>3, <2>4, <2>5
<1> QED BY <1>5, <1>6

\* The ends of both calls, and lv_aic_touch_cleanup up to its first wait.
LEMMA StopSafe ==
  ASSUME TouchInv, BeginStop \/ Stop \/ (at \in {"up", "gone"} /\ Return)
  PROVE  TouchInv'
<1> USE DEF TouchInv, Goto
<1>1. UNCHANGED <<irq, exit, cb, mode, worker>> /\ t'.inflight = t.inflight /\ t'.has = t.has
      /\ t'.started = t.started /\ at' \in {"idle", "stop", "quiesce"}
      /\ at \in {"idle", "stop", "up", "gone"} /\ Complete' = Complete
  BY DEF BeginStop, Stop, Return, Complete, Sems, Types
<1>2. Counts'
  BY <1>1, CountsKept
<1>3. Inside' = Inside
  BY <1>1 DEF Inside
<1>4. Thread'
  BY <1>1 DEF Thread
<1>5. CASE Stop
  <2>1. ~t'.running /\ ~t'.installed /\ ~active' /\ at' = "quiesce"
    BY <1>5 DEF Stop, Types
  <2>2. rx' = "driver"
    BY <1>5 DEF Stop, Context, Types
  <2>3. Types'
    BY <1>1, <1>5, <2>2 DEF Stop, Types, Ats
  <2>4. t'.has = {} => t' = NoTouch
    <3>1. t.has = {} => t = NoTouch /\ t' = [t EXCEPT !.running = FALSE, !.installed = FALSE]
      BY <1>5 DEF Stop, Context
    <3>2. t.has = {} => t'.running = t.running /\ t'.installed = t.installed
      <4>1. t.has = {} => t.running = FALSE /\ t.installed = FALSE
        BY <3>1 DEF NoTouch
      <4> QED BY <2>1, <4>1, <2>3 DEF Types
    <3>3. t' \in [has : SUBSET Complete, running : BOOLEAN, started : BOOLEAN,
                  installed : BOOLEAN, inflight : Nat]
      BY <1>1, <2>3 DEF Types
    <3>4. t.has = {} => t' = t
      BY <1>1, <3>2, <3>3 DEF Types
    <3> QED BY <1>1, <3>1, <3>4
  <2>5. t' = NoTouch => irq' = 0
    <3>1. t' = NoTouch => t.has = {}
      BY <1>1 DEF NoTouch
    <3> QED BY <1>1, <3>1 DEF Context
  <2>6. Context'
    BY <1>1, <1>3, <2>1, <2>2, <2>4, <2>5 DEF Context
  <2>7. Stages'
    BY <1>1, <2>1, <2>2 DEF Stages
  <2> QED BY <1>2, <1>4, <2>3, <2>6, <2>7
<1>6. CASE BeginStop \/ (at \in {"up", "gone"} /\ Return)
  <2>1. UNCHANGED <<t, active, rx>> /\ at' \in {"idle", "stop"}
    BY <1>6 DEF BeginStop, Return
  <2>2. Types' /\ Context' /\ Stages'
    BY <1>1, <1>3, <2>1 DEF Types, Ats, Context, Stages
  <2> QED BY <1>2, <1>4, <2>2
<1> QED BY <1>5, <1>6

\* Cleanup has seen the last callback leave, and wakes the worker.
LEMMA QuiesceSafe ==
  ASSUME TouchInv, Quiesce
  PROVE  TouchInv'
<1> USE DEF TouchInv, Goto
<1>1. UNCHANGED <<t, active, rx, exit, cb, worker, mode>> /\ at = "quiesce" /\ at' = "join"
      /\ t.inflight = 0 /\ irq' \in {irq, irq + 1} /\ Complete' = Complete
      /\ (t.has = {} => irq' = irq)
  BY DEF Quiesce, Wake, Complete, Sems
<1>2. Inside' = Inside /\ Coming' = Coming /\ Cardinality(Coming) \in Nat
  BY <1>1, FiniteCallbacks DEF Inside, Coming
<1>3. Counts'
  <2>1. irq + Cardinality(Coming) <= MaxGives + Cardinality(Callback)
        /\ t.inflight = Cardinality(Inside)
    BY <1>1, FiniteCallbacks DEF Counts
  <2>2. irq' + Cardinality(Coming) <= MaxGives + Cardinality(Callback) + 1
    BY <1>1, <1>2, <2>1, FiniteCallbacks DEF Types
  <2> QED BY <1>1, <1>2, <2>1, <2>2 DEF Counts
<1>4. Types' /\ Thread' /\ Stages'
  BY <1>1 DEF Types, Ats, Thread, Stages
<1>5. t = NoTouch => irq' = 0
  BY <1>1 DEF Context, NoTouch
<1>6. Context'
  BY <1>1, <1>2, <1>5 DEF Context
<1> QED BY <1>3, <1>4, <1>6

\* The worker has said that it leaves and is deleted.
LEMMA JoinSafe ==
  ASSUME TouchInv, Join
  PROVE  TouchInv'
<1> USE DEF TouchInv, Goto
<1>1. UNCHANGED <<active, rx, irq, cb, mode>> /\ at = "join" /\ at' = "free"
      /\ t'.inflight = t.inflight /\ t'.has = t.has /\ t'.running = t.running
      /\ t'.installed = t.installed /\ ~t'.started /\ Complete' = Complete
  BY DEF Join, Complete, Sems, Types
<1>2. worker' = "none" /\ exit' = 0
  BY DEF Join, Thread
<1>3. Counts'
  BY <1>1, CountsKept
<1>4. Types'
  BY <1>1, <1>2 DEF Join, Types, Ats, WorkerPlaces
<1>5. Thread' /\ Stages'
  BY <1>1, <1>2 DEF Thread, Stages
<1>6. (t'.has = {} => t' = NoTouch) /\ (t' = NoTouch => irq' = 0)
  <2>1. t'.has = {} => t' = NoTouch
    BY <1>1 DEF Join, Context, NoTouch
  <2>2. t' = NoTouch => t.has = {}
    BY <1>1 DEF NoTouch
  <2> QED BY <1>1, <2>1, <2>2 DEF Context
<1>7. Inside' = Inside
  BY <1>1 DEF Inside
<1>8. Context'
  BY <1>1, <1>6, <1>7 DEF Context
<1> QED BY <1>3, <1>4, <1>5, <1>8

\* Cleanup frees what is left; callbacks that were called find no context.
LEMMA FreeSafe ==
  ASSUME TouchInv, FreeTouch
  PROVE  TouchInv'
<1> USE DEF TouchInv, Goto
<1>1. UNCHANGED <<active, rx, cb, worker, mode>> /\ at = "free" /\ at' = "gone"
      /\ t' = NoTouch /\ irq' = 0 /\ exit' = 0
  BY DEF FreeTouch
<1>2. ~active /\ rx = "driver" /\ t.inflight = 0 /\ worker = "none"
  BY <1>1 DEF Stages, Thread
<1>3. Inside = {} /\ Inside' = Inside /\ Coming' = Coming
  BY <1>1, <1>2, NobodyInside DEF Inside, Coming
<1>4. Counts'
  <2>1. Cardinality(Coming) \in Nat /\ Cardinality(Coming) <= Cardinality(Callback)
    BY FiniteCallbacks DEF Coming
  <2>2. Cardinality(Inside) = 0
    BY <1>2 DEF Counts
  <2> QED BY <1>1, <1>3, <2>1, <2>2, FiniteCallbacks DEF Counts, NoTouch
<1>5. Types' /\ Thread' /\ Stages'
  BY <1>1, <1>2 DEF Types, NoTouch, Ats, Thread, Stages, Complete, Sems, Modes
<1>6. Context'
  BY <1>1, <1>2, <1>3 DEF Context, NoTouch
<1> QED BY <1>4, <1>5, <1>6

-----------------------------------------------------------------------------
(* The callback and the worker *)

\* lv_aic_touch_irq_cb counts itself in and out under a published context.
LEMMA CallbackSafe ==
  ASSUME TouchInv, NEW c \in Callback,
         CallsBack(c) \/ CallbackEnters(c) \/ CallbackGives(c) \/ CallbackLeaves(c)
  PROVE  TouchInv'
<1> USE DEF TouchInv
<1>1. UNCHANGED <<mode, active, rx, exit, at, worker>> /\ t' = [t EXCEPT !.inflight = t'.inflight]
      /\ Complete' = Complete
  BY DEF CallsBack, CallbackEnters, CallbackGives, CallbackLeaves, Complete, Sems, Types
<1>2. t'.has = t.has /\ t'.running = t.running /\ t'.started = t.started
      /\ t'.installed = t.installed
  BY <1>1 DEF Types
<1>3. Thread'
  BY <1>1, <1>2 DEF Thread
<1>4. Inside \subseteq Callback /\ Coming \subseteq Callback
      /\ Cardinality(Inside) \in Nat /\ Cardinality(Coming) \in Nat
      /\ Cardinality(Inside') \in Nat /\ Cardinality(Coming') \in Nat
      /\ Cardinality(Coming') <= Cardinality(Callback)
      /\ MaxGives \in Nat /\ Cardinality(Callback) \in Nat
  BY FiniteCallbacks DEF Inside, Coming
<1>5. CASE CallsBack(c)
  <2>1. UNCHANGED <<t, irq>> /\ irq < MaxGives /\ cb[c] = "idle"
        /\ (cb' = cb \/ (rx = "ours" /\ cb' = [cb EXCEPT ![c] = "called"]))
    BY <1>5 DEF CallsBack
  <2>2. Inside' = Inside
    BY <2>1 DEF Inside, Types
  <2>3. Counts'
    BY <1>1, <1>4, <2>1, <2>2 DEF Counts, Types
  <2>4. Types' /\ Stages'
    BY <1>1, <2>1 DEF Types, CbPlaces, Stages
  <2>5. Context'
    BY <1>1, <2>1, <2>2 DEF Context, Types
  <2> QED BY <1>3, <2>3, <2>4, <2>5
<1>6. CASE CallbackEnters(c) /\ active /\ t.running
  <2>1. t'.inflight = t.inflight + 1 /\ cb' = [cb EXCEPT ![c] = "inside"] /\ cb[c] = "called"
        /\ UNCHANGED irq
    BY <1>6 DEF CallbackEnters, Types
  <2>2. Inside' = Inside \cup {c} /\ c \notin Inside /\ Coming' = Coming
    BY <2>1 DEF Inside, Coming, Types
  <2>3. Cardinality(Inside') = Cardinality(Inside) + 1
    BY <1>4, <2>2, OneCallback
  <2>4. Counts'
    BY <1>1, <2>1, <2>2, <2>3 DEF Counts
  <2>5. Types' /\ Stages'
    <3>1. at \notin {"quiesce", "join", "free", "gone"}
      BY <1>6 DEF Stages, NoTouch
    <3>2. Types'
      BY <1>1, <2>1 DEF Types, CbPlaces
    <3> QED BY <1>1, <1>2, <3>1, <3>2 DEF Stages
  <2>6. {"ctx", "irq_sem"} \subseteq t.has /\ t.has = Complete /\ t.has # {}
    BY <1>6, <2>1 DEF Context, Complete, Before, Sems
  <2>7. Context'
    BY <1>1, <1>2, <2>1, <2>2, <2>6 DEF Context, Types, NoTouch
  <2> QED BY <1>3, <2>4, <2>5, <2>7
<1>7. CASE CallbackEnters(c) /\ ~(active /\ t.running)
  <2>1. UNCHANGED <<t, irq>> /\ cb' = [cb EXCEPT ![c] = "idle"] /\ cb[c] = "called"
    BY <1>7 DEF CallbackEnters
  <2>2. Inside' = Inside /\ Coming' = Coming \ {c} /\ c \in Coming
    BY <2>1 DEF Inside, Coming, Types
  <2>3. Cardinality(Coming') = Cardinality(Coming) - 1
    BY <1>4, <2>2, OneCallback
  <2>4. Counts'
    BY <1>1, <1>4, <2>1, <2>2, <2>3 DEF Counts, Types
  <2>5. Types' /\ Stages'
    BY <1>1, <2>1 DEF Types, CbPlaces, Stages
  <2>6. Context'
    BY <1>1, <2>1, <2>2 DEF Context, Types
  <2> QED BY <1>3, <2>4, <2>5, <2>6
<1>8. CASE CallbackGives(c)
  <2>1. UNCHANGED t /\ cb' = [cb EXCEPT ![c] = "leaving"] /\ cb[c] = "inside"
    BY <1>8 DEF CallbackGives
  <2>2. Inside' = Inside /\ Inside # {} /\ Coming' = Coming \ {c} /\ c \in Coming
    BY <2>1 DEF Inside, Coming, Types
  <2>3. Cardinality(Coming') = Cardinality(Coming) - 1
    BY <1>4, <2>2, OneCallback
  <2>4. irq' = irq + 1 /\ t.has # {}
    BY <1>8, <2>2 DEF CallbackGives, Wake, Context
  <2>5. Counts'
    BY <1>1, <1>4, <2>1, <2>2, <2>3, <2>4 DEF Counts, Types
  <2>6. Types' /\ Stages'
    BY <1>1, <2>1, <2>4 DEF Types, CbPlaces, Stages
  <2>7. Context'
    BY <1>1, <2>1, <2>2, <2>4 DEF Context, Types, NoTouch
  <2> QED BY <1>3, <2>5, <2>6, <2>7
<1>9. CASE CallbackLeaves(c)
  <2>1. cb' = [cb EXCEPT ![c] = "idle"] /\ cb[c] = "leaving" /\ UNCHANGED irq
    BY <1>9 DEF CallbackLeaves
  <2>2. Inside' = Inside \ {c} /\ c \in Inside /\ Coming' = Coming
    BY <2>1 DEF Inside, Coming, Types
  <2>3. Cardinality(Inside') = Cardinality(Inside) - 1
    BY <1>4, <2>2, OneCallback
  <2>4. t.inflight > 0 /\ t'.inflight = t.inflight - 1
    <3>1. t.inflight > 0
      BY <1>4, <2>3 DEF Counts
    <3> QED BY <1>9, <3>1 DEF CallbackLeaves, Types
  <2>5. Counts'
    BY <1>1, <2>1, <2>2, <2>3, <2>4 DEF Counts
  <2>6. Types' /\ Stages'
    <3>1. t.has # {} /\ at # "gone" /\ at \notin {"join", "free"}
      BY <2>2, <2>4 DEF Context, Stages, NoTouch
    <3> QED BY <1>1, <1>2, <2>1, <2>4, <3>1 DEF Types, CbPlaces, Stages
  <2>7. Context'
    <3>1. t'.has # {} /\ t' # NoTouch
      BY <1>2, <2>2 DEF Context, NoTouch
    <3> QED BY <1>1, <1>2, <2>1, <2>2, <3>1 DEF Context, Types
  <2> QED BY <1>3, <2>5, <2>6, <2>7
<1> QED BY <1>5, <1>6, <1>7, <1>8, <1>9

\* lv_aic_touch_worker takes the semaphore, reads, and says once that it leaves.
LEMMA WorkerSafe ==
  ASSUME TouchInv, WorkerRuns
  PROVE  TouchInv'
<1> USE DEF TouchInv
<1>1. UNCHANGED <<mode, t, active, rx, at, cb>> /\ Complete' = Complete
      /\ worker \notin {"none", "parked"} /\ worker' \in WorkerPlaces \ {"none"}
      /\ exit' = (IF worker' = "parked" THEN 1 ELSE 0)
  BY DEF WorkerRuns, WorkerChecks, WorkerTakes, WorkerWakes, WorkerReads, WorkerLeaves,
     WorkerGoes, WorkerPlaces, Thread, Complete, Sems
<1>2. irq' \in Nat /\ irq' <= irq
  BY DEF WorkerRuns, WorkerChecks, WorkerTakes, WorkerWakes, WorkerReads, WorkerLeaves, Types
<1>3. Inside' = Inside /\ Coming' = Coming /\ Cardinality(Coming) \in Nat
  BY <1>1, FiniteCallbacks DEF Inside, Coming
<1>4. Counts'
  BY <1>1, <1>2, <1>3, FiniteCallbacks DEF Counts, Types
<1>5. t # NoTouch
  BY <1>1 DEF Thread, Complete, Before, NoTouch
<1>6. Types' /\ Thread' /\ Stages'
  BY <1>1, <1>2 DEF Types, WorkerPlaces, Thread, Stages
<1>7. Context'
  BY <1>1, <1>3, <1>5 DEF Context
<1> QED BY <1>4, <1>6, <1>7

-----------------------------------------------------------------------------
(* The theorem *)

\* Every step of the touch device keeps TouchInv.
LEMMA StepSafe ==
  ASSUME TouchInv, TouchStep
  PROVE  TouchInv'
<1>1. CASE TouchSteps
  BY <1>1, InstallSafe, StopSafe, QuiesceSafe, JoinSafe, FreeSafe DEF TouchSteps
<1>2. CASE Background
  BY <1>2, CallbackSafe, WorkerSafe DEF Background, CallbackRuns
<1> QED BY <1>1, <1>2, PrepareSafe, StopSafe DEF TouchStep

\* Nothing else touches what TouchInv speaks of.
LEMMA OthersSafe ==
  ASSUME TouchInv, UNCHANGED touchVars
  PROVE  TouchInv'
BY DEF touchVars, TouchInv, Types, Complete, Sems, Counts, Inside, Coming, Context, Thread, Stages

\* The state the program starts in, lv_aic_indev.c's zeroed statics.
LEMMA StartSafe ==
  ASSUME PlatformInit
  PROVE  TouchInv
<1>1. TouchInit
  BY DEF PlatformInit
<1>2. Inside = {} /\ Coming = {}
  BY <1>1 DEF TouchInit, Inside, Coming
<1>3. Counts
  BY <1>1, <1>2, FS_EmptySet, FiniteCallbacks DEF TouchInit, Counts, NoTouch
<1>4. Types /\ Thread /\ Stages
  BY <1>1 DEF TouchInit, Types, NoTouch, Ats, CbPlaces, WorkerPlaces, Thread, Stages
<1>5. Context
  BY <1>1, <1>2 DEF TouchInit, Context, NoTouch
<1> QED BY <1>3, <1>4, <1>5 DEF TouchInv

\* TouchInv implies what the run checks.
LEMMA SafeEnough ==
  ASSUME TouchInv
  PROVE  TouchSafe
<1> USE DEF TouchInv
<1>1. Inside \in SUBSET Callback /\ Coming \in SUBSET Callback
  BY DEF Inside, Coming
<1>2. t.inflight \in 0..Cardinality(Callback)
  BY <1>1, FiniteCallbacks DEF Counts
<1>3. irq \in 0..(MaxGives + Cardinality(Callback) + 1)
  BY <1>1, FiniteCallbacks DEF Counts, Types
<1>4. TouchTypeOK
  BY <1>2, <1>3 DEF TouchTypeOK, Types, Ats, CbPlaces, WorkerPlaces, Thread
<1>5. t = NoTouch => ~active /\ rx = "driver" /\ worker = "none" /\ exit = 0
  BY DEF NoTouch, Context, Thread, Types, Complete, Before
<1> QED BY <1>4, <1>5 DEF TouchSafe, Counts, Context, Thread, Stages

\* Whoever is inside the touch device finds what it uses, and nothing of a
\* context that has gone is left (lv_aic_touch_cleanup), for any number of
\* overlapping callbacks and through every start, failure and shutdown.
THEOREM TouchIsSafe == PlatformSpec => []TouchSafe
<1>1. PlatformInit => TouchInv
  BY StartSafe
<1>2. TouchInv /\ [PlatformNext]_allVars => TouchInv'
  BY PlatformMoves, StepSafe, OthersSafe
<1>3. TouchInv => TouchSafe
  BY SafeEnough
<1> QED BY <1>1, <1>2, <1>3, PTL DEF PlatformSpec

-----------------------------------------------------------------------------
(* The plans of lv_aic_init and lv_aic_deinit *)

\* What is left to do, in each phase.
Plans ==
  [init |-> {Setup, <<"touch", "encoder", "mouse", "decoder", "ge">>,
             <<"encoder", "mouse", "decoder", "ge">>, <<"mouse", "decoder", "ge">>,
             <<"decoder", "ge">>, <<"ge">>},
   undo |-> {<<"mouse", "encoder", "touch", "display">>, <<"encoder", "touch", "display">>,
             <<"touch", "display">>, <<"display">>},
   deinit |-> {Teardown, <<"mouse", "encoder", "decoder", "ge", "display">>,
               <<"encoder", "decoder", "ge", "display">>, <<"decoder", "ge", "display">>,
               <<"ge", "display">>, <<"display">>}]

Planned ==
  \/ phase \in {"on", "off"} /\ plan = <<>>
  \/ phase = "init" /\ plan \in Plans.init
  \/ phase = "undo" /\ plan \in Plans.undo
  \/ phase = "deinit" /\ plan \in Plans.deinit

\* One plan after the other.
Follows(s, part, rest) == s # <<>> /\ Head(s) = part /\ Tail(s) = rest

LEMMA SetupFollows ==
  /\ Follows(Setup, "display", <<"touch", "encoder", "mouse", "decoder", "ge">>)
  /\ Follows(<<"touch", "encoder", "mouse", "decoder", "ge">>, "touch",
             <<"encoder", "mouse", "decoder", "ge">>)
  /\ Follows(<<"encoder", "mouse", "decoder", "ge">>, "encoder", <<"mouse", "decoder", "ge">>)
  /\ Follows(<<"mouse", "decoder", "ge">>, "mouse", <<"decoder", "ge">>)
  /\ Follows(<<"decoder", "ge">>, "decoder", <<"ge">>)
  /\ Follows(<<"ge">>, "ge", <<>>)
BY DEF Follows, Setup

LEMMA RollbackFollows ==
  /\ Follows(<<"mouse", "encoder", "touch", "display">>, "mouse",
             <<"encoder", "touch", "display">>)
  /\ Follows(<<"encoder", "touch", "display">>, "encoder", <<"touch", "display">>)
  /\ Follows(<<"touch", "display">>, "touch", <<"display">>)
  /\ Follows(<<"display">>, "display", <<>>)
BY DEF Follows

LEMMA TeardownFollows ==
  /\ Follows(Teardown, "touch", <<"mouse", "encoder", "decoder", "ge", "display">>)
  /\ Follows(<<"mouse", "encoder", "decoder", "ge", "display">>, "mouse",
             <<"encoder", "decoder", "ge", "display">>)
  /\ Follows(<<"encoder", "decoder", "ge", "display">>, "encoder",
             <<"decoder", "ge", "display">>)
  /\ Follows(<<"decoder", "ge", "display">>, "decoder", <<"ge", "display">>)
  /\ Follows(<<"ge", "display">>, "ge", <<"display">>)
BY DEF Follows, Teardown

\* The part that comes next when the present one is made or unmade.
NextMade(part) ==
  CASE part = "display" -> "touch" [] part = "touch" -> "encoder" [] part = "encoder" -> "mouse"
    [] part = "mouse" -> "decoder" [] part = "decoder" -> "ge"
NextUndone(part) ==
  CASE part = "mouse" -> "encoder" [] part = "encoder" -> "touch" [] part = "touch" -> "display"
NextUnmade(part) ==
  CASE part = "touch" -> "mouse" [] part = "mouse" -> "encoder" [] part = "encoder" -> "decoder"
    [] part = "decoder" -> "ge" [] part = "ge" -> "display"

LEMMA MakingProceeds ==
  ASSUME Planned, phase = "init", Proceed
  PROVE  /\ Planned'
         /\ Head(plan) \in {"display", "touch", "encoder", "mouse", "decoder", "ge"}
         /\ Head(plan) = "ge" => phase' = "on"
         /\ Head(plan) # "ge" => phase' = "init" /\ Head(plan') = NextMade(Head(plan))
<1>1. plan \in Plans.init
  BY DEF Planned
<1> QED BY <1>1, SetupFollows DEF Follows, Plans, Planned, Proceed, NextMade

LEMMA UndoProceeds ==
  ASSUME Planned, phase = "undo", Proceed
  PROVE  /\ Planned'
         /\ Head(plan) \in {"display", "touch", "encoder", "mouse"}
         /\ Head(plan) = "display" => phase' = "off"
         /\ Head(plan) # "display" => phase' = "undo" /\ Head(plan') = NextUndone(Head(plan))
<1>1. plan \in Plans.undo
  BY DEF Planned
<1> QED BY <1>1, RollbackFollows DEF Follows, Plans, Planned, Proceed, NextUndone

LEMMA DeinitProceeds ==
  ASSUME Planned, phase = "deinit", Proceed
  PROVE  /\ Planned'
         /\ Head(plan) \in {"display", "touch", "encoder", "mouse", "decoder", "ge"}
         /\ Head(plan) = "display" => phase' = "off"
         /\ Head(plan) # "display" => phase' = "deinit" /\ Head(plan') = NextUnmade(Head(plan))
<1>1. plan \in Plans.deinit
  BY DEF Planned
<1> QED BY <1>1, TeardownFollows, RollbackFollows
    DEF Follows, Plans, Planned, Proceed, NextUnmade

LEMMA Fails ==
  ASSUME NEW part \in {"display", "touch", "encoder", "mouse", "decoder"}, FailAt(part)
  PROVE  /\ Planned'
         /\ part = "display" => phase' = "off"
         /\ part = "touch" => phase' = "undo" /\ Head(plan') = "display"
         /\ part = "encoder" => phase' = "undo" /\ Head(plan') = "touch"
         /\ part = "mouse" => phase' = "undo" /\ Head(plan') = "encoder"
         /\ part = "decoder" => phase' = "undo" /\ Head(plan') = "mouse"
BY RollbackFollows DEF FailAt, Rollback, Follows, Planned, Plans

\* Which parts there are, by the part that is being made or unmade.
DisplayUp ==
  \/ phase \in {"on", "undo", "deinit"}
  \/ phase = "init" /\ Head(plan) # "display"
TouchUp ==
  \/ phase = "on"
  \/ phase = "init" /\ Head(plan) \in {"encoder", "mouse", "decoder", "ge"}
  \/ phase = "undo" /\ Head(plan) \in {"mouse", "encoder", "touch"}
  \/ phase = "deinit" /\ Head(plan) = "touch"
EncoderUp ==
  \/ phase = "on"
  \/ phase = "init" /\ Head(plan) \in {"mouse", "decoder", "ge"}
  \/ phase = "undo" /\ Head(plan) \in {"mouse", "encoder"}
  \/ phase = "deinit" /\ Head(plan) \in {"touch", "mouse", "encoder"}
MouseUp ==
  \/ phase = "on"
  \/ phase = "init" /\ Head(plan) \in {"decoder", "ge"}
  \/ phase = "undo" /\ Head(plan) = "mouse"
  \/ phase = "deinit" /\ Head(plan) \in {"touch", "mouse"}
DecoderUp ==
  \/ phase = "on"
  \/ phase = "init" /\ Head(plan) = "ge"
  \/ phase = "deinit" /\ Head(plan) \in {"touch", "mouse", "encoder", "decoder"}
EngineUp ==
  \/ phase = "on"
  \/ phase = "deinit" /\ Head(plan) # "display"

PartTypes ==
  /\ Planned
  /\ handle \subseteq {"display", "touch", "encoder", "mouse", "decoder"}
  /\ made \subseteq {"display", "encoder", "mouse"} /\ provider \in ProviderSets
  /\ d \in [copies : BOOLEAN, pan : BOOLEAN, quarantined : BOOLEAN, waiting : BOOLEAN,
            valid : BOOLEAN, present : 0..1, last : 0..1, scan : 0..1]
  /\ g \in [open : BOOLEAN, fault : BOOLEAN, dma : SUBSET {"source", "plane"}]

\* The pointers and what exists go by the place in the plan.
Parts ==
  /\ "display" \in handle <=> DisplayUp
  /\ "touch" \in handle <=> TouchUp
  /\ "encoder" \in handle <=> EncoderUp /\ "encoder" \in provider
  /\ "mouse" \in handle <=> MouseUp /\ "mouse" \in provider
  /\ "decoder" \in handle <=> DecoderUp
  /\ "display" \in made <=> DisplayUp \/ d.quarantined
  /\ \A part \in {"encoder", "mouse"} : part \in made <=> part \in handle

\* The touch device is between its steps only while its turn is.
TouchTurn ==
  /\ at = "idle" => (t.has # {} <=> TouchUp)
  /\ at = "up" => t.has # {}
  /\ at # "idle" => phase \in {"init", "undo", "deinit"} /\ Head(plan) = "touch"

\* The decoder is unmade as it was when deinit asked.
DecoderTurn ==
  /\ registered <=> DecoderUp
  /\ phase = "deinit" /\ DecoderUp => CanDeinit

\* A fault comes while the platform is on, and the display that has seen one stays.
Faults ==
  /\ d.quarantined => g.fault
  /\ g.fault =>
       phase \in {"on", "deinit"} \/ (phase \in {"off", "init"} /\ ~DisplayUp /\ d.quarantined)
  /\ g.open => g.fault \/ EngineUp

\* One plane is both the next and the one on the panel.
Planes == PlanesApart /\ (~d.pan => d.present = 0 /\ d.scan = 0)

PlatformInd == PartTypes /\ Parts /\ TouchTurn /\ DecoderTurn /\ Faults /\ Planes /\ Contained

-----------------------------------------------------------------------------
(* The steps of the platform *)

\* What the touch device's own steps are to the platform.
LEMMA TouchMoves ==
  ASSUME TouchInv
  PROVE  /\ Background => at' = at /\ t'.has = t.has
         /\ Prepare \/ (\E got \in Partial : PrepareFails(got)) => at' \notin {"idle", "up"}
         /\ BeginStop => at' = "stop" /\ t' = t
         /\ TouchSteps => at # "idle" /\ at' # "idle" /\ (at' = "up" => t'.has # {})
<1>1. Types /\ Stages
  BY DEF TouchInv
<1>2. Complete # {}
  BY DEF Complete
<1>3. Background => at' = at /\ t'.has = t.has
  BY <1>1
  DEF Types, Background, CallsBack, CallbackRuns, CallbackEnters, CallbackGives, CallbackLeaves,
    WorkerRuns, WorkerChecks, WorkerTakes, WorkerWakes, WorkerReads, WorkerLeaves, WorkerGoes
<1>4. Prepare \/ (\E got \in Partial : PrepareFails(got)) => at' \notin {"idle", "up"}
  BY DEF Prepare, PrepareFails, Goto
<1>5. BeginStop => at' = "stop" /\ t' = t
  BY DEF BeginStop, Goto
<1>6. TouchSteps => at # "idle" /\ at' # "idle" /\ (at' = "up" => t'.has # {})
  BY <1>1, <1>2 DEF Types, Stages, TouchSteps, Install, Spawn, Stop, Quiesce, Join, FreeTouch, Goto
<1> QED BY <1>3, <1>4, <1>5, <1>6

LEMMA TouchKeeps ==
  ASSUME TouchInv, PlatformInd, TouchRuns \/ TouchBackground \/ UNCHANGED allVars
  PROVE  PlatformInd'
<1>1. UNCHANGED <<platformVars, cacheVars>>
  BY DEF TouchRuns, TouchBackground, allVars
<1>2. PartTypes' /\ Parts' /\ DecoderTurn' /\ Faults' /\ Planes' /\ Contained'
  BY <1>1 DEF PlatformInd, PartTypes, Planned, Parts, DecoderTurn, Faults, Planes, PlanesApart,
      Contained, platformVars, cacheVars, CanDeinit,
      DisplayUp, TouchUp, EncoderUp, MouseUp, DecoderUp, EngineUp
<1>3. TouchUp' = TouchUp /\ phase' = phase /\ plan' = plan
  BY <1>1 DEF platformVars, TouchUp
<1>4. TouchTurn'
  <2>1. CASE TouchRuns
    BY <1>3, <2>1, TouchMoves DEF TouchRuns, PlatformInd, TouchTurn, Making, Unmaking
  <2>2. CASE TouchBackground
    BY <1>3, <2>2, TouchMoves DEF TouchBackground, PlatformInd, TouchTurn
  <2>3. CASE UNCHANGED allVars
    BY <1>3, <2>3 DEF allVars, touchVars, PlatformInd, TouchTurn
  <2> QED BY <2>1, <2>2, <2>3
<1> QED BY <1>2, <1>4 DEF PlatformInd

\* init and deinit begin; the application sets its providers.
LEMMA BeginKeeps ==
  ASSUME PlatformInd, BeginInit \/ BeginDeinit \/ \E S \in ProviderSets : SetProvider(S)
  PROVE  PlatformInd'
<1> USE DEF PlatformInd, DisplayUp, TouchUp, EncoderUp, MouseUp, DecoderUp, EngineUp
<1>1. CASE BeginInit
  <2>1. Planned' /\ phase' = "init" /\ Head(plan') = "display" /\ handle' = {}
    BY <1>1, SetupFollows DEF BeginInit, Planned, Plans, Follows
  <2>2. phase = "off" /\ UNCHANGED <<made, provider, d, g, touchVars, cacheVars>>
    BY <1>1 DEF BeginInit
  <2>3. PartTypes' /\ Parts'
    BY <2>1, <2>2 DEF PartTypes, Parts
  <2>4. TouchTurn' /\ DecoderTurn' /\ Faults'
    BY <2>1, <2>2 DEF TouchTurn, DecoderTurn, Faults, touchVars, cacheVars
  <2>5. Planes' /\ Contained'
    BY <2>2 DEF Planes, PlanesApart, Contained
  <2> QED BY <2>3, <2>4, <2>5
<1>2. CASE BeginDeinit
  <2>1. Planned' /\ phase' = "deinit" /\ Head(plan') = "touch" /\ CanDeinit
    BY <1>2, TeardownFollows DEF BeginDeinit, Planned, Plans, Follows
  <2>2. phase = "on" /\ UNCHANGED <<handle, made, provider, d, g, touchVars, cacheVars>>
    BY <1>2 DEF BeginDeinit
  <2>3. PartTypes' /\ Parts'
    BY <2>1, <2>2 DEF PartTypes, Parts
  <2>4. TouchTurn' /\ DecoderTurn' /\ Faults'
    BY <2>1, <2>2 DEF TouchTurn, DecoderTurn, Faults, touchVars, cacheVars, CanDeinit
  <2>5. Planes' /\ Contained'
    BY <2>2 DEF Planes, PlanesApart, Contained
  <2> QED BY <2>3, <2>4, <2>5
<1>3. CASE \E S \in ProviderSets : SetProvider(S)
  <2>1. /\ phase = "off" /\ provider' \in ProviderSets
        /\ UNCHANGED <<phase, plan, handle, made, d, g, touchVars, cacheVars>>
    BY <1>3 DEF SetProvider
  <2>2. PartTypes' /\ Parts'
    BY <2>1 DEF PartTypes, Planned, Parts
  <2>3. TouchTurn' /\ DecoderTurn' /\ Faults'
    BY <2>1 DEF TouchTurn, DecoderTurn, Faults, touchVars, cacheVars, CanDeinit
  <2>4. Planes' /\ Contained'
    BY <2>1 DEF Planes, PlanesApart, Contained
  <2> QED BY <2>2, <2>3, <2>4
<1> QED BY <1>1, <1>2, <1>3

\* Making the display starts from fresh planes, and only without a fault; unmaking it
\* keeps it after one.
LEMMA DisplayKeeps ==
  ASSUME PlatformInd, DisplayMade \/ DisplayFails \/ DisplayUnmade
  PROVE  PlatformInd'
<1> USE DEF PlatformInd, DisplayUp, TouchUp, EncoderUp, MouseUp, DecoderUp, EngineUp
<1>1. CASE DisplayMade
  <2>1. Planned' /\ phase = "init" /\ Head(plan) = "display" /\ phase' = "init"
        /\ Head(plan') = "touch"
    BY <1>1, MakingProceeds DEF PartTypes, DisplayMade, Making, NextMade
  <2>2. /\ ~g.fault /\ d' = NewDisplay(d.copies, d.pan) /\ made' = made \cup {"display"}
        /\ handle' = handle \cup {"display"} /\ UNCHANGED <<provider, g, touchVars, cacheVars>>
    BY <1>1 DEF DisplayMade, Keep
  <2>3. PartTypes' /\ Parts'
    BY <2>1, <2>2 DEF PartTypes, Parts, NewDisplay
  <2>4. TouchTurn' /\ DecoderTurn' /\ Faults'
    BY <2>1, <2>2 DEF TouchTurn, DecoderTurn, Faults, touchVars, cacheVars, NewDisplay
  <2>5. Planes' /\ Contained'
    BY <2>2 DEF Planes, PlanesApart, Contained, NewDisplay, PartTypes
  <2> QED BY <2>3, <2>4, <2>5
<1>2. CASE DisplayFails
  <2>1. Planned' /\ phase = "init" /\ Head(plan) = "display" /\ phase' = "off"
    BY <1>2, Fails DEF DisplayFails, Making
  <2>2. UNCHANGED <<handle, made, provider, d, g, touchVars, cacheVars>>
    BY <1>2 DEF DisplayFails
  <2>3. PartTypes' /\ Parts'
    BY <2>1, <2>2 DEF PartTypes, Parts
  <2>4. TouchTurn' /\ DecoderTurn' /\ Faults'
    BY <2>1, <2>2 DEF TouchTurn, DecoderTurn, Faults, touchVars, cacheVars
  <2>5. Planes' /\ Contained'
    BY <2>2 DEF Planes, PlanesApart, Contained
  <2> QED BY <2>3, <2>4, <2>5
<1>3. CASE DisplayUnmade
  <2>1. Planned' /\ phase \in {"undo", "deinit"} /\ Head(plan) = "display" /\ phase' = "off"
    BY <1>3, UndoProceeds, DeinitProceeds DEF PartTypes, DisplayUnmade, Unmaking
  <2>2. handle' = handle \ {"display"} /\ UNCHANGED <<provider, g, touchVars, cacheVars>>
    BY <1>3 DEF DisplayUnmade, Forget
  <2>3. CASE Retained
    <3>1. d' = [d EXCEPT !.quarantined = TRUE, !.valid = FALSE] /\ made' = made /\ g.fault
      BY <1>3, <2>3 DEF DisplayUnmade, Retained, Faults
    <3>2. PartTypes' /\ Parts'
      BY <2>1, <2>2, <3>1 DEF PartTypes, Parts
    <3>3. TouchTurn' /\ DecoderTurn' /\ Faults'
      BY <2>1, <2>2, <3>1 DEF TouchTurn, DecoderTurn, Faults, touchVars, cacheVars, PartTypes
    <3>4. Planes' /\ Contained'
      BY <2>2, <3>1 DEF Planes, PlanesApart, Contained, PartTypes
    <3> QED BY <3>2, <3>3, <3>4
  <2>4. CASE ~Retained
    <3>1. d' = d /\ made' = made \ {"display"} /\ ~g.fault /\ ~d.quarantined
      BY <1>3, <2>4 DEF DisplayUnmade, Retained
    <3>2. PartTypes' /\ Parts'
      BY <2>1, <2>2, <3>1 DEF PartTypes, Parts
    <3>3. TouchTurn' /\ DecoderTurn' /\ Faults'
      BY <2>1, <2>2, <3>1 DEF TouchTurn, DecoderTurn, Faults, touchVars, cacheVars
    <3>4. Planes' /\ Contained'
      BY <2>2, <3>1 DEF Planes, PlanesApart, Contained
    <3> QED BY <3>2, <3>3, <3>4
  <2> QED BY <2>3, <2>4
<1> QED BY <1>1, <1>2, <1>3

\* A flush that ends well leaves two planes apart; a fault keeps what the engine may reach.
LEMMA FlushKeeps ==
  ASSUME PlatformInd, Flush \/ FlushQuarantined \/ DrawFaults
  PROVE  PlatformInd'
<1> USE DEF PlatformInd, DisplayUp, TouchUp, EncoderUp, MouseUp, DecoderUp, EngineUp
<1>1. UNCHANGED <<phase, plan, handle, made, provider, touchVars, cacheVars>>
  BY DEF Flush, FlushQuarantined, DrawFaults
<1>2. TouchTurn' /\ DecoderTurn'
  BY <1>1 DEF TouchTurn, DecoderTurn, touchVars, cacheVars, CanDeinit
<1>3. CASE Flush
  <2>1. /\ "display" \in made /\ phase = "on" /\ ~d.waiting /\ ~d.quarantined
    BY <1>3 DEF Flush
  <2>2. PICK outcome \in IF d.copies THEN EngineOutcomes ELSE {1} :
          IF outcome = -1
            THEN /\ d' = [d EXCEPT !.quarantined = TRUE, !.valid = FALSE, !.waiting = TRUE]
                 /\ g' = [g EXCEPT !.fault = TRUE,
                            !.dma = IF g.fault THEN @ ELSE {"source", "plane"}]
            ELSE /\ \E panned, good \in BOOLEAN : Present(panned, good)
                 /\ UNCHANGED g
    BY <1>3 DEF Flush
  <2>3. CASE outcome = -1
    <3>1. ~g.fault => g.open
      BY <2>2, <2>3 DEF EngineOutcomes
    <3> DEFINE D == IF g.fault THEN g.dma ELSE {"source", "plane"}
    <3>2. /\ d' = [d EXCEPT !.quarantined = TRUE, !.valid = FALSE, !.waiting = TRUE]
          /\ g' = [g EXCEPT !.fault = TRUE, !.dma = D]
      BY <2>2, <2>3
    <3>3. D \in SUBSET {"source", "plane"} /\ (g.fault => D = g.dma)
      BY DEF PartTypes
    <3> HIDE DEF D
    <3>4. PartTypes' /\ Parts'
      <4>1. PartTypes'
        BY <1>1, <3>2, <3>3 DEF PartTypes, Planned
      <4>2. Parts'
        BY <1>1, <2>1, <3>2 DEF PartTypes, Parts
      <4> QED BY <4>1, <4>2
    <3>5. Faults' /\ Planes' /\ Contained'
      BY <1>1, <2>1, <3>1, <3>2, <3>3 DEF PartTypes, Faults, Planes, PlanesApart, Contained
    <3> QED BY <1>2, <3>4, <3>5
  <2>4. CASE outcome # -1
    <3>1. PICK panned, good \in BOOLEAN : Present(panned, good)
      BY <2>2, <2>4
    <3>2. UNCHANGED g
      BY <2>2, <2>4
    <3> DEFINE L == IF good THEN d.present ELSE d.last
               S == IF panned /\ d.pan THEN d.present ELSE d.scan
               N == IF d.pan THEN 1 - d.present ELSE d.present
    <3>3. d' = [d EXCEPT !.valid = good, !.last = L, !.scan = S, !.present = N]
      BY <3>1 DEF Present
    <3>4. d.present \in 0..1 /\ d.last \in 0..1 /\ d.scan \in 0..1
      BY DEF PartTypes
    <3>5. L \in 0..1 /\ S \in 0..1 /\ N \in 0..1
      BY <3>4
    <3>6. (~d.pan => N = 0 /\ S = 0) /\ (good => L = S /\ (d.pan => N # S))
      BY <3>1, <3>4 DEF Present, Planes
    <3> HIDE DEF L, S, N
    <3>7. PartTypes' /\ Parts'
      <4>1. PartTypes'
        BY <1>1, <3>2, <3>3, <3>5 DEF PartTypes, Planned
      <4>2. d'.quarantined = d.quarantined
        BY <3>3 DEF PartTypes
      <4>3. Parts'
        BY <1>1, <3>2, <4>2 DEF Parts
      <4> QED BY <4>1, <4>3
    <3>8. Faults' /\ Contained'
      BY <1>1, <2>1, <3>2, <3>3 DEF PartTypes, Faults, Contained
    <3>9. Planes'
      BY <3>3, <3>6 DEF PartTypes, Planes, PlanesApart
    <3> QED BY <1>2, <3>7, <3>8, <3>9
  <2> QED BY <2>3, <2>4
<1>4. CASE FlushQuarantined
  <2>1. d.quarantined /\ d' = [d EXCEPT !.waiting = TRUE] /\ UNCHANGED g
    BY <1>4 DEF FlushQuarantined
  <2>2. PartTypes' /\ Parts'
    <3>1. PartTypes'
      BY <1>1, <2>1 DEF PartTypes, Planned
    <3>2. d'.quarantined = d.quarantined
      BY <2>1 DEF PartTypes
    <3>3. Parts'
      BY <1>1, <3>2 DEF Parts
    <3> QED BY <3>1, <3>3
  <2>3. Faults' /\ Planes' /\ Contained'
    BY <1>1, <2>1 DEF PartTypes, Faults, Planes, PlanesApart, Contained
  <2> QED BY <1>2, <2>2, <2>3
<1>5. CASE DrawFaults
  <2>1. /\ phase = "on" /\ g.open /\ ~g.fault /\ UNCHANGED d
        /\ g' = [g EXCEPT !.fault = TRUE, !.dma = {"source"}]
    BY <1>5 DEF DrawFaults
  <2>2. PartTypes' /\ Parts'
    BY <1>1, <2>1 DEF PartTypes, Planned, Parts
  <2>3. Faults' /\ Planes' /\ Contained'
    BY <1>1, <2>1 DEF PartTypes, Parts, Faults, Planes, PlanesApart, Contained
  <2> QED BY <1>2, <2>2, <2>3
<1> QED BY <1>3, <1>4, <1>5

\* The touch device's init or cleanup returns.
LEMMA TouchReturnsKeeps ==
  ASSUME TouchInv, PlatformInd, TouchReturns
  PROVE  PlatformInd'
<1> USE DEF PlatformInd, DisplayUp, TouchUp, EncoderUp, MouseUp, DecoderUp, EngineUp
<1>1. /\ at' = "idle" /\ UNCHANGED <<t, made, provider, d, g, cacheVars>>
  BY DEF TouchReturns, Return
<1>2. NoTouch.has = {} /\ (at = "gone" => t = NoTouch)
  BY DEF NoTouch, TouchInv, Stages
<1>3. CASE Making("touch") /\ at = "up" /\ Return /\ Keep("touch") /\ Proceed
  <2>1. Planned' /\ phase = "init" /\ Head(plan) = "touch" /\ phase' = "init"
        /\ Head(plan') = "encoder"
    BY <1>3, MakingProceeds DEF PartTypes, Making, NextMade
  <2>2. handle' = handle \cup {"touch"} /\ at = "up"
    BY <1>3 DEF Keep
  <2>3. PartTypes' /\ Parts'
    BY <1>1, <2>1, <2>2 DEF PartTypes, Parts
  <2>4. TouchTurn' /\ DecoderTurn' /\ Faults'
    BY <1>1, <2>1, <2>2 DEF TouchTurn, DecoderTurn, Faults, cacheVars
  <2>5. Planes' /\ Contained'
    BY <1>1 DEF Planes, PlanesApart, Contained
  <2> QED BY <2>3, <2>4, <2>5
<1>4. CASE Making("touch") /\ at = "gone" /\ Return /\ FailAt("touch") /\ UNCHANGED handle
  <2>1. Planned' /\ phase = "init" /\ Head(plan) = "touch" /\ phase' = "undo"
        /\ Head(plan') = "display"
    BY <1>4, Fails DEF Making
  <2>2. UNCHANGED handle /\ t.has = {}
    BY <1>2, <1>4
  <2>3. PartTypes' /\ Parts'
    BY <1>1, <2>1, <2>2 DEF PartTypes, Parts
  <2>4. TouchTurn' /\ DecoderTurn' /\ Faults'
    BY <1>1, <2>1, <2>2 DEF TouchTurn, DecoderTurn, Faults, cacheVars
  <2>5. Planes' /\ Contained'
    BY <1>1 DEF Planes, PlanesApart, Contained
  <2> QED BY <2>3, <2>4, <2>5
<1>5. CASE Unmaking("touch") /\ at = "gone" /\ Return /\ Forget("touch") /\ Proceed
  <2>1. /\ Planned' /\ Head(plan) = "touch"
        /\ \/ phase = "undo" /\ phase' = "undo" /\ Head(plan') = "display"
           \/ phase = "deinit" /\ phase' = "deinit" /\ Head(plan') = "mouse"
    BY <1>5, UndoProceeds, DeinitProceeds DEF PartTypes, Unmaking, NextUndone, NextUnmade
  <2>2. handle' = handle \ {"touch"} /\ t.has = {}
    BY <1>2, <1>5 DEF Forget
  <2>3. PartTypes' /\ Parts'
    BY <1>1, <2>1, <2>2 DEF PartTypes, Parts
  <2>4. TouchTurn' /\ DecoderTurn' /\ Faults'
    BY <1>1, <2>1, <2>2 DEF TouchTurn, DecoderTurn, Faults, cacheVars, CanDeinit
  <2>5. Planes' /\ Contained'
    BY <1>1 DEF Planes, PlanesApart, Contained
  <2> QED BY <2>3, <2>4, <2>5
<1> QED BY <1>3, <1>4, <1>5 DEF TouchReturns

\* Encoder and mouse.
LEMMA InputsKeep ==
  ASSUME PlatformInd, NEW part \in {"encoder", "mouse"},
         InputMade(part) \/ InputFails(part) \/ InputUnmade(part)
  PROVE  PlatformInd'
<1> USE DEF PlatformInd, DisplayUp, TouchUp, EncoderUp, MouseUp, DecoderUp, EngineUp
<1>1. UNCHANGED <<provider, d, g, touchVars, cacheVars>>
  BY DEF InputMade, InputFails, InputUnmade
<1>2. Planes' /\ Contained'
  <2>1. "display" \in made => "display" \in made'
    BY DEF InputMade, InputFails, InputUnmade
  <2> QED BY <1>1, <2>1 DEF Planes, PlanesApart, Contained
<1>3. CASE InputMade(part)
  <2>1. Planned' /\ phase = "init" /\ Head(plan) = part /\ phase' = "init"
        /\ Head(plan') = NextMade(part)
    BY <1>3, MakingProceeds DEF PartTypes, InputMade, Making
  <2>2. Head(plan') = IF part = "encoder" THEN "mouse" ELSE "decoder"
    BY <2>1 DEF NextMade
  <2>3. /\ part \in provider => made' = made \cup {part} /\ handle' = handle \cup {part}
        /\ part \notin provider => UNCHANGED <<made, handle>>
    BY <1>3 DEF InputMade, Keep
  <2>4. PartTypes' /\ Parts'
    <3>1. PartTypes'
      BY <1>1, <2>1, <2>3 DEF PartTypes
    <3>2. Parts'
      <4>1. CASE part = "encoder"
        BY <1>1, <2>1, <2>2, <2>3, <4>1 DEF Parts
      <4>2. CASE part = "mouse"
        BY <1>1, <2>1, <2>2, <2>3, <4>2 DEF Parts
      <4> QED BY <4>1, <4>2
    <3> QED BY <3>1, <3>2
  <2>5. TouchTurn' /\ DecoderTurn' /\ Faults'
    BY <1>1, <2>1, <2>2 DEF TouchTurn, DecoderTurn, Faults, touchVars, cacheVars
  <2> QED BY <1>2, <2>4, <2>5
<1>4. CASE InputFails(part)
  <2>1. /\ Planned' /\ phase = "init" /\ Head(plan) = part /\ phase' = "undo"
        /\ Head(plan') = IF part = "encoder" THEN "touch" ELSE "encoder"
    BY <1>4, Fails DEF InputFails, Making
  <2>2. UNCHANGED <<made, handle>>
    BY <1>4 DEF InputFails
  <2>3. PartTypes' /\ Parts'
    BY <1>1, <2>1, <2>2 DEF PartTypes, Parts
  <2>4. TouchTurn' /\ DecoderTurn' /\ Faults'
    BY <1>1, <2>1, <2>2 DEF TouchTurn, DecoderTurn, Faults, touchVars, cacheVars
  <2> QED BY <1>2, <2>3, <2>4
<1>5. CASE InputUnmade(part)
  <2>1. /\ Planned' /\ Head(plan) = part
        /\ \/ phase = "undo" /\ phase' = "undo" /\ Head(plan') = NextUndone(part)
           \/ phase = "deinit" /\ phase' = "deinit" /\ Head(plan') = NextUnmade(part)
    BY <1>5, UndoProceeds, DeinitProceeds DEF PartTypes, InputUnmade, Unmaking
  <2>2. /\ phase = "undo" => Head(plan') = IF part = "mouse" THEN "encoder" ELSE "touch"
        /\ phase = "deinit" => Head(plan') = IF part = "mouse" THEN "encoder" ELSE "decoder"
    BY <2>1 DEF NextUndone, NextUnmade
  <2>3. /\ handle' = handle \ {part}
        /\ made' = IF part \in handle THEN made \ {part} ELSE made
    BY <1>5 DEF InputUnmade, Forget
  <2>4. PartTypes' /\ Parts'
    BY <1>1, <2>1, <2>2, <2>3 DEF PartTypes, Parts
  <2>5. TouchTurn' /\ DecoderTurn' /\ Faults'
    BY <1>1, <2>1, <2>2 DEF TouchTurn, DecoderTurn, Faults, touchVars, cacheVars, CanDeinit
  <2> QED BY <1>2, <2>4, <2>5
<1> QED BY <1>3, <1>4, <1>5

\* The decoder: its pictures count only while the platform is on.
LEMMA DecoderKeeps ==
  ASSUME PlatformInd, DecoderMade \/ DecoderFails \/ DecoderUnmade \/ PicturesUsed
  PROVE  PlatformInd'
<1> USE DEF PlatformInd, DisplayUp, TouchUp, EncoderUp, MouseUp, DecoderUp, EngineUp
<1>1. UNCHANGED <<made, provider, d, g, touchVars>>
  BY DEF DecoderMade, DecoderFails, DecoderUnmade, PicturesUsed, platformVars
<1>2. Planes' /\ Contained'
  BY <1>1 DEF Planes, PlanesApart, Contained
<1>3. CASE DecoderMade
  <2>1. Planned' /\ phase = "init" /\ Head(plan) = "decoder" /\ phase' = "init"
        /\ Head(plan') = "ge"
    BY <1>3, MakingProceeds DEF PartTypes, DecoderMade, Making, NextMade
  <2>2. handle' = handle \cup {"decoder"} /\ registered'
    BY <1>3 DEF DecoderMade, DecoderInit, Keep
  <2>3. PartTypes' /\ Parts'
    BY <1>1, <2>1, <2>2 DEF PartTypes, Parts
  <2>4. TouchTurn' /\ DecoderTurn' /\ Faults'
    BY <1>1, <2>1, <2>2 DEF TouchTurn, DecoderTurn, Faults, touchVars
  <2> QED BY <1>2, <2>3, <2>4
<1>4. CASE DecoderFails
  <2>1. Planned' /\ phase = "init" /\ Head(plan) = "decoder" /\ phase' = "undo"
        /\ Head(plan') = "mouse"
    BY <1>4, Fails DEF DecoderFails, Making
  <2>2. UNCHANGED <<handle, cacheVars>>
    BY <1>4 DEF DecoderFails
  <2>3. PartTypes' /\ Parts'
    BY <1>1, <2>1, <2>2 DEF PartTypes, Parts
  <2>4. TouchTurn' /\ DecoderTurn' /\ Faults'
    BY <1>1, <2>1, <2>2 DEF TouchTurn, DecoderTurn, Faults, touchVars, cacheVars
  <2> QED BY <1>2, <2>3, <2>4
<1>5. CASE DecoderUnmade
  <2>1. Planned' /\ phase = "deinit" /\ Head(plan) = "decoder" /\ phase' = "deinit"
        /\ Head(plan') = "ge"
    BY <1>5, UndoProceeds, DeinitProceeds DEF PartTypes, DecoderUnmade, Unmaking, NextUnmade
  <2>2. handle' = handle \ {"decoder"} /\ ~registered'
    BY <1>5, <2>1 DEF DecoderUnmade, DecoderDeinit, Forget, DecoderTurn
  <2>3. PartTypes' /\ Parts'
    BY <1>1, <2>1, <2>2 DEF PartTypes, Parts
  <2>4. TouchTurn' /\ DecoderTurn' /\ Faults'
    BY <1>1, <2>1, <2>2 DEF TouchTurn, DecoderTurn, Faults, touchVars
  <2> QED BY <1>2, <2>3, <2>4
<1>6. CASE PicturesUsed
  <2>1. phase = "on" /\ UNCHANGED <<phase, plan, handle, registered>>
    <3>1. CacheOps => UNCHANGED registered
      <4>1. \A r \in Reader, src \in Source, args \in Requests, nocache \in BOOLEAN :
              \/ OpenHit(r, src, args) \/ OpenDecodes(r, src, args, nocache)
              \/ OpenFails(r, src, args, nocache)
              => UNCHANGED registered
        BY DEF OpenHit, OpenDecodes, OpenFails
      <4>2. \A S, src, b : CacheDrop(S) \/ DropAndChange(src) \/ SetLimit(b) => UNCHANGED registered
        BY DEF CacheDrop, DropAndChange, SetLimit
      <4>3. \A r : CloseReader(r) => UNCHANGED registered
        BY DEF CloseReader
      <4>4. TRUE \in BOOLEAN
        OBVIOUS
      <4> QED BY <4>1, <4>2, <4>3, <4>4 DEF CacheOps
    <3> QED BY <1>6, <3>1 DEF PicturesUsed, platformVars
  <2>2. PartTypes' /\ Parts'
    BY <1>1, <2>1 DEF PartTypes, Planned, Parts
  <2>3. TouchTurn' /\ DecoderTurn' /\ Faults'
    BY <1>1, <2>1 DEF TouchTurn, DecoderTurn, Faults, touchVars
  <2> QED BY <1>2, <2>2, <2>3
<1> QED BY <1>3, <1>4, <1>5, <1>6

\* The engine's client: a faulted one is neither opened nor closed again.
LEMMA EngineKeeps ==
  ASSUME PlatformInd, EngineMade \/ EngineUnmade
  PROVE  PlatformInd'
<1> USE DEF PlatformInd, DisplayUp, TouchUp, EncoderUp, MouseUp, DecoderUp, EngineUp
<1>1. UNCHANGED <<handle, made, provider, d, touchVars, cacheVars>>
  BY DEF EngineMade, EngineUnmade
<1>2. /\ g' \in [open : BOOLEAN, fault : BOOLEAN, dma : SUBSET {"source", "plane"}]
      /\ g'.fault = g.fault /\ g'.dma = g.dma /\ (g.fault => g'.open = g.open)
      /\ EngineUnmade => (g'.open => g'.fault)
  <2>1. CASE EngineMade
    <3>1. PICK ok \in BOOLEAN : g' = IF g.fault THEN g ELSE [g EXCEPT !.open = @ \/ ok]
      BY <2>1 DEF EngineMade
    <3> QED BY <2>1, <3>1 DEF PartTypes, EngineMade, EngineUnmade, Making, Unmaking
  <2>2. CASE EngineUnmade
    BY <2>2 DEF PartTypes, EngineUnmade
  <2> QED BY <2>1, <2>2
<1>3. Planes' /\ Contained'
  <2>1. g.dma # {} => g.fault
    BY DEF Contained
  <2> QED BY <1>1, <1>2, <2>1 DEF Planes, PlanesApart, Contained
<1>4. CASE EngineMade
  <2>1. Planned' /\ phase = "init" /\ Head(plan) = "ge" /\ phase' = "on"
    BY <1>4, MakingProceeds DEF PartTypes, EngineMade, Making
  <2>2. PartTypes' /\ Parts'
    BY <1>1, <1>2, <2>1 DEF PartTypes, Parts
  <2>3. TouchTurn' /\ DecoderTurn' /\ Faults'
    BY <1>1, <1>2, <2>1 DEF TouchTurn, DecoderTurn, Faults, touchVars, cacheVars
  <2> QED BY <1>3, <2>2, <2>3
<1>5. CASE EngineUnmade
  <2>1. Planned' /\ phase = "deinit" /\ Head(plan) = "ge" /\ phase' = "deinit"
        /\ Head(plan') = "display"
    BY <1>5, UndoProceeds, DeinitProceeds DEF PartTypes, EngineUnmade, Unmaking, NextUnmade
  <2>2. PartTypes' /\ Parts'
    BY <1>1, <1>2, <2>1 DEF PartTypes, Parts
  <2>3. TouchTurn' /\ DecoderTurn' /\ Faults'
    BY <1>1, <1>2, <1>5, <2>1 DEF TouchTurn, DecoderTurn, Faults, touchVars, cacheVars
  <2> QED BY <1>3, <2>2, <2>3
<1> QED BY <1>4, <1>5

LEMMA PlatformKeeps ==
  ASSUME TouchInv, PlatformInd, [PlatformNext]_allVars
  PROVE  PlatformInd'
<1>1. CASE PlatformCalls
  BY <1>1, DisplayKeeps, TouchKeeps, TouchReturnsKeeps, InputsKeep, DecoderKeeps, EngineKeeps
  DEF PlatformCalls
<1>2. CASE ~PlatformCalls
  BY <1>2, BeginKeeps, FlushKeeps, DecoderKeeps, TouchKeeps DEF PlatformNext
<1> QED BY <1>1, <1>2

LEMMA PlatformStarts ==
  ASSUME PlatformInit
  PROVE  PlatformInd
<1>1. /\ phase = "off" /\ plan = <<>> /\ handle = {} /\ made = {} /\ provider \in ProviderSets
      /\ g = [open |-> FALSE, fault |-> FALSE, dma |-> {}] /\ at = "idle" /\ t.has = {}
      /\ ~registered
  BY DEF PlatformInit, TouchInit, CacheInit, NoTouch
<1>2. PICK copies, pan \in BOOLEAN : d = NewDisplay(copies, pan)
  BY DEF PlatformInit
<1> USE DEF DisplayUp, TouchUp, EncoderUp, MouseUp, DecoderUp, EngineUp
<1>3. PartTypes /\ Parts
  BY <1>1, <1>2 DEF PartTypes, Planned, Parts, NewDisplay
<1>4. TouchTurn /\ DecoderTurn /\ Faults
  BY <1>1, <1>2 DEF TouchTurn, DecoderTurn, Faults, NewDisplay
<1>5. Planes /\ Contained
  BY <1>1, <1>2 DEF Planes, PlanesApart, Contained, NewDisplay
<1> QED BY <1>3, <1>4, <1>5 DEF PlatformInd

\* The plans are sequences of parts.
LEMMA PlansAreParts ==
  ASSUME Planned
  PROVE  plan \in Seq(ToSet(Setup))
<1>1. {"display", "touch", "encoder", "mouse", "decoder", "ge"} \subseteq ToSet(Setup)
  BY DEF Setup, ToSet
<1> DEFINE P == ToSet(Setup)
<1> HIDE DEF P
<1>2. Plans.init \subseteq Seq(P)
  BY <1>1 DEF P, Plans, Setup
<1>3. Plans.undo \subseteq Seq(P) /\ Plans.deinit \subseteq Seq(P)
  BY <1>1 DEF P, Plans, Teardown
<1>4. <<>> \in Seq(P)
  OBVIOUS
<1> QED BY <1>2, <1>3, <1>4 DEF Planned, P

LEMMA PlatformEnough ==
  ASSUME TouchInv, PlatformInd
  PROVE  PlatformInv
<1> USE DEF PlatformInd, DisplayUp, TouchUp, EncoderUp, MouseUp, DecoderUp, EngineUp
<1>1. TouchExists <=> t.has # {}
  BY DEF TouchExists, TouchInv, Context, NoTouch
<1>2. {"display", "touch", "encoder", "mouse", "decoder"} \subseteq ToSet(Setup)
  BY DEF Setup, ToSet
<1>3. PlatformTypeOK
  BY <1>2, PlansAreParts DEF PartTypes, Planned, PlatformTypeOK
<1>4. provider \subseteq {"encoder", "mouse"}
  BY PlatformConstants DEF PartTypes
<1>5. AllOrNothing
  <2>1. CASE phase = "on"
    <3>1. handle = {"display", "touch", "decoder"} \cup provider
      BY <1>4, <2>1 DEF PartTypes, Parts
    <3>2. made = {"display"} \cup provider
      BY <1>4, <2>1 DEF PartTypes, Parts
    <3> QED BY <1>1, <2>1, <3>1, <3>2 DEF TouchTurn, DecoderTurn, AllOrNothing
  <2>2. CASE phase = "off"
    <3>1. handle = {}
      BY <2>2 DEF PartTypes, Parts
    <3>2. made = IF d.quarantined THEN {"display"} ELSE {}
      <4>1. "encoder" \notin made /\ "mouse" \notin made
            /\ made \subseteq {"display", "encoder", "mouse"}
        BY <3>1 DEF PartTypes, Parts
      <4>2. "display" \in made <=> d.quarantined
        BY <2>2 DEF Parts
      <4>3. CASE d.quarantined
        BY <4>1, <4>2, <4>3
      <4>4. CASE ~d.quarantined
        BY <4>1, <4>2, <4>4
      <4> QED BY <4>3, <4>4
    <3> QED BY <1>1, <2>2, <3>1, <3>2 DEF TouchTurn, DecoderTurn, Faults, AllOrNothing
  <2> QED BY <2>1, <2>2 DEF AllOrNothing
<1>6. UsersGoFirst
  <2>1. SUFFICES ASSUME "display" \notin made
                 PROVE  ~TouchExists /\ ~registered /\ ~g.open /\ made = {}
    BY DEF UsersGoFirst
  <2>2. ~DisplayUp /\ ~d.quarantined
    BY <2>1 DEF Parts
  <2>3. ~TouchExists
    BY <1>1, <2>2 DEF TouchTurn, PartTypes, Planned
  <2> QED BY <2>1, <2>2, <2>3 DEF PartTypes, Planned, Parts, DecoderTurn, Faults
<1> QED BY <1>3, <1>5, <1>6 DEF PlatformInv, Planes

\* The inductive invariant of the platform and its touch device.
PlatformSafe == TouchInv /\ PlatformInd

LEMMA PlatformCoheres == PlatformSpec => []PlatformSafe
<1>1. PlatformInit => PlatformSafe
  BY StartSafe, PlatformStarts DEF PlatformSafe
<1>2. PlatformSafe /\ [PlatformNext]_allVars => PlatformSafe'
  BY PlatformMoves, StepSafe, OthersSafe, PlatformKeeps DEF PlatformSafe
<1> QED BY <1>1, <1>2, PTL DEF PlatformSpec

\* lv_aic_init makes everything or leaves nothing, lv_aic_deinit too; what draws or
\* reads for the display goes first, and the next frame has its own plane, whatever
\* fails on the way.
THEOREM PlatformHolds == PlatformSpec => []PlatformInv
<1>1. PlatformSafe => PlatformInv
  BY PlatformEnough DEF PlatformSafe
<1> QED BY <1>1, PlatformCoheres, PTL

\* A step after a fault leaves the fault and a copying display's planes as they are.
LEMMA FaultLasts ==
  ASSUME PlatformInd, [PlatformNext]_allVars, g.fault
  PROVE  g'.fault /\ (d.copies => d'.scan = d.scan /\ d'.last = d.last)
<1>1. CASE DisplayMade \/ DisplayFails \/ DisplayUnmade
  BY <1>1 DEF DisplayMade, DisplayFails, DisplayUnmade, PlatformInd, PartTypes
<1>2. CASE EngineMade \/ EngineUnmade
  BY <1>2 DEF EngineMade, EngineUnmade
<1>3. CASE Flush
  BY <1>3 DEF Flush, EngineOutcomes, PlatformInd, PartTypes
<1>4. CASE FlushQuarantined \/ DrawFaults
  BY <1>4 DEF FlushQuarantined, DrawFaults, PlatformInd, PartTypes
<1>5. CASE UNCHANGED <<d, g>>
  BY <1>5
<1>6. \/ DisplayMade \/ DisplayFails \/ DisplayUnmade \/ EngineMade \/ EngineUnmade
      \/ Flush \/ FlushQuarantined \/ DrawFaults \/ UNCHANGED <<d, g>>
  BY DEF PlatformNext, PlatformCalls, BeginInit, BeginDeinit, SetProvider, TouchRuns,
      TouchReturns, InputMade, InputFails, InputUnmade, DecoderMade, DecoderFails, DecoderUnmade,
      PicturesUsed, TouchBackground, platformVars, allVars
<1> QED BY <1>1, <1>2, <1>3, <1>4, <1>5, <1>6

\* After a fault of the GE2D engine the client, the display, its buffers and the
\* framebuffer stay, the flush does not return its buffer, and no software copy goes
\* over the plane (lv_aic_display.c, lv_draw_aic_ge2d.c).
THEOREM FaultContained == PlatformSpec => FaultIsContained
<1>1. PlatformSafe /\ PlatformSafe' /\ [PlatformNext]_allVars =>
        [/\ Contained'
         /\ g.fault => g'.fault /\ (d.copies => d'.scan = d.scan /\ d'.last = d.last)]_allVars
  BY FaultLasts DEF PlatformSafe, PlatformInd
<1> QED BY <1>1, PlatformCoheres, PTL DEF PlatformSpec, FaultIsContained

=============================================================================
