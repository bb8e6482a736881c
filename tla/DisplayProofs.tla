---------------------------- MODULE DisplayProofs ----------------------------
(***************************************************************************)
(* The SPI display is safe over both transports, and a claim for blits is  *)
(* exclusive.  DisplayInd strengthens SpiDisplayInv by what holds inside a *)
(* call: the books while collect updates them, whose the sources in the    *)
(* ring are, what a claim excludes, and which of LVGL's buffers are free   *)
(* where it renders, waits and flushes.                                    *)
(***************************************************************************)
EXTENDS SpiDisplay, SequenceTheorems, TLAPS

\* What the ring may hold.
Queues == {<<>>, <<1>>, <<2>>, <<1, 2>>, <<2, 1>>}
UiPlaces == {"idle", "collect", "collected", "render", "wait", "flush", "submit", "freed"}
Calls == {"none", "wait", "flush", "poll", "take", "claim", "close"}

Displays ==
  [alive : BOOLEAN, jobs : [Jobs -> Kinds], inflight : 0..2, sourcePending : BOOLEAN,
   pending : BOOLEAN, closing : BOOLEAN, claiming : BOOLEAN, blit : BOOLEAN,
   pendingBlit : BOOLEAN, result : {"OK", "INVALID", "BUSY", "FAULT"}]

Types ==
  /\ HandoffTypeOK /\ pipelined \in BOOLEAN /\ count \in {1, 2}
  /\ held \in Queues /\ nrel \in Nat /\ nrel <= Len(held)
  /\ d \in Displays
  /\ source \in [Jobs -> Buffers \cup {Client}]
  /\ lv \in [flushing : BOOLEAN, act : Buffers] /\ lv.act <= count
  /\ ui \in [at : UiPlaces, call : Calls, ok : BOOLEAN]

\* The worker of the one-job transport: it has the job where it works on it, and
\* looked once more after the stop before it leaves.
JobIsHanded ==
  /\ slot = "RUNNING" <=> worker \in {"submit", "drain", "publish"}
  /\ final => stopping /\ (worker # "run" => slot # "QUEUED")
  /\ worker = "gone" => final

\* The books, also while they are being updated.
RingBooks ==
  /\ Used = InRing /\ d.inflight = Len(held)
  /\ d.sourcePending <=> \E j \in Unreleased : d.jobs[j] = "flush"
  /\ d.pendingBlit <=> \E j \in Used : d.jobs[j] = "blit"
  /\ held # <<>> => d.pending
  /\ ui.at # "collect" /\ d.pending => held # <<>>
  /\ \A j \in Used : source[j] = Client <=> d.jobs[j] = "blit"
  /\ \A i, j \in Unreleased : d.jobs[i] = "flush" /\ d.jobs[j] = "flush" => i = j

JobBooks ==
  /\ d.inflight = 0 /\ (d.pending <=> slot # "EMPTY")
  /\ d.pendingBlit <=> slot # "EMPTY" /\ source[1] = Client

Books ==
  /\ pipelined => RingBooks
  /\ ~pipelined => JobBooks
  /\ ui.at = "collected" /\ ui.ok => ~d.pending

\* A claim that was granted, and the blits under it.
Claims ==
  /\ d.blit => d.claiming
  /\ d.blit /\ pipelined => /\ \A j \in Used : d.jobs[j] = "blit"
                            /\ \A i, j \in Used : i = j
  /\ d.blit /\ ~pipelined => slot = "EMPTY" \/ source[1] = Client
  /\ d.pendingBlit => d.blit
  /\ \A j \in Jobs : d.jobs[j] = "blit" => d.blit
  /\ ui.call = "claim" => d.claiming /\ ~d.blit
  /\ ui.at = "collect" /\ d.pendingBlit => ui.call \in {"take", "close"}

\* LVGL's buffers: those that it does not wait for are free.
Handing == ui.call = "flush" /\ ui.at \in {"collect", "collected", "submit"}
Free == Read \subseteq {Client}
Rendering ==
  /\ count = 2 => lv.act \notin Read
  /\ ~lv.flushing => Free
  /\ ui.at = "flush" => Free
  /\ Handing => Free /\ lv.flushing /\ ~d.claiming /\ (ui.at = "submit" <=> ~pipelined)
  /\ ui.at = "render" /\ count = 1 => Free
  /\ ui.at = "freed" => Read = {} /\ (~pipelined => Exited)

-----------------------------------------------------------------------------
(* The ring *)

\* What at most two places hold.
RingOk ==
  /\ Len(held) \in 0..2 /\ InRing \subseteq Jobs /\ Unreleased \subseteq InRing
  /\ (held = <<>> <=> Len(held) = 0) /\ (InRing = {} <=> Len(held) = 0)
  /\ (InRing = Jobs <=> Len(held) = 2)
  /\ nrel < Len(held) => held[nrel + 1] \in Unreleased
  /\ nrel > 0 => held[1] \in InRing /\ held[1] \notin Unreleased

\* The three lengths, with what is in the ring then.
LEMMA RingCases ==
  ASSUME held \in Queues, nrel \in Nat, nrel <= Len(held)
  PROVE  \/ held = <<>> /\ Len(held) = 0 /\ InRing = {} /\ Unreleased = {} /\ nrel = 0
         \/ \E a \in Jobs : /\ held = <<a>> /\ Len(held) = 1 /\ InRing = {a}
                            /\ Unreleased = IF nrel = 0 THEN {a} ELSE {}
         \/ \E a, b \in Jobs : /\ a # b /\ held = <<a, b>> /\ Len(held) = 2 /\ InRing = {a, b}
                               /\ Unreleased = (IF nrel = 0 THEN {a, b} ELSE
                                                IF nrel = 1 THEN {b} ELSE {})
<1>1. CASE held = <<>>
  BY <1>1 DEF InRing, Unreleased
<1>2. ASSUME NEW a \in Jobs, held = <<a>>
      PROVE  /\ Len(held) = 1 /\ InRing = {a} /\ Unreleased = IF nrel = 0 THEN {a} ELSE {}
  <2>1. Len(held) = 1 /\ held[1] = a
    BY <1>2
  <2> QED BY <2>1 DEF InRing, Unreleased
<1>3. ASSUME NEW a \in Jobs, NEW b \in Jobs, a # b, held = <<a, b>>
      PROVE  /\ Len(held) = 2 /\ InRing = {a, b}
             /\ Unreleased = (IF nrel = 0 THEN {a, b} ELSE IF nrel = 1 THEN {b} ELSE {})
  <2>1. Len(held) = 2 /\ held[1] = a /\ held[2] = b
    BY <1>3
  <2> QED BY <2>1 DEF InRing, Unreleased
<1>4. \/ held = <<>> \/ \E a \in Jobs : held = <<a>>
      \/ \E a, b \in Jobs : a # b /\ held = <<a, b>>
  BY DEF Queues, Jobs
<1> QED BY <1>1, <1>2, <1>3, <1>4

LEMMA RingFacts ==
  ASSUME held \in Queues, nrel \in Nat, nrel <= Len(held)
  PROVE  RingOk
<1>1. CASE held = <<>> /\ Len(held) = 0 /\ InRing = {} /\ Unreleased = {} /\ nrel = 0
  BY <1>1 DEF RingOk, Jobs
<1>2. ASSUME NEW a \in Jobs, held = <<a>>, Len(held) = 1, InRing = {a},
             Unreleased = IF nrel = 0 THEN {a} ELSE {}
      PROVE  RingOk
  BY <1>2 DEF RingOk, Jobs
<1>3. ASSUME NEW a \in Jobs, NEW b \in Jobs, a # b, held = <<a, b>>, Len(held) = 2,
             InRing = {a, b},
             Unreleased = (IF nrel = 0 THEN {a, b} ELSE IF nrel = 1 THEN {b} ELSE {})
      PROVE  RingOk
  BY <1>3 DEF RingOk, Jobs
<1> QED BY <1>1, <1>2, <1>3, RingCases

\* A sequence of one, and one more.
LEMMA TwoOfOne ==
  ASSUME NEW S, NEW a \in S, NEW b \in S
  PROVE  Append(<<>>, a) = <<a>> /\ Append(<<a>>, b) = <<a, b>>
         /\ Tail(<<a>>) = <<>> /\ Tail(<<a, b>>) = <<b>>
<1>1. <<a>> \in Seq(S) /\ <<a, b>> \in Seq(S) /\ <<>> \in Seq(S) /\ <<b>> \in Seq(S)
  OBVIOUS
<1>2. Append(<<a>>, b) \in Seq(S) /\ Len(Append(<<a>>, b)) = 2
      /\ \A i \in 1..2 : Append(<<a>>, b)[i] = <<a, b>>[i]
  BY <1>1
<1>3. Append(<<>>, a) \in Seq(S) /\ Len(Append(<<>>, a)) = 1
      /\ \A i \in 1..1 : Append(<<>>, a)[i] = <<a>>[i]
  BY <1>1
<1>4. Tail(<<a, b>>) \in Seq(S) /\ Len(Tail(<<a, b>>)) = 1
      /\ \A i \in 1..1 : Tail(<<a, b>>)[i] = <<b>>[i]
  BY <1>1
<1>5. Tail(<<a>>) \in Seq(S) /\ Len(Tail(<<a>>)) = 0
  BY <1>1
<1>6. Append(<<a>>, b) = <<a, b>>
  BY <1>1, <1>2, SeqEqual
<1>7. Append(<<>>, a) = <<a>>
  BY <1>1, <1>3, SeqEqual
<1>8. Tail(<<a, b>>) = <<b>>
  BY <1>1, <1>4, SeqEqual
<1>9. Tail(<<a>>) = <<>>
  BY <1>5, EmptySeq
<1> QED BY <1>6, <1>7, <1>8, <1>9

\* A frame comes in (lv_aic_spi_pipeline_submit).
LEMMA RingAccepts ==
  ASSUME held \in Queues, nrel \in Nat, nrel <= Len(held), NEW j \in Jobs, Ring!Accept(j)
  PROVE  /\ held' \in Queues /\ nrel' = nrel /\ nrel' <= Len(held') /\ Len(held') = Len(held) + 1
         /\ j \notin InRing /\ InRing' = InRing \cup {j} /\ Unreleased' = Unreleased \cup {j}
<1>1. held' = Append(held, j) /\ nrel' = nrel /\ Len(held) < 2 /\ j \notin InRing
  BY DEF Ring!Accept, InRing
<1>2. CASE held = <<>> /\ Len(held) = 0 /\ InRing = {} /\ Unreleased = {} /\ nrel = 0
  <2>1. held' = <<j>>
    BY <1>1, <1>2, TwoOfOne
  <2>2. Len(held') = 1 /\ held'[1] = j
    BY <2>1
  <2>3. InRing' = {j} /\ Unreleased' = {j}
    BY <1>1, <1>2, <2>2 DEF InRing, Unreleased
  <2> QED BY <1>1, <1>2, <2>1, <2>2, <2>3 DEF Queues, Jobs
<1>3. ASSUME NEW a \in Jobs, held = <<a>>, Len(held) = 1, InRing = {a},
             Unreleased = IF nrel = 0 THEN {a} ELSE {}
      PROVE  /\ held' \in Queues /\ nrel' <= Len(held') /\ Len(held') = 2
             /\ InRing' = {a, j} /\ Unreleased' = Unreleased \cup {j}
  <2>1. held' = <<a, j>> /\ a # j
    BY <1>1, <1>3, TwoOfOne
  <2>2. Len(held') = 2 /\ held'[1] = a /\ held'[2] = j
    BY <2>1
  <2>3. InRing' = {a, j}
    BY <2>2 DEF InRing
  <2>4. Unreleased' = {held'[n] : n \in (nrel + 1)..2}
    BY <1>1, <2>2 DEF Unreleased
  <2>5. Unreleased' = IF nrel = 0 THEN {a, j} ELSE {j}
    BY <2>2, <2>4, <1>3
  <2>6. held' \in Queues
    BY <2>1 DEF Queues, Jobs
  <2> QED BY <1>1, <1>3, <2>2, <2>3, <2>5, <2>6
<1> QED BY <1>1, <1>2, <1>3, RingCases

\* The oldest unreleased one is released.
LEMMA RingReleases ==
  ASSUME held \in Queues, nrel \in Nat, nrel <= Len(held), Ring!ReleaseSource
  PROVE  /\ held' = held /\ nrel' \in Nat /\ nrel' <= Len(held) /\ InRing' = InRing
         /\ held[nrel + 1] \in Unreleased /\ Unreleased' = Unreleased \ {held[nrel + 1]}
<1>1. held' = held /\ nrel' = nrel + 1 /\ nrel < Len(held)
  BY DEF Ring!ReleaseSource
<1>2. InRing' = InRing
  BY <1>1 DEF InRing
<1>3. ASSUME NEW a \in Jobs, held = <<a>>, Len(held) = 1, InRing = {a},
             Unreleased = IF nrel = 0 THEN {a} ELSE {}
      PROVE  held[nrel + 1] \in Unreleased /\ Unreleased' = Unreleased \ {held[nrel + 1]}
  <2>1. nrel = 0 /\ held[1] = a
    BY <1>1, <1>3
  <2>2. Unreleased' = {}
    BY <1>1, <1>3, <2>1 DEF Unreleased
  <2> QED BY <1>3, <2>1, <2>2
<1>4. ASSUME NEW a \in Jobs, NEW b \in Jobs, a # b, held = <<a, b>>, Len(held) = 2,
             InRing = {a, b},
             Unreleased = (IF nrel = 0 THEN {a, b} ELSE IF nrel = 1 THEN {b} ELSE {})
      PROVE  held[nrel + 1] \in Unreleased /\ Unreleased' = Unreleased \ {held[nrel + 1]}
  <2>1. held[1] = a /\ held[2] = b
    BY <1>4
  <2>2. Unreleased' = {held[n] : n \in (nrel + 2)..2}
    BY <1>1, <1>4 DEF Unreleased
  <2>3. CASE nrel = 0
    BY <1>4, <2>1, <2>2, <2>3
  <2>4. CASE nrel = 1
    BY <1>4, <2>1, <2>2, <2>4
  <2> QED BY <1>1, <1>4, <2>3, <2>4
<1> QED BY <1>1, <1>2, <1>3, <1>4, RingCases

\* The oldest released one is complete.
LEMMA RingCompletes ==
  ASSUME held \in Queues, nrel \in Nat, nrel <= Len(held), NEW r, Ring!Completion(r)
  PROVE  /\ held' \in Queues /\ nrel' \in Nat /\ nrel' <= Len(held') /\ Len(held') = Len(held) - 1
         /\ held[1] \in InRing /\ held[1] \notin Unreleased
         /\ InRing' = InRing \ {held[1]} /\ Unreleased' = Unreleased
<1>1. held' = Tail(held) /\ nrel' = nrel - 1 /\ nrel > 0
  BY DEF Ring!Completion
<1>2. ASSUME NEW a \in Jobs, held = <<a>>, Len(held) = 1, InRing = {a},
             Unreleased = IF nrel = 0 THEN {a} ELSE {}
      PROVE  /\ held' \in Queues /\ nrel' \in Nat /\ nrel' <= Len(held') /\ Len(held') = 0
             /\ held[1] \in InRing /\ held[1] \notin Unreleased
             /\ InRing' = InRing \ {held[1]} /\ Unreleased' = Unreleased
  <2>1. held' = <<>> /\ held[1] = a /\ nrel = 1
    BY <1>1, <1>2, TwoOfOne
  <2>2. Len(held') = 0
    BY <2>1
  <2>3. nrel' = 0
    BY <1>1, <2>1
  <2>4. InRing' = {} /\ Unreleased' = {}
    BY <2>2, <2>3 DEF InRing, Unreleased
  <2> QED BY <1>2, <2>1, <2>2, <2>3, <2>4 DEF Queues
<1>3. ASSUME NEW a \in Jobs, NEW b \in Jobs, a # b, held = <<a, b>>, Len(held) = 2,
             InRing = {a, b},
             Unreleased = (IF nrel = 0 THEN {a, b} ELSE IF nrel = 1 THEN {b} ELSE {})
      PROVE  /\ held' \in Queues /\ nrel' \in Nat /\ nrel' <= Len(held') /\ Len(held') = 1
             /\ held[1] \in InRing /\ held[1] \notin Unreleased
             /\ InRing' = InRing \ {held[1]} /\ Unreleased' = Unreleased
  <2>1. held' = <<b>> /\ held[1] = a /\ nrel \in {1, 2}
    BY <1>1, <1>3, TwoOfOne
  <2>2. Len(held') = 1 /\ held'[1] = b
    BY <2>1
  <2>3. InRing' = {b}
    BY <2>2 DEF InRing
  <2>4. Unreleased' = {held'[n] : n \in nrel..1}
    BY <1>1, <2>1, <2>2 DEF Unreleased
  <2>5. Unreleased' = IF nrel = 1 THEN {b} ELSE {}
    BY <2>1, <2>2, <2>4
  <2> QED BY <1>1, <1>3, <2>1, <2>2, <2>3, <2>5 DEF Queues, Jobs
<1> QED BY <1>1, <1>2, <1>3, RingCases

\* The books are right, LVGL's buffers and the client's are kept apart.
DisplayInd == Types /\ JobIsHanded /\ Books /\ Claims /\ Rendering

-----------------------------------------------------------------------------
(* Steps that leave the transport alone *)

\* The types of the parts.
LEMMA Fields ==
  ASSUME Types
  PROVE  /\ d \in Displays
         /\ lv \in [flushing : BOOLEAN, act : Buffers] /\ lv.act <= count
         /\ ui \in [at : UiPlaces, call : Calls, ok : BOOLEAN]
         /\ source \in [Jobs -> Buffers \cup {Client}]
         /\ pipelined \in BOOLEAN /\ count \in {1, 2}
         /\ held \in Queues /\ nrel \in Nat /\ nrel <= Len(held) /\ RingOk
BY RingFacts DEF Types

\* What such a step leaves is the same.
LEMMA Untouched ==
  ASSUME Quiet
  PROVE  /\ UNCHANGED <<handoffVars, ringVars, fixed, source>>
         /\ UNCHANGED <<slot, worker, final, stopping, held, nrel, pipelined, count>>
         /\ InRing' = InRing /\ Unreleased' = Unreleased /\ Read' = Read /\ Exited' = Exited
<1>1. UNCHANGED <<handoffVars, ringVars, fixed, source>>
  BY DEF Quiet, NoTransport
<1>2. InRing' = InRing /\ Unreleased' = Unreleased
  BY <1>1 DEF ringVars, InRing, Unreleased
<1> QED BY <1>1, <1>2 DEF ringVars, handoffVars, fixed, Read, Exited

\* The books stay right, also when the collecting that updates them ends.
LEMMA BooksStay ==
  ASSUME Books, Quiet,
         /\ d'.jobs = d.jobs /\ d'.inflight = d.inflight /\ d'.sourcePending = d.sourcePending
         /\ d'.pendingBlit = d.pendingBlit /\ d'.pending = d.pending,
         pipelined /\ ui.at = "collect" /\ ui'.at # "collect" /\ d.pending => held # <<>>,
         ui'.at = "collected" /\ ui'.ok => ~d.pending
  PROVE  Books'
<1>1. Used' = Used
  BY DEF Used
<1>2. pipelined => RingBooks'
  BY <1>1, Untouched DEF Books, RingBooks
<1>3. ~pipelined => JobBooks'
  BY Untouched DEF Books, JobBooks
<1> QED BY <1>2, <1>3, Untouched DEF Books

\* A call goes on.
LEMMA GotoTypes ==
  ASSUME NEW place \in UiPlaces, NEW call \in Calls, Goto(place, call)
  PROVE  ui' \in [at : UiPlaces, call : Calls, ok : BOOLEAN]
BY DEF Goto

\* Calls that look at the display and decide how to go on.
Looks ==
  \/ CollectNothingOut \/ CollectNoVerdict \/ Refresh \/ Rendered \/ WaitFlush \/ FlushRetries
  \/ Poll \/ BlitTake \/ Answer \/ CloseRefused

\* The steps that follow what LVGL's own state says.
LvglGoesOn == WaitReturns \/ FlushDropped \/ FlushEnters

LEMMA LooksTypes ==
  ASSUME DisplayInd, Looks \/ LvglGoesOn
  PROVE  Types' /\ Quiet /\ UNCHANGED d
<1> USE DEF DisplayInd
<1>1. Quiet /\ UNCHANGED d
  BY DEF Looks, LvglGoesOn, CollectNothingOut, CollectNoVerdict, Refresh, Rendered, WaitFlush,
         FlushRetries, Poll, BlitTake, Answer, CloseRefused, WaitReturns, FlushDropped, FlushEnters
<1>2. ui' \in [at : UiPlaces, call : Calls, ok : BOOLEAN]
  <2>1. CASE Refresh \/ Rendered
    <3>1. Goto("wait", "wait") \/ Goto("render", "flush") \/ Goto("flush", "flush")
      BY <2>1 DEF Refresh, Rendered, LvglWaits, AfterWait
    <3> QED BY <3>1, GotoTypes DEF UiPlaces, Calls
  <2>2. CASE CollectNothingOut \/ CollectNoVerdict
    BY <2>2, Fields DEF CollectNothingOut, CollectNoVerdict, Collected, UiPlaces
  <2>3. CASE LvglGoesOn
    <3>1. \/ Goto("render", "flush") \/ Goto("flush", "flush") \/ Goto("idle", "none")
          \/ Goto("collect", "flush") \/ Goto("submit", "flush")
      BY <2>3 DEF LvglGoesOn, WaitReturns, FlushDropped, FlushEnters, AfterWait, Return
    <3> QED BY <3>1, GotoTypes DEF UiPlaces, Calls
  <2>4. CASE WaitFlush \/ FlushRetries \/ Poll \/ BlitTake \/ Answer \/ CloseRefused
    <3>1. \/ Goto("collect", "wait") \/ Goto("collect", "flush") \/ Goto("collect", "poll")
          \/ Goto("collect", "take") \/ Goto("idle", "none")
      BY <2>4 DEF WaitFlush, FlushRetries, Poll, BlitTake, Answer, CloseRefused, Return, Collecting
    <3> QED BY <3>1, GotoTypes DEF UiPlaces, Calls
  <2> QED BY <2>1, <2>2, <2>3, <2>4 DEF Looks
<1>3. lv' \in [flushing : BOOLEAN, act : Buffers] /\ lv'.act <= count
  <2>1. CASE Looks
    BY <2>1, Fields DEF Looks, CollectNothingOut, CollectNoVerdict, Refresh, Rendered, WaitFlush,
                FlushRetries, Poll, BlitTake, Answer, CloseRefused
  <2>2. CASE WaitReturns \/ FlushEnters
    BY <2>2, Fields DEF WaitReturns, FlushEnters
  <2>3. CASE FlushDropped
    BY <2>3, Fields DEF FlushDropped, Swapped, Buffers
  <2> QED BY <2>1, <2>2, <2>3 DEF LvglGoesOn
<1>4. HandoffTypeOK'
  BY <1>1, Untouched DEF Types, HandoffTypeOK, handoffVars, userSide
<1> QED BY <1>1, <1>2, <1>3, <1>4, Untouched DEF Types, ringVars, fixed

\* They keep the invariant.
LEMMA LooksKeep ==
  ASSUME DisplayInd, Looks \/ LvglGoesOn
  PROVE  DisplayInd'
<1>1. Types' /\ Quiet /\ UNCHANGED d
  BY LooksTypes
<1>2. /\ UNCHANGED <<slot, worker, final, stopping, held, nrel, pipelined, count, source>>
      /\ InRing' = InRing /\ Unreleased' = Unreleased /\ Read' = Read /\ Exited' = Exited
  BY <1>1, Untouched
<1>3. /\ Types /\ JobIsHanded /\ Books /\ Claims /\ Rendering /\ d \in Displays
      /\ lv \in [flushing : BOOLEAN, act : Buffers] /\ ui \in [at : UiPlaces, call : Calls, ok : BOOLEAN]
  BY Fields DEF DisplayInd
<1>4. JobIsHanded'
  BY <1>2, <1>3 DEF JobIsHanded
<1> USE DEF Goto, Return, Collecting, Collected, At, Idle
<1>5. Books'
  <2>1. pipelined /\ ui.at = "collect" /\ ui'.at # "collect" /\ d.pending => held # <<>>
    <3>1. CASE CollectNothingOut \/ CollectNoVerdict
      BY <3>1 DEF CollectNothingOut, CollectNoVerdict
    <3> QED BY <3>1 DEF Looks, LvglGoesOn, Refresh, Rendered, WaitFlush, FlushRetries, Poll,
               BlitTake, Answer, CloseRefused, WaitReturns, FlushDropped, FlushEnters
  <2>2. ui'.at = "collected" /\ ui'.ok => ~d.pending
    <3>1. CASE CollectNothingOut \/ CollectNoVerdict
      BY <3>1, <1>3 DEF CollectNothingOut, CollectNoVerdict
    <3>2. CASE ~ui'.ok
      BY <3>2
    <3> QED BY <3>1, <3>2 DEF Looks, LvglGoesOn, Refresh, Rendered, WaitFlush, FlushRetries, Poll,
               BlitTake, Answer, CloseRefused, WaitReturns, FlushDropped, FlushEnters,
               LvglWaits, AfterWait
  <2> QED BY <1>1, <1>3, <2>1, <2>2, BooksStay
<1>6. Claims'
  <2>1. Used' = Used
    BY <1>1 DEF Used
  <2>2. /\ ui'.call = "claim" => ui.call = "claim"
        /\ ui'.at = "collect" /\ d.pendingBlit => ui'.call \in {"take", "close"}
    <3>1. CASE CollectNothingOut \/ CollectNoVerdict
      <4>1. ui'.call = ui.call /\ ui'.at = "collected"
        BY <3>1, <1>3 DEF CollectNothingOut, CollectNoVerdict
      <4> QED BY <4>1
    <3>2. CASE FlushRetries
      <4>1. d.inflight = 2 /\ ui'.call = "flush"
        BY <3>2 DEF FlushRetries
      <4>2. pipelined /\ Used = Jobs
        BY <4>1, <1>3, Fields DEF Books, RingBooks, JobBooks, RingOk
      <4>3. ~d.blit
        BY <4>2, <1>3 DEF Claims, Jobs
      <4> QED BY <4>1, <4>3, <1>3 DEF Claims
    <3>3. CASE WaitFlush \/ Poll \/ BlitTake \/ Answer \/ CloseRefused
      BY <3>3 DEF WaitFlush, Poll, MayPoll, BlitTake, Answer, CloseRefused
    <3>4. CASE Refresh \/ Rendered
      BY <3>4 DEF Refresh, Rendered, LvglWaits, AfterWait
    <3>5. CASE LvglGoesOn
      BY <3>5, <1>3 DEF LvglGoesOn, WaitReturns, FlushDropped, FlushEnters, AfterWait, Claims
    <3> QED BY <3>1, <3>2, <3>3, <3>4, <3>5 DEF Looks
  <2> QED BY <1>1, <1>2, <1>3, <2>1, <2>2 DEF Claims
<1>7. Rendering'
  <2>1. CASE CollectNothingOut \/ CollectNoVerdict
    <3>1. ui.at = "collect" /\ ui'.at = "collected" /\ ui'.call = ui.call /\ lv' = lv
      BY <2>1, <1>3 DEF CollectNothingOut, CollectNoVerdict
    <3>2. Handing' => Handing
      BY <3>1 DEF Handing
    <3> QED BY <3>1, <3>2, <1>1, <1>2, <1>3 DEF Rendering, Free
  <2>2. CASE WaitFlush \/ FlushRetries \/ Poll \/ BlitTake \/ Answer \/ CloseRefused
    BY <2>2, <1>2, <1>3 DEF WaitFlush, FlushRetries, Poll, BlitTake, Answer, CloseRefused,
                            Rendering, Handing, Free
  <2>3. CASE Refresh \/ Rendered
    BY <2>3, <1>2, <1>3, Fields DEF Refresh, Rendered, LvglWaits, AfterWait, Rendering, Handing, Free
  <2>4. CASE WaitReturns
    <3>1. Free
      <4>1. CASE pipelined
        <5>1. RingBooks /\ Unreleased \subseteq Used
          BY <4>1, <1>3, Fields DEF Books, RingBooks, RingOk
        <5>2. \A j \in Unreleased : d.jobs[j] = "blit"
          <6>1. CASE d.pendingBlit
            BY <5>1, <6>1, <4>1, <1>3 DEF Claims
          <6>2. CASE ~d.sourcePending
            BY <5>1, <6>2, <4>1, Fields, <1>3 DEF RingBooks, Used, Kinds, Displays
          <6> QED BY <2>4, <4>1, <6>1, <6>2 DEF WaitReturns, WaitOver
        <5> QED BY <4>1, <5>1, <5>2 DEF RingBooks, Free, Read
      <4>2. CASE ~pipelined
        <5>1. slot = "EMPTY" \/ source[1] = Client
          BY <2>4, <4>2, <1>3 DEF WaitReturns, WaitOver, Books, JobBooks
        <5> QED BY <4>2, <5>1 DEF Free, Read
      <4> QED BY <4>1, <4>2
    <3> QED BY <2>4, <1>2, <1>3, <3>1, Fields DEF WaitReturns, AfterWait, Rendering, Handing, Free
  <2>5. CASE FlushDropped
    <3>1. Free /\ lv'.act \in Buffers
      BY <2>5, <1>1, <1>3 DEF FlushDropped, Rendering, Handing, Types
    <3>2. lv'.act \notin Read
      BY <3>1 DEF Free, Buffers, Client
    <3> QED BY <2>5, <1>2, <1>3, <3>1, <3>2 DEF FlushDropped, Rendering, Handing, Free
  <2>6. CASE FlushEnters
    BY <2>6, <1>2, <1>3 DEF FlushEnters, Rendering, Handing, Free
  <2> QED BY <2>1, <2>2, <2>3, <2>4, <2>5, <2>6 DEF Looks, LvglGoesOn
<1> QED BY <1>1, <1>4, <1>5, <1>6, <1>7 DEF DisplayInd

\* The collecting of a ring ends, and a claim is asked for and answered.
Settles == CollectEnds \/ ClaimBlit \/ ClaimAnswered

LEMMA SettlesKeep ==
  ASSUME DisplayInd, Settles
  PROVE  DisplayInd'
<1>1. Quiet /\ UNCHANGED lv
  BY DEF Settles, CollectEnds, ClaimBlit, ClaimAnswered
<1>2. /\ UNCHANGED <<slot, worker, final, stopping, held, nrel, pipelined, count, source>>
      /\ UNCHANGED <<handoffVars, ringVars, fixed>>
      /\ InRing' = InRing /\ Unreleased' = Unreleased /\ Read' = Read /\ Exited' = Exited
  BY <1>1, Untouched
<1>3. /\ Types /\ JobIsHanded /\ Books /\ Claims /\ Rendering
      /\ d \in Displays
      /\ ui \in [at : UiPlaces, call : Calls, ok : BOOLEAN] /\ RingOk
  BY Fields DEF DisplayInd
<1>4. JobIsHanded'
  BY <1>2, <1>3 DEF JobIsHanded
<1>5. HandoffTypeOK'
  BY <1>2, <1>3 DEF Types, HandoffTypeOK, handoffVars, userSide
<1>6. CASE CollectEnds
  <2>1. d' = [d EXCEPT !.pending = d.inflight # 0] /\ pipelined /\ ui.at = "collect"
    BY <1>6 DEF CollectEnds
  <2>2. /\ d'.jobs = d.jobs /\ d'.inflight = d.inflight /\ d'.sourcePending = d.sourcePending
        /\ d'.pendingBlit = d.pendingBlit /\ d'.blit = d.blit /\ d'.claiming = d.claiming
        /\ (d'.pending <=> d.inflight # 0)
    BY <2>1, <1>3 DEF Displays
  <2>3. ui'.at = "collected" /\ ui'.call = ui.call /\ (ui'.ok <=> d.inflight = 0)
    BY <1>6, <1>3 DEF CollectEnds, Collected
  <2>4. Used' = Used
    BY <2>2 DEF Used
  <2>5. held # <<>> <=> d.inflight # 0
    BY <2>1, <1>3 DEF Books, RingBooks, RingOk
  <2>6. Types'
    <3>1. d' \in Displays
      BY <2>1, <1>3 DEF Displays
    <3>2. ui' \in [at : UiPlaces, call : Calls, ok : BOOLEAN]
      BY <1>6, <1>3 DEF CollectEnds, Collected, UiPlaces
    <3> QED BY <1>1, <1>2, <1>3, <1>5, <3>1, <3>2 DEF Types
  <2>7. Books'
    <3>1. RingBooks'
      BY <2>1, <2>2, <2>3, <2>4, <2>5, <1>2, <1>3 DEF Books, RingBooks
    <3> QED BY <2>1, <2>2, <2>3, <3>1, <1>2 DEF Books
  <2>8. Claims'
    BY <2>2, <2>3, <2>4, <1>2, <1>3 DEF Claims
  <2>9. Rendering'
    BY <2>1, <2>3, <1>1, <1>2, <1>3 DEF Rendering, Handing, Free
  <2> QED BY <1>4, <2>6, <2>7, <2>8, <2>9 DEF DisplayInd
<1>7. CASE ClaimBlit
  <2>1. d' = [d EXCEPT !.claiming = TRUE] /\ Goto("collect", "claim") /\ ~d.blit /\ ui.at = "idle"
    BY <1>7 DEF ClaimBlit, Collecting, Idle
  <2>2. /\ d'.jobs = d.jobs /\ d'.inflight = d.inflight /\ d'.sourcePending = d.sourcePending
        /\ d'.pendingBlit = d.pendingBlit /\ d'.blit = d.blit /\ d'.claiming
        /\ d'.pending = d.pending
    BY <2>1, <1>3 DEF Displays
  <2>3. ui'.at = "collect" /\ ui'.call = "claim" /\ ui'.ok = FALSE
    BY <2>1 DEF Goto
  <2>4. Used' = Used
    BY <2>2 DEF Used
  <2>5. Types'
    <3>1. d' \in Displays
      BY <2>1, <1>3 DEF Displays
    <3> QED BY <1>1, <1>2, <1>3, <1>5, <2>1, <3>1, GotoTypes DEF Types, UiPlaces, Calls
  <2>6. Books'
    BY <1>1, <1>3, <2>1, <2>2, <2>3, BooksStay
  <2>7. Claims'
    BY <2>1, <2>2, <2>3, <2>4, <1>2, <1>3 DEF Claims
  <2>8. Rendering'
    BY <2>3, <1>1, <1>2, <1>3 DEF Rendering, Handing, Free
  <2> QED BY <1>4, <2>5, <2>6, <2>7, <2>8 DEF DisplayInd
<1>8. CASE ClaimAnswered
  <2>1. /\ d' = [d EXCEPT !.blit = Grants] /\ Goto("idle", "none")
        /\ ui.at = "collected" /\ ui.call = "claim"
    BY <1>8 DEF ClaimAnswered, Return, At
  <2>2. /\ d'.jobs = d.jobs /\ d'.inflight = d.inflight /\ d'.sourcePending = d.sourcePending
        /\ d'.pendingBlit = d.pendingBlit /\ d'.blit = Grants /\ d'.claiming = d.claiming
        /\ d'.pending = d.pending
    BY <2>1, <1>3 DEF Displays
  <2>3. ui'.at = "idle" /\ ui'.call = "none" /\ ui'.ok = FALSE
    BY <2>1 DEF Goto
  <2>4. Used' = Used
    BY <2>2 DEF Used
  <2>5. Types'
    <3>1. Grants \in BOOLEAN
      BY DEF Grants
    <3>2. d' \in Displays
      BY <2>1, <3>1, <1>3 DEF Displays
    <3> QED BY <1>1, <1>2, <1>3, <1>5, <2>1, <3>2, GotoTypes DEF Types, UiPlaces, Calls
  <2>6. Books'
    BY <1>1, <1>3, <2>1, <2>2, <2>3, BooksStay
  <2>7. Claims'
    <3>1. ~d.blit /\ d.claiming /\ ~d.pendingBlit /\ \A j \in Jobs : d.jobs[j] # "blit"
      BY <2>1, <1>3 DEF Claims
    <3>2. d'.blit => ~d.pending
      BY <2>1, <2>2, <1>3 DEF Grants, Books
    <3>3. ~d.pending => IF pipelined THEN Used = {} ELSE slot = "EMPTY"
      BY <2>1, <1>3 DEF Books, RingBooks, JobBooks, RingOk
    <3> QED BY <2>2, <2>3, <2>4, <3>1, <3>2, <3>3, <1>2, <1>3 DEF Claims
  <2>8. Rendering'
    BY <2>3, <1>1, <1>2, <1>3 DEF Rendering, Handing, Free
  <2> QED BY <1>4, <2>5, <2>6, <2>7, <2>8 DEF DisplayInd
<1> QED BY <1>6, <1>7, <1>8 DEF Settles

-----------------------------------------------------------------------------
(* Collecting what the transport has *)

\* The parts of the invariant, with the types of what the display keeps.
LEMMA Parts ==
  ASSUME DisplayInd
  PROVE  /\ Types /\ JobIsHanded /\ Books /\ Claims /\ Rendering /\ RingOk
         /\ held \in Queues /\ nrel \in Nat /\ nrel <= Len(held)
         /\ d \in Displays /\ source \in [Jobs -> Buffers \cup {Client}]
         /\ lv \in [flushing : BOOLEAN, act : Buffers] /\ lv.act <= count
         /\ ui \in [at : UiPlaces, call : Calls, ok : BOOLEAN]
         /\ pipelined \in BOOLEAN /\ count \in {1, 2} /\ HandoffTypeOK
BY Fields DEF DisplayInd, Types

\* Sources that LVGL does not know are the client's.
LEMMA NoFlushIsFree ==
  ASSUME d.jobs \in [Jobs -> Kinds], pipelined, Unreleased \subseteq Used,
         \A j \in Used : source[j] = Client <=> d.jobs[j] = "blit",
         \A j \in Unreleased : d.jobs[j] # "flush"
  PROVE  Free
BY DEF Free, Read, Used, Kinds

\* The release of a flushed frame's source leaves LVGL no other to wait for.
LEMMA ReleaseKeeps ==
  ASSUME DisplayInd, CollectRelease
  PROVE  DisplayInd'
<1> DEFINE x == held[nrel + 1]
<1>1. /\ ui.at = "collect" /\ d.pending /\ pipelined /\ Ring!ReleaseSource
      /\ UNCHANGED <<handoffVars, fixed, source, ui>>
  BY DEF CollectRelease
<1>2. /\ held' = held /\ nrel' \in Nat /\ nrel' <= Len(held) /\ InRing' = InRing
      /\ x \in Unreleased /\ Unreleased' = Unreleased \ {x}
  BY <1>1, Parts, RingReleases
<1>3. /\ UNCHANGED <<slot, verdict, latched, stopping, worker, final, pipelined, count, source, ui>>
      /\ Exited' = Exited
  BY <1>1 DEF handoffVars, fixed, Exited
<1>4. /\ x \in Jobs /\ x \in InRing /\ Unreleased \subseteq Used /\ RingBooks
      /\ Unreleased' \subseteq Unreleased
  BY <1>1, <1>2, Parts DEF RingOk, Books, RingBooks
<1>5. /\ d'.jobs = d.jobs /\ d'.inflight = d.inflight /\ d'.pendingBlit = d.pendingBlit
      /\ d'.pending = d.pending /\ d'.blit = d.blit /\ d'.claiming = d.claiming /\ d' \in Displays
      /\ d'.sourcePending = (d.sourcePending /\ d.jobs[x] # "flush")
  <2>1. CASE d.jobs[x] = "flush"
    <3>1. d' = [d EXCEPT !.sourcePending = FALSE]
      BY <2>1 DEF CollectRelease
    <3> QED BY <2>1, <3>1, Parts DEF Displays
  <2>2. CASE d.jobs[x] # "flush"
    <3>1. d' = d
      BY <2>2 DEF CollectRelease
    <3>2. d.sourcePending \in BOOLEAN
      BY Parts DEF Displays
    <3> QED BY <2>2, <3>1, <3>2, Parts
  <2> QED BY <2>1, <2>2
<1>6. /\ lv' \in [flushing : BOOLEAN, act : Buffers] /\ lv'.act = lv.act
      /\ d.jobs[x] # "flush" => lv' = lv
  BY Parts DEF CollectRelease, FlushReady
<1>7. Used' = Used
  BY <1>5 DEF Used
<1>8. Types'
  BY <1>2, <1>3, <1>5, <1>6, Parts DEF Types, HandoffTypeOK
<1>9. JobIsHanded'
  BY <1>3, Parts DEF JobIsHanded
<1>10. RingBooks'
  <2>1. d'.sourcePending <=> \E j \in Unreleased' : d'.jobs[j] = "flush"
    BY <1>2, <1>4, <1>5, Parts DEF RingBooks, Displays
  <2> QED BY <1>2, <1>3, <1>4, <1>5, <1>7, <2>1 DEF RingBooks
<1>11. Books'
  BY <1>1, <1>3, <1>5, <1>10, Parts DEF Books
<1>12. Claims'
  BY <1>1, <1>3, <1>5, <1>7, Parts DEF Claims
<1>13. Rendering'
  <2>1. Read' \subseteq Read
    BY <1>1, <1>3, <1>4 DEF Read
  <2>2. d.jobs[x] = "flush" => Free'
    <3>1. ASSUME d.jobs[x] = "flush"
          PROVE  \A j \in Unreleased' : d'.jobs[j] # "flush"
      BY <3>1, <1>2, <1>4, <1>5 DEF RingBooks
    <3>2. \A j \in Unreleased' : source'[j] \in Buffers \cup {Client}
                              /\ (d'.jobs[j] # "flush" => source'[j] = Client)
      BY <1>3, <1>4, <1>5, <1>2, Parts DEF RingBooks, Used, Displays, Kinds, RingOk
    <3> QED BY <1>1, <1>3, <3>1, <3>2 DEF Free, Read
  <2>3. Free => d.jobs[x] # "flush"
    BY <1>1, <1>2, <1>4, Parts DEF Free, Read, RingBooks
  <2>4. CASE d.jobs[x] = "flush"
    BY <1>1, <1>3, <1>5, <1>6, <2>1, <2>2, <2>3, <2>4, Parts DEF Rendering, Handing, Free
  <2>5. CASE d.jobs[x] # "flush"
    BY <1>1, <1>3, <1>5, <1>6, <2>1, <2>5, Parts DEF Rendering, Handing, Free
  <2> QED BY <2>4, <2>5
<1> QED BY <1>8, <1>9, <1>11, <1>12, <1>13 DEF DisplayInd

LEMMA CompletedType ==
  ASSUME NEW e \in Displays, NEW r \in {"OK", "INVALID", "BUSY", "FAULT"}, NEW n \in 0..2,
         NEW f \in [Jobs -> Kinds], NEW p \in BOOLEAN
  PROVE  [e EXCEPT !.result = r, !.inflight = n, !.jobs = f, !.pendingBlit = p] \in Displays
BY DEF Displays

\* A completion gives back the oldest job, whose source was released before.
LEMMA CompletionKeeps ==
  ASSUME DisplayInd, CollectCompletion
  PROVE  DisplayInd'
<1> DEFINE x == held[1]
<1>1. PICK r \in {"OK", "INVALID", "FAULT"} :
        /\ Ring!Completion(r)
        /\ d' = [d EXCEPT !.result = r, !.inflight = Freed(@), !.jobs[held[1]] = "none",
                          !.pendingBlit = @ /\ d.jobs[held[1]] # "blit"]
  BY DEF CollectCompletion
<1>2. /\ ui.at = "collect" /\ d.pending /\ pipelined
      /\ UNCHANGED <<handoffVars, fixed, source, lv, ui>>
  BY DEF CollectCompletion
<1>3. /\ held' \in Queues /\ nrel' \in Nat /\ nrel' <= Len(held') /\ Len(held') = Len(held) - 1
      /\ x \in InRing /\ x \notin Unreleased
      /\ InRing' = InRing \ {x} /\ Unreleased' = Unreleased
  BY <1>1, Parts, RingCompletes
<1>4. /\ UNCHANGED <<slot, verdict, latched, stopping, worker, final, pipelined, count, source, lv, ui>>
      /\ Exited' = Exited
  BY <1>2 DEF handoffVars, fixed, Exited
<1>5. /\ x \in Jobs /\ x \in Used /\ Unreleased \subseteq Used /\ RingBooks
      /\ Len(held) \in 1..2 /\ Used \subseteq Jobs /\ held # <<>>
  BY <1>2, <1>3, Parts DEF RingOk, Books, RingBooks
<1>6. /\ d'.inflight = d.inflight - 1 /\ d'.sourcePending = d.sourcePending
      /\ d'.pending = d.pending /\ d'.blit = d.blit /\ d'.claiming = d.claiming
      /\ d'.jobs = [d.jobs EXCEPT ![x] = "none"]
      /\ d'.pendingBlit = (d.pendingBlit /\ d.jobs[x] # "blit")
  BY <1>1, Parts DEF Displays, Freed
<1>7. d'.jobs[x] = "none" /\ \A j \in Jobs \ {x} : d'.jobs[j] = d.jobs[j]
  BY <1>5, <1>6, Parts DEF Displays
<1>8. Used' = Used \ {x}
  BY <1>7 DEF Used
<1>9. d' \in Displays
  <2>1. d.inflight - 1 \in 0..2
    BY <1>5 DEF RingBooks
  <2>2. [d.jobs EXCEPT ![x] = "none"] \in [Jobs -> Kinds]
    BY Parts DEF Displays, Kinds
  <2>3. (d.pendingBlit /\ d.jobs[x] # "blit") \in BOOLEAN
    OBVIOUS
  <2>4. d' = [d EXCEPT !.result = r, !.inflight = d.inflight - 1,
                       !.jobs = [d.jobs EXCEPT ![x] = "none"],
                       !.pendingBlit = (d.pendingBlit /\ d.jobs[x] # "blit")]
    BY <1>1 DEF Freed
  <2>5. d \in Displays /\ r \in {"OK", "INVALID", "BUSY", "FAULT"}
    BY Parts
  <2> DEFINE n == d.inflight - 1
             g == [d.jobs EXCEPT ![x] = "none"]
             b == (d.pendingBlit /\ d.jobs[x] # "blit")
  <2>6. d' = [d EXCEPT !.result = r, !.inflight = n, !.jobs = g, !.pendingBlit = b]
    BY <2>4
  <2>7. n \in 0..2 /\ g \in [Jobs -> Kinds] /\ b \in BOOLEAN
    BY <2>1, <2>2, <2>3
  <2> HIDE DEF n, g, b
  <2> QED BY <2>5, <2>6, <2>7, CompletedType
<1>10. Types'
  BY <1>3, <1>4, <1>9, Parts DEF Types, HandoffTypeOK
<1>11. JobIsHanded'
  BY <1>4, Parts DEF JobIsHanded
<1>12. RingBooks'
  <2>1. Used' = InRing' /\ d'.inflight = Len(held')
    BY <1>3, <1>5, <1>6, <1>8 DEF RingBooks
  <2>2. \A j \in Unreleased : j \in Jobs \ {x} /\ d'.jobs[j] = d.jobs[j]
    BY <1>3, <1>5, <1>7
  <2>3. d'.sourcePending <=> \E j \in Unreleased' : d'.jobs[j] = "flush"
    BY <1>3, <1>5, <1>6, <2>2 DEF RingBooks
  <2>4. d'.pendingBlit <=> \E j \in Used' : d'.jobs[j] = "blit"
    <3>1. CASE d.jobs[x] = "blit"
      <4>1. d.blit /\ Used = {x}
        BY <3>1, <1>2, <1>5, Parts DEF Claims
      <4> QED BY <3>1, <4>1, <1>6, <1>8
    <3>2. CASE d.jobs[x] # "blit"
      <4>1. d'.pendingBlit <=> d.pendingBlit
        BY <3>2, <1>6, Parts DEF Displays
      <4>2. d.pendingBlit <=> \E j \in Used : d.jobs[j] = "blit"
        BY <1>5 DEF RingBooks
      <4>3. \A j \in Used' : j \in Used /\ d'.jobs[j] = d.jobs[j]
        BY <1>5, <1>7, <1>8
      <4>4. \A j \in Used : d.jobs[j] = "blit" => j \in Used' /\ d'.jobs[j] = "blit"
        BY <3>2, <1>5, <1>7, <1>8
      <4> QED BY <4>1, <4>2, <4>3, <4>4
    <3> QED BY <3>1, <3>2
  <2>5. \A j \in Used' : source'[j] = Client <=> d'.jobs[j] = "blit"
    BY <1>4, <1>5, <1>7, <1>8 DEF RingBooks
  <2>6. \A i, j \in Unreleased' : d'.jobs[i] = "flush" /\ d'.jobs[j] = "flush" => i = j
    BY <1>3, <1>5, <2>2 DEF RingBooks
  <2> QED BY <1>2, <1>4, <1>6, <2>1, <2>3, <2>4, <2>5, <2>6 DEF RingBooks
<1>13. Books'
  BY <1>2, <1>4, <1>6, <1>12, Parts DEF Books
<1>14. Claims'
  <2>1. \A j \in Jobs : d'.jobs[j] = "blit" => d.jobs[j] = "blit"
    BY <1>7
  <2>2. \A j \in Used' : j \in Used /\ d'.jobs[j] = d.jobs[j]
    BY <1>5, <1>7, <1>8
  <2>3. d'.pendingBlit => d.pendingBlit
    BY <1>6
  <2>4. ui' = ui /\ pipelined' /\ d'.blit = d.blit /\ d'.claiming = d.claiming
    BY <1>2, <1>4, <1>6
  <2>5. /\ d.blit => d.claiming /\ \A i \in Used : d.jobs[i] = "blit" /\ \A j \in Used : i = j
        /\ d.pendingBlit => d.blit
        /\ \A j \in Jobs : d.jobs[j] = "blit" => d.blit
        /\ ui.call = "claim" => d.claiming /\ ~d.blit
        /\ ui.at = "collect" /\ d.pendingBlit => ui.call \in {"take", "close"}
    BY <1>2, Parts DEF Claims
  <2> QED BY <2>1, <2>2, <2>3, <2>4, <2>5 DEF Claims
<1>15. Rendering'
  <2>1. Read' = Read
    BY <1>2, <1>3, <1>4 DEF Read
  <2> QED BY <1>2, <1>4, <1>6, <2>1, Parts DEF Rendering, Handing, Free
<1> QED BY <1>10, <1>11, <1>13, <1>14, <1>15 DEF DisplayInd

\* The worker's verdict ends the one job there is.
LEMMA VerdictKeeps ==
  ASSUME DisplayInd, CollectVerdict
  PROVE  DisplayInd'
<1>1. /\ ui.at = "collect" /\ d.pending /\ ~pipelined /\ Take
      /\ d' = [d EXCEPT !.result = verdict, !.pending = FALSE, !.pendingBlit = FALSE]
      /\ Collected(TRUE) /\ UNCHANGED <<ringVars, fixed, source>>
  BY DEF CollectVerdict
<1>2. /\ slot = "DONE" /\ slot' = "EMPTY" /\ latched' \in BOOLEAN
      /\ UNCHANGED <<verdict, stopping, worker, final>>
  BY <1>1, Parts DEF Take, HandoffTypeOK
<1>3. /\ UNCHANGED <<held, nrel, alarm, phase, pipelined, count, source>>
      /\ InRing' = InRing /\ Unreleased' = Unreleased
  BY <1>1 DEF ringVars, fixed, InRing, Unreleased
<1>4. /\ d'.jobs = d.jobs /\ d'.inflight = d.inflight /\ d'.pending = FALSE
      /\ d'.pendingBlit = FALSE /\ d'.blit = d.blit /\ d'.claiming = d.claiming /\ d' \in Displays
  BY <1>1, Parts DEF Displays, HandoffTypeOK
<1>5. lv' \in [flushing : BOOLEAN, act : Buffers] /\ lv'.act = lv.act
  BY Parts DEF CollectVerdict, FlushReady
<1>6. /\ ui'.at = "collected" /\ ui'.call = ui.call
      /\ ui' \in [at : UiPlaces, call : Calls, ok : BOOLEAN]
  BY <1>1, Parts DEF Collected, UiPlaces
<1>7. Used' = Used
  BY <1>4 DEF Used
<1>8. Types'
  BY <1>2, <1>3, <1>4, <1>5, <1>6, Parts DEF Types, HandoffTypeOK, SlotStates
<1>9. JobIsHanded'
  BY <1>2, Parts DEF JobIsHanded
<1>10. Books'
  BY <1>1, <1>2, <1>3, <1>4, Parts DEF Books, JobBooks
<1>11. Claims'
  BY <1>1, <1>2, <1>3, <1>4, <1>6, Parts DEF Claims
<1>12. Rendering'
  <2>1. Read' = {}
    BY <1>1, <1>2, <1>3 DEF Read
  <2>2. ~Handing'
    BY <1>1, <1>6, Parts DEF Rendering, Handing
  <2> QED BY <1>6, <2>1, <2>2 DEF Rendering, Free
<1> QED BY <1>8, <1>9, <1>10, <1>11, <1>12 DEF DisplayInd

-----------------------------------------------------------------------------
(* Handing a frame to the transport *)

\* The job a ring gives a new frame.
LEMMA JobIsFree ==
  ASSUME d.jobs \in [Jobs -> Kinds], pipelined => FreeJobs # {}
  PROVE  Job \in Jobs /\ (pipelined => Job \notin Used) /\ (~pipelined => Job = 1)
<1>1. CASE pipelined
  <2>1. \E j \in FreeJobs : \A i \in FreeJobs : j <= i
    BY <1>1 DEF FreeJobs, Jobs
  <2>2. Job \in FreeJobs
    BY <1>1, <2>1 DEF Job
  <2> QED BY <1>1, <2>2 DEF FreeJobs, Used
<1>2. CASE ~pipelined
  BY <1>2 DEF Job, Jobs
<1> QED BY <1>1, <1>2

\* LVGL goes on with the other buffer, where there are two.
LEMMA SwapTypes ==
  ASSUME NEW l \in [flushing : BOOLEAN, act : Buffers], count \in {1, 2}, l.act <= count
  PROVE  /\ Swapped(l) \in [flushing : BOOLEAN, act : Buffers] /\ Swapped(l).act <= count
         /\ Swapped(l).flushing = l.flushing /\ (count = 2 => Swapped(l).act # l.act)
<1>1. 3 - l.act \in Buffers /\ 3 - l.act <= 2 /\ 3 - l.act # l.act
  BY DEF Buffers
<1>2. CASE count = 2
  BY <1>1, <1>2 DEF Swapped
<1>3. CASE count = 1
  BY <1>3 DEF Swapped
<1> QED BY <1>2, <1>3

\* A refusal leaves nothing with the transport.
LEMMA RefusalKeeps ==
  ASSUME DisplayInd, FlushRejected \/ BlitRejected
  PROVE  DisplayInd'
<1>1. PICK r \in {"FAULT", "INVALID", "BUSY"} : RefusedWith(r) /\ d' = [d EXCEPT !.result = r]
  BY DEF FlushRejected, BlitRejected
<1>2. Quiet
  BY <1>1 DEF FlushRejected, BlitRejected, RefusedWith, Quiet
<1>3. /\ UNCHANGED <<handoffVars, ringVars, fixed, source>>
      /\ UNCHANGED <<slot, worker, final, stopping, held, nrel, pipelined, count>>
      /\ InRing' = InRing /\ Unreleased' = Unreleased /\ Read' = Read /\ Exited' = Exited
  BY <1>2, Untouched
<1>4. /\ d'.jobs = d.jobs /\ d'.inflight = d.inflight /\ d'.sourcePending = d.sourcePending
      /\ d'.pendingBlit = d.pendingBlit /\ d'.pending = d.pending /\ d'.blit = d.blit
      /\ d'.claiming = d.claiming /\ d' \in Displays
  BY <1>1, Parts DEF Displays
<1>5. \/ /\ FlushRejected /\ Free /\ ui'.at = "idle" /\ ui'.call = "none" /\ ui'.ok = FALSE
         /\ lv' = Swapped([lv EXCEPT !.flushing = FALSE]) /\ ui.at \in {"collected", "submit"}
      \/ ui' = ui /\ lv' = lv /\ ui.at = "idle"
  BY Parts DEF FlushRejected, BlitRejected, Return, Goto, FlushAdmitted, At, Idle, Rendering, Handing
<1>6. ui' \in [at : UiPlaces, call : Calls, ok : BOOLEAN]
  BY <1>5, Parts DEF FlushRejected, Return, Goto, UiPlaces, Calls
<1>7. lv' \in [flushing : BOOLEAN, act : Buffers] /\ lv'.act <= count
  <2>1. CASE lv' = lv
    BY <2>1, Parts
  <2>2. CASE lv' = Swapped([lv EXCEPT !.flushing = FALSE])
    <3> DEFINE l == [lv EXCEPT !.flushing = FALSE]
    <3>1. l \in [flushing : BOOLEAN, act : Buffers] /\ l.act = lv.act
      BY Parts
    <3> HIDE DEF l
    <3>2. lv' = Swapped(l)
      BY <2>2 DEF l
    <3> QED BY <3>1, <3>2, SwapTypes, Parts
  <2> QED BY <1>5, <2>1, <2>2
<1>8. HandoffTypeOK'
  BY <1>3, Parts DEF HandoffTypeOK, handoffVars, userSide
<1>9. Types'
  BY <1>3, <1>4, <1>6, <1>7, <1>8, Parts DEF Types
<1>10. JobIsHanded'
  BY <1>3, Parts DEF JobIsHanded
<1>11. Books'
  BY <1>2, <1>4, <1>5, Parts, BooksStay
<1>12. Claims'
  <2>1. Used' = Used
    BY <1>4 DEF Used
  <2> QED BY <1>3, <1>4, <1>5, <2>1, Parts DEF Claims
<1>13. Rendering'
  <2>1. CASE Free
    <3>1. lv'.act \notin Read
      BY <1>7, <2>1 DEF Free, Buffers, Client
    <3> QED BY <1>3, <1>5, <2>1, <3>1, Parts DEF Rendering, Handing, Free
  <2>2. CASE ui' = ui /\ lv' = lv /\ ui.at = "idle"
    BY <1>3, <2>2, Parts DEF Rendering, Handing, Free
  <2> QED BY <1>5, <2>1, <2>2
<1> QED BY <1>9, <1>10, <1>11, <1>12, <1>13 DEF DisplayInd

\* What an accepted frame adds to the ring, and to the one-job transport.
LEMMA RingTakes ==
  ASSUME DisplayInd, pipelined, NEW kind \in {"flush", "blit"}, NEW pixels, TransportTakes(kind, pixels)
  PROVE  /\ Job \in Jobs /\ Job \notin Used /\ Job \notin Unreleased /\ RingBooks
         /\ held' \in Queues /\ nrel' \in Nat /\ nrel' <= Len(held') /\ Len(held') = Len(held) + 1
         /\ held' # <<>> /\ d.inflight + 1 \in 0..2
         /\ InRing' = InRing \cup {Job} /\ Unreleased' = Unreleased \cup {Job}
         /\ UNCHANGED handoffVars
<1>1. FreeJobs # {} /\ Ring!Accept(Job) /\ UNCHANGED handoffVars
  BY DEF TransportTakes
<1>2. Job \in Jobs /\ Job \notin Used
  BY <1>1, Parts, JobIsFree DEF Displays
<1>3. /\ held' \in Queues /\ nrel' = nrel /\ nrel' <= Len(held') /\ Len(held') = Len(held) + 1
      /\ InRing' = InRing \cup {Job} /\ Unreleased' = Unreleased \cup {Job}
  BY <1>1, <1>2, Parts, RingAccepts
<1>4. Len(held') \in 0..2 /\ held' # <<>>
  <2>1. Len(held) \in 0..2 /\ Len(held) < 2
    BY <1>1, Parts DEF RingOk, Ring!Accept
  <2> QED BY <1>3, <2>1
<1> QED BY <1>1, <1>2, <1>3, <1>4, Parts DEF Books, RingBooks, RingOk

\* What submit leaves in d, field by field.
LEMMA AcceptedFields ==
  ASSUME DisplayInd, NEW kind \in {"flush", "blit"}, NEW pixels, TransportTakes(kind, pixels)
  PROVE  LET a == Accepted(kind)
         IN /\ a \in Displays /\ a.pending = TRUE /\ a.pendingBlit = d.pendingBlit
            /\ a.blit = d.blit /\ a.claiming = d.claiming
            /\ pipelined => /\ a.inflight = d.inflight + 1
                            /\ a.jobs = [d.jobs EXCEPT ![Job] = kind]
                            /\ a.sourcePending <=> d.sourcePending \/ kind = "flush"
            /\ ~pipelined => /\ a.inflight = d.inflight /\ a.jobs = d.jobs
                             /\ a.sourcePending = d.sourcePending
<1>1. CASE pipelined
  <2>1. Job \in Jobs /\ d.inflight + 1 \in 0..2
    BY <1>1, RingTakes
  <2>2. [d.jobs EXCEPT ![Job] = kind] \in [Jobs -> Kinds]
    BY Parts DEF Displays, Kinds
  <2> DEFINE n == d.inflight + 1
             g == [d.jobs EXCEPT ![Job] = kind]
             b == (d.sourcePending \/ kind = "flush")
  <2>3. Accepted(kind) = [d EXCEPT !.jobs = g, !.inflight = n, !.pending = TRUE, !.result = "OK",
                                   !.sourcePending = b]
    BY <1>1, Parts DEF Accepted, Displays
  <2>4. d \in Displays /\ n \in 0..2 /\ g \in [Jobs -> Kinds] /\ b \in BOOLEAN
    BY <2>1, <2>2, Parts
  <2>5. b <=> d.sourcePending \/ kind = "flush"
    OBVIOUS
  <2> HIDE DEF n, g, b
  <2>6. Accepted(kind) \in Displays
    BY <2>3, <2>4 DEF Displays
  <2>7. /\ Accepted(kind).pending = TRUE /\ Accepted(kind).pendingBlit = d.pendingBlit
        /\ Accepted(kind).blit = d.blit /\ Accepted(kind).claiming = d.claiming
        /\ Accepted(kind).inflight = n /\ Accepted(kind).jobs = g
        /\ Accepted(kind).sourcePending = b
    BY <2>3, <2>4 DEF Displays
  <2> QED BY <1>1, <2>5, <2>6, <2>7 DEF n, g
<1>2. CASE ~pipelined
  BY <1>2, Parts DEF Accepted, Displays
<1> QED BY <1>1, <1>2

\* The ring's books with one more frame: a blit, or a flush that is the only one.
LEMMA RingGrows ==
  ASSUME DisplayInd, pipelined, NEW kind \in {"flush", "blit"}, NEW pixels,
         TransportTakes(kind, pixels), pixels = Client <=> kind = "blit",
         kind = "flush" => Free, UNCHANGED fixed,
         /\ d'.inflight = d.inflight + 1 /\ d'.jobs = [d.jobs EXCEPT ![Job] = kind]
         /\ d'.sourcePending <=> d.sourcePending \/ kind = "flush"
         /\ d'.pendingBlit <=> d.pendingBlit \/ kind = "blit"
         /\ d'.pending
  PROVE  /\ RingBooks' /\ Used' = Used \cup {Job} /\ d'.jobs[Job] = kind
         /\ \A j \in Jobs \ {Job} : d'.jobs[j] = d.jobs[j]
<1>1. /\ Job \in Jobs /\ Job \notin Used /\ Job \notin Unreleased /\ RingBooks
      /\ Len(held') = Len(held) + 1 /\ held' # <<>>
      /\ InRing' = InRing \cup {Job} /\ Unreleased' = Unreleased \cup {Job}
  BY RingTakes
<1>2. d'.jobs[Job] = kind /\ \A j \in Jobs \ {Job} : d'.jobs[j] = d.jobs[j]
  BY <1>1, Parts DEF Displays
<1>3. Used' = Used \cup {Job}
  BY <1>1, <1>2 DEF Used
<1>4. source'[Job] = pixels /\ \A j \in Jobs \ {Job} : source'[j] = source[j]
  BY <1>1, Parts DEF TransportTakes
<1>5. Unreleased \subseteq Used /\ Used \subseteq Jobs
  BY <1>1, Parts DEF RingOk, RingBooks
<1>6. \A j \in Used : j # Job /\ j \in Jobs /\ d'.jobs[j] = d.jobs[j] /\ source'[j] = source[j]
  BY <1>1, <1>2, <1>4, <1>5
<1>7. kind = "flush" => \A j \in Unreleased : d.jobs[j] = "blit"
  BY <1>1, <1>5 DEF Free, Read, RingBooks
<1>8. d'.sourcePending <=> \E j \in Unreleased' : d'.jobs[j] = "flush"
  BY <1>1, <1>2, <1>5, <1>6 DEF RingBooks
<1>9. d'.pendingBlit <=> \E j \in Used' : d'.jobs[j] = "blit"
  BY <1>1, <1>2, <1>3, <1>6 DEF RingBooks
<1>10. \A j \in Used' : source'[j] = Client <=> d'.jobs[j] = "blit"
  BY <1>1, <1>2, <1>3, <1>4, <1>6 DEF RingBooks
<1>11. ASSUME NEW i \in Unreleased', NEW j \in Unreleased', d'.jobs[i] = "flush", d'.jobs[j] = "flush"
       PROVE  i = j
  <2>1. CASE kind = "flush"
    BY <2>1, <1>1, <1>5, <1>6, <1>7, <1>11
  <2>2. CASE kind = "blit"
    BY <2>2, <1>1, <1>2, <1>5, <1>6, <1>11 DEF RingBooks
  <2> QED BY <2>1, <2>2
<1>12. Used' = InRing' /\ d'.inflight = Len(held')
  BY <1>1, <1>3 DEF RingBooks
<1> QED BY <1>1, <1>2, <1>3, <1>8, <1>9, <1>10, <1>11, <1>12 DEF RingBooks

\* What the transport reads after it took a frame.
LEMMA ReadGrows ==
  ASSUME DisplayInd, NEW kind \in {"flush", "blit"}, NEW pixels, TransportTakes(kind, pixels),
         UNCHANGED fixed
  PROVE  Read' \subseteq Read \cup {pixels}
<1>1. CASE pipelined
  <2>1. Job \in Jobs /\ Job \notin Unreleased /\ Unreleased' = Unreleased \cup {Job}
    BY <1>1, RingTakes
  <2>2. source'[Job] = pixels /\ \A j \in Jobs \ {Job} : source'[j] = source[j]
    BY <2>1, Parts DEF TransportTakes
  <2>3. Unreleased \subseteq Jobs
    BY Parts DEF RingOk
  <2>4. pipelined'
    BY <1>1 DEF fixed
  <2> QED BY <1>1, <2>1, <2>2, <2>3, <2>4 DEF Read
<1>2. CASE ~pipelined
  <2>1. Job = 1 /\ 1 \in Jobs /\ ~pipelined'
    BY <1>2 DEF Job, Jobs, fixed
  <2>2. source'[1] = pixels
    BY <2>1, Parts DEF TransportTakes
  <2> QED BY <2>1, <2>2 DEF Read
<1> QED BY <1>1, <1>2, Parts

\* Such a job in the hands of the one-job worker.
LEMMA JobGrows ==
  ASSUME DisplayInd, ~pipelined, NEW kind, NEW pixels,
         TransportTakes(kind, pixels), UNCHANGED fixed
  PROVE  /\ slot = "EMPTY" /\ slot' = "QUEUED" /\ ~stopping /\ ~pipelined' /\ source'[1] = pixels
         /\ UNCHANGED <<verdict, latched, stopping, worker, final, held, nrel>>
         /\ Exited' = Exited
<1>1. Put /\ UNCHANGED ringVars /\ Job = 1 /\ 1 \in Jobs
  BY DEF TransportTakes, Job, Jobs
<1> QED BY <1>1, Parts DEF Put, MayPut, userSide, ringVars, fixed, TransportTakes, Exited

\* What both transports keep, and the types.
LEMMA TakenKeeps ==
  ASSUME DisplayInd, NEW kind \in {"flush", "blit"}, NEW pixels \in Buffers \cup {Client},
         TransportTakes(kind, pixels), UNCHANGED fixed, d' \in Displays,
         lv' \in [flushing : BOOLEAN, act : Buffers], lv'.act <= count,
         ui' \in [at : UiPlaces, call : Calls, ok : BOOLEAN]
  PROVE  Types' /\ JobIsHanded'
<1>1. source' \in [Jobs -> Buffers \cup {Client}]
  BY Parts DEF TransportTakes
<1>2. CASE pipelined
  <2>1. /\ held' \in Queues /\ nrel' \in Nat /\ nrel' <= Len(held')
        /\ UNCHANGED handoffVars
    BY <1>2, RingTakes
  <2>2. HandoffTypeOK' /\ JobIsHanded'
    BY <2>1, Parts DEF handoffVars, HandoffTypeOK, JobIsHanded
  <2> QED BY <1>1, <2>1, <2>2, Parts DEF Types, fixed
<1>3. CASE ~pipelined
  <2>1. HandoffTypeOK' /\ JobIsHanded'
    BY <1>3, JobGrows, Parts DEF HandoffTypeOK, JobIsHanded, SlotStates
  <2> QED BY <1>1, <1>3, <2>1, JobGrows, Parts DEF Types, fixed
<1> QED BY <1>2, <1>3, Parts

\* LVGL's frame goes out: the buffer it renders into next is another, or waited for.
LEMMA FlushSubmitsKeeps ==
  ASSUME DisplayInd, FlushSubmits
  PROVE  DisplayInd'
<1>1. /\ TransportTakes("flush", lv.act) /\ d' = Accepted("flush") /\ lv' = Swapped(lv)
      /\ ui' = [at |-> "idle", call |-> "none", ok |-> FALSE] /\ UNCHANGED fixed
  BY DEF FlushSubmits, Return, Goto
<1>2. Handing
  BY DEF FlushSubmits, FlushAdmitted, At, Handing
<1>3. Free /\ lv.flushing /\ ~d.claiming /\ ~d.blit /\ ~d.pendingBlit
  BY <1>2, Parts DEF Rendering, Claims
<1>4. lv.act \in Buffers /\ lv.act # Client
  BY Parts DEF Buffers, Client
<1>5. /\ lv' \in [flushing : BOOLEAN, act : Buffers] /\ lv'.act <= count /\ lv'.flushing
      /\ count = 2 => lv'.act # lv.act
  BY <1>1, <1>3, Parts, SwapTypes
<1>6. /\ d' \in Displays /\ d'.pending = TRUE /\ d'.pendingBlit = d.pendingBlit
      /\ d'.blit = d.blit /\ d'.claiming = d.claiming
      /\ pipelined => /\ d'.inflight = d.inflight + 1
                      /\ d'.jobs = [d.jobs EXCEPT ![Job] = "flush"]
                      /\ d'.sourcePending <=> d.sourcePending \/ "flush" = "flush"
      /\ ~pipelined => d'.inflight = d.inflight /\ d'.jobs = d.jobs
  BY <1>1, AcceptedFields
<1>7. ui' \in [at : UiPlaces, call : Calls, ok : BOOLEAN]
  BY <1>1 DEF UiPlaces, Calls
<1>8. Types' /\ JobIsHanded'
  BY <1>1, <1>4, <1>5, <1>6, <1>7, TakenKeeps
<1>9. pipelined => /\ RingBooks' /\ d'.jobs[Job] = "flush"
                   /\ \A j \in Jobs \ {Job} : d'.jobs[j] = d.jobs[j]
  BY <1>1, <1>3, <1>4, <1>6, RingGrows
<1>10. pipelined' = pipelined /\ count' = count
  BY <1>1 DEF fixed
<1>11. Books'
  <2>1. ~pipelined => JobBooks'
    BY <1>1, <1>3, <1>4, <1>6, JobGrows, Parts DEF Books, JobBooks
  <2> QED BY <1>1, <1>9, <1>10, <2>1 DEF Books
<1>12. Claims'
  <2>1. \A j \in Jobs : d'.jobs[j] # "blit"
    BY <1>3, <1>6, <1>9, Parts DEF Claims
  <2> QED BY <1>1, <1>3, <1>6, <2>1 DEF Claims
<1>13. Rendering'
  <2>1. Read' \subseteq {Client, lv.act}
    BY <1>1, <1>3, ReadGrows DEF Free
  <2>2. count = 2 => lv'.act \notin Read'
    BY <1>4, <1>5, <2>1 DEF Buffers, Client
  <2> QED BY <1>1, <1>5, <1>10, <2>2 DEF Rendering, Handing
<1> QED BY <1>8, <1>11, <1>12, <1>13 DEF DisplayInd

\* A blit goes out alone.
LEMMA BlitKeeps ==
  ASSUME DisplayInd, Blit
  PROVE  DisplayInd'
<1>1. /\ ui.at = "idle" /\ d.blit /\ ~d.pending /\ TransportTakes("blit", Client)
      /\ d' = [Accepted("blit") EXCEPT !.pendingBlit = TRUE] /\ UNCHANGED <<fixed, lv, ui>>
  BY DEF Blit, Idle
<1>2. LET a == Accepted("blit")
      IN /\ a \in Displays /\ a.pending = TRUE /\ a.pendingBlit = d.pendingBlit
         /\ a.blit = d.blit /\ a.claiming = d.claiming
         /\ pipelined => /\ a.inflight = d.inflight + 1
                         /\ a.jobs = [d.jobs EXCEPT ![Job] = "blit"]
                         /\ a.sourcePending <=> d.sourcePending \/ "blit" = "flush"
         /\ ~pipelined => a.inflight = d.inflight /\ a.jobs = d.jobs
  BY <1>1, AcceptedFields
<1>3. /\ d' \in Displays /\ d'.pending = TRUE /\ d'.pendingBlit = TRUE
      /\ d'.blit = d.blit /\ d'.claiming = d.claiming
      /\ pipelined => /\ d'.inflight = d.inflight + 1
                      /\ d'.jobs = [d.jobs EXCEPT ![Job] = "blit"]
                      /\ d'.sourcePending <=> d.sourcePending \/ "blit" = "flush"
      /\ ~pipelined => d'.inflight = d.inflight /\ d'.jobs = d.jobs
  BY <1>1, <1>2 DEF Displays
<1>4. Types' /\ JobIsHanded'
  BY <1>1, <1>3, Parts, TakenKeeps
<1>5. pipelined => /\ RingBooks' /\ d'.jobs[Job] = "blit" /\ Used' = Used \cup {Job}
                   /\ \A j \in Jobs \ {Job} : d'.jobs[j] = d.jobs[j]
  BY <1>1, <1>3, RingGrows
<1>6. pipelined' = pipelined /\ count' = count /\ ui' = ui /\ lv' = lv
  BY <1>1 DEF fixed
<1>7. pipelined => Used = {} /\ Unreleased = {}
  BY <1>1, Parts DEF Books, RingBooks, RingOk
<1>8. Read = {}
  BY <1>1, <1>7, Parts DEF Read, Books, JobBooks
<1>9. Books'
  <2>1. ~pipelined => JobBooks'
    BY <1>1, <1>3, JobGrows, Parts DEF Books, JobBooks
  <2> QED BY <1>1, <1>5, <1>6, <2>1 DEF Books
<1>10. Claims'
  <2>1. d'.blit /\ d'.claiming /\ ui'.call # "claim" /\ ui'.at # "collect"
    BY <1>1, <1>3, <1>6, Parts DEF Claims
  <2>2. pipelined => Used' = {Job} /\ d'.jobs[Job] = "blit"
    BY <1>5, <1>7
  <2>3. ~pipelined => source'[1] = Client
    BY <1>1, JobGrows
  <2> QED BY <1>6, <2>1, <2>2, <2>3 DEF Claims
<1>11. Rendering'
  <2>1. Read' \subseteq {Client} /\ lv'.act \notin Read'
    BY <1>1, <1>6, <1>8, ReadGrows, Parts DEF Buffers, Client
  <2> QED BY <1>1, <1>6, <2>1 DEF Rendering, Handing, Free
<1> QED BY <1>4, <1>9, <1>10, <1>11 DEF DisplayInd

-----------------------------------------------------------------------------
(* Closing *)

\* A stop changes nothing that is out.
LEMMA StopLeaves ==
  ASSUME Stop \/ NoTransport, UNCHANGED <<fixed, source>>
  PROVE  /\ UNCHANGED <<slot, verdict, latched, worker, final, held, nrel, pipelined, count, source>>
         /\ stopping' = TRUE \/ stopping' = stopping
         /\ InRing' = InRing /\ Unreleased' = Unreleased /\ Read' = Read /\ Exited' = Exited
<1>1. /\ UNCHANGED <<slot, verdict, latched, worker, final, held, nrel, pipelined, count, source>>
      /\ stopping' = TRUE \/ stopping' = stopping
  BY DEF Stop, NoTransport, StopWorker, handoffVars, ringVars, Ring!StopAdmission, fixed
<1> QED BY <1>1 DEF InRing, Unreleased, Read, Exited

\* Deletion and close stop the transport, if need be, and look no further.
LEMMA StopKeeps ==
  ASSUME DisplayInd, Deleted \/ Close
  PROVE  DisplayInd'
<1>1. /\ Stop \/ NoTransport
      /\ UNCHANGED <<fixed, source, lv>> /\ ui.at = "idle"
      /\ ui' = ui \/ ui' = [at |-> "collect", call |-> "close", ok |-> FALSE]
  BY DEF Deleted, Close, Idle, Collecting, Goto
<1>2. /\ UNCHANGED <<slot, verdict, latched, worker, final, held, nrel, pipelined, count, source, lv>>
      /\ stopping' = TRUE \/ stopping' = stopping
      /\ InRing' = InRing /\ Unreleased' = Unreleased /\ Read' = Read /\ Exited' = Exited
  BY <1>1, StopLeaves
<1>3. /\ d'.jobs = d.jobs /\ d'.inflight = d.inflight /\ d'.sourcePending = d.sourcePending
      /\ d'.pendingBlit = d.pendingBlit /\ d'.pending = d.pending /\ d'.blit = d.blit
      /\ d'.claiming = d.claiming /\ d' \in Displays
  BY Parts DEF Deleted, Close, Displays
<1>4. Used' = Used
  BY <1>3 DEF Used
<1>5. ui' \in [at : UiPlaces, call : Calls, ok : BOOLEAN]
  <2>1. [at |-> "collect", call |-> "close", ok |-> FALSE]
          \in [at : UiPlaces, call : Calls, ok : BOOLEAN]
    BY DEF UiPlaces, Calls
  <2>2. CASE ui' = ui
    BY <2>2, Parts
  <2>3. CASE ui' = [at |-> "collect", call |-> "close", ok |-> FALSE]
    BY <2>1, <2>3
  <2> QED BY <1>1, <2>2, <2>3
<1>6. Types' /\ JobIsHanded'
  <2>1. HandoffTypeOK' /\ JobIsHanded'
    <3>1. CASE stopping' = TRUE
      BY <1>2, <3>1, Parts DEF HandoffTypeOK, JobIsHanded
    <3>2. CASE stopping' = stopping
      BY <1>2, <3>2, Parts DEF HandoffTypeOK, JobIsHanded
    <3> QED BY <1>2, <3>1, <3>2
  <2>2. lv' \in [flushing : BOOLEAN, act : Buffers] /\ lv'.act <= count
    BY <1>2, Parts
  <2> QED BY <1>2, <1>3, <1>5, <2>1, <2>2, Parts DEF Types
<1>7. Books'
  BY <1>1, <1>2, <1>3, <1>4, Parts DEF Books, RingBooks, JobBooks
<1>8. Claims'
  BY <1>1, <1>2, <1>3, <1>4, Parts DEF Claims
<1>9. Rendering'
  BY <1>1, <1>2, Parts DEF Rendering, Handing, Free
<1> QED BY <1>6, <1>7, <1>8, <1>9 DEF DisplayInd

\* The display is freed when nothing is out.
LEMMA CloseKeeps ==
  ASSUME DisplayInd, CloseSucceeds
  PROVE  DisplayInd'
<1>1. /\ ui.at = "collected" /\ ui.ok /\ UNCHANGED <<handoffVars, fixed, source, lv>>
      /\ held' = held /\ nrel' = nrel /\ d' = [d EXCEPT !.alive = FALSE]
      /\ ui' = [at |-> "freed", call |-> "none", ok |-> FALSE]
      /\ ~pipelined => Exited
  BY DEF CloseSucceeds, At, Goto, NoTransport, ringVars, Ring!CloseHandle, MayCloseWorker
<1>2. UNCHANGED <<slot, verdict, latched, stopping, worker, final, pipelined, count>>
  BY <1>1 DEF handoffVars, fixed
<1>3. InRing' = InRing /\ Unreleased' = Unreleased /\ Read' = Read /\ Exited' = Exited
  BY <1>1, <1>2 DEF InRing, Unreleased, Read, Exited
<1>4. /\ d'.jobs = d.jobs /\ d'.inflight = d.inflight /\ d'.sourcePending = d.sourcePending
      /\ d'.pendingBlit = d.pendingBlit /\ d'.pending = d.pending /\ d'.blit = d.blit
      /\ d'.claiming = d.claiming /\ d' \in Displays
  BY <1>1, Parts DEF Displays
<1>5. Used' = Used
  BY <1>4 DEF Used
<1>6. ~d.pending /\ Read = {}
  <2>1. ~d.pending
    BY <1>1, Parts DEF Books
  <2>2. pipelined => Unreleased = {}
    BY <2>1, Parts DEF Books, RingBooks, RingOk
  <2> QED BY <2>1, <2>2, Parts DEF Read, Books, JobBooks
<1>7. ui' \in [at : UiPlaces, call : Calls, ok : BOOLEAN]
  BY <1>1 DEF UiPlaces, Calls
<1>8. Types' /\ JobIsHanded'
  BY <1>1, <1>2, <1>4, <1>7, Parts DEF Types, HandoffTypeOK, JobIsHanded
<1>9. Books'
  BY <1>1, <1>2, <1>3, <1>4, <1>5, <1>6, Parts DEF Books, RingBooks, JobBooks
<1>10. Claims'
  BY <1>1, <1>2, <1>4, <1>5, Parts DEF Claims
<1>11. Rendering'
  BY <1>1, <1>2, <1>3, <1>6, Parts DEF Rendering, Handing, Free
<1> QED BY <1>8, <1>9, <1>10, <1>11 DEF DisplayInd

-----------------------------------------------------------------------------
(* The worker *)

\* It takes no job that was not put, drops none, and is gone only when it is done.
LEMMA WorkerKeeps ==
  ASSUME DisplayInd, Background
  PROVE  DisplayInd'
<1>1. ~pipelined /\ WorkerNext /\ UNCHANGED <<ringVars, fixed, d, source, lv, ui>>
  BY DEF Background
<1>2. /\ UNCHANGED <<held, nrel, pipelined, count, source, d, lv, ui>>
      /\ InRing' = InRing /\ Unreleased' = Unreleased /\ Used' = Used
  BY <1>1 DEF ringVars, fixed, InRing, Unreleased, Used
<1> USE DEF Step, userSide
<1>3. /\ latched' = latched /\ stopping' = stopping /\ worker # "gone"
      /\ slot' = "EMPTY" <=> slot = "EMPTY"
      /\ slot' \in {"QUEUED", "RUNNING"} => slot \in {"QUEUED", "RUNNING"}
      /\ HandoffTypeOK' /\ JobIsHanded'
  <2>1. CASE Wakes
    BY <2>1, Parts DEF Wakes, HandoffTypeOK, Places, JobIsHanded
  <2>2. CASE ClaimJob
    BY <2>2, Parts DEF ClaimJob, HandoffTypeOK, SlotStates, Places, JobIsHanded
  <2>3. CASE NoJob
    BY <2>3, Parts DEF NoJob, HandoffTypeOK, Places, JobIsHanded
  <2>4. CASE SessionSubmit
    BY <2>4, Parts DEF SessionSubmit, HandoffTypeOK, Places, JobIsHanded
  <2>5. CASE SessionDrain
    BY <2>5, Parts DEF SessionDrain, HandoffTypeOK, Places, JobIsHanded
  <2>6. CASE Publish
    BY <2>6, Parts DEF Publish, HandoffTypeOK, SlotStates, Places, JobIsHanded
  <2>7. CASE LooksForStop
    BY <2>7, Parts DEF LooksForStop, Leaves, HandoffTypeOK, Places, JobIsHanded
  <2>8. CASE Exits
    BY <2>8, Parts DEF Exits, Leaves, HandoffTypeOK, Places, JobIsHanded
  <2> QED BY <1>1, <2>1, <2>2, <2>3, <2>4, <2>5, <2>6, <2>7, <2>8 DEF WorkerNext
<1>4. Types'
  BY <1>2, <1>3, Parts DEF Types
<1>5. Books'
  BY <1>1, <1>2, <1>3, Parts DEF Books, JobBooks
<1>6. Claims'
  BY <1>1, <1>2, <1>3, Parts DEF Claims
<1>7. Rendering'
  <2>1. Read' \subseteq Read
    BY <1>1, <1>2, <1>3 DEF Read
  <2>2. ui.at # "freed"
    BY <1>1, <1>3, Parts DEF Rendering, Exited
  <2> QED BY <1>2, <2>1, <2>2, Parts DEF Rendering, Handing, Free
<1> QED BY <1>3, <1>4, <1>5, <1>6, <1>7 DEF DisplayInd

-----------------------------------------------------------------------------
(* The invariant *)

LEMMA InitDisplay == Init => DisplayInd
<1> SUFFICES ASSUME Init PROVE DisplayInd
  OBVIOUS
<1>1. /\ slot = "EMPTY" /\ worker = "wait" /\ final = FALSE /\ stopping = FALSE /\ held = <<>> /\ nrel = 0
      /\ d = NewDisplay /\ source = [j \in Jobs |-> Client] /\ lv = [flushing |-> FALSE, act |-> 1]
      /\ ui = [at |-> "idle", call |-> "none", ok |-> FALSE]
      /\ pipelined \in BOOLEAN /\ count \in {1, 2} /\ HandoffTypeOK
  BY DEF Init, HandoffInit, Ring!EventsInit, HandoffTypeOK, SlotStates, Places
<1>2. /\ d \in Displays /\ d.jobs = [j \in Jobs |-> "none"] /\ d.inflight = 0 /\ ~d.sourcePending
      /\ ~d.pending /\ ~d.pendingBlit /\ ~d.blit
  BY <1>1 DEF NewDisplay, Displays, Kinds
<1>3. Len(held) = 0 /\ InRing = {} /\ Unreleased = {} /\ Used = {}
  BY <1>1, <1>2 DEF InRing, Unreleased, Used
<1>4. Read = {}
  BY <1>1, <1>3 DEF Read
<1>5. lv \in [flushing : BOOLEAN, act : Buffers] /\ lv.act <= count
  BY <1>1 DEF Buffers
<1>6. ui \in [at : UiPlaces, call : Calls, ok : BOOLEAN] /\ ui.at = "idle" /\ ui.call = "none"
  BY <1>1 DEF UiPlaces, Calls
<1>7. Types
  BY <1>1, <1>2, <1>3, <1>5, <1>6 DEF Types, Queues
<1>8. JobIsHanded
  BY <1>1 DEF JobIsHanded
<1>9. Books
  BY <1>1, <1>2, <1>3, <1>6 DEF Books, RingBooks, JobBooks
<1>10. Claims
  BY <1>2, <1>3, <1>6 DEF Claims
<1>11. Rendering
  BY <1>4, <1>6 DEF Rendering, Handing, Free
<1> QED BY <1>7, <1>8, <1>9, <1>10, <1>11 DEF DisplayInd

\* A step that changes nothing.
LEMMA StillDisplay ==
  ASSUME DisplayInd, UNCHANGED vars
  PROVE  DisplayInd'
<1>1. /\ UNCHANGED <<slot, verdict, latched, stopping, worker, final, held, nrel, pipelined, count,
                     d, source, lv, ui>>
  BY DEF vars, handoffVars, ringVars, fixed
<1>2. Exited' = Exited /\ InRing' = InRing /\ Unreleased' = Unreleased /\ Used' = Used
  BY <1>1 DEF Exited, InRing, Unreleased, Used
<1>3. Read' = Read
  BY <1>1, <1>2 DEF Read
<1>4. Types' /\ JobIsHanded'
  BY <1>1, Parts DEF Types, HandoffTypeOK, JobIsHanded
<1>5. Books' /\ Claims' /\ Rendering'
  BY <1>1, <1>2, <1>3, Parts DEF Books, RingBooks, JobBooks, Claims, Rendering, Handing, Free
<1> QED BY <1>4, <1>5 DEF DisplayInd

LEMMA NextDisplay == DisplayInd /\ [Next]_vars => DisplayInd'
<1> SUFFICES ASSUME DisplayInd, [Next]_vars PROVE DisplayInd'
  OBVIOUS
<1>1. CASE Looks \/ LvglGoesOn
  BY <1>1, LooksKeep
<1>2. CASE Settles
  BY <1>2, SettlesKeep
<1>3. CASE CollectRelease \/ CollectCompletion \/ CollectVerdict
  BY <1>3, ReleaseKeeps, CompletionKeeps, VerdictKeeps
<1>4. CASE FlushRejected \/ BlitRejected \/ FlushSubmits \/ Blit
  BY <1>4, RefusalKeeps, FlushSubmitsKeeps, BlitKeeps
<1>5. CASE Deleted \/ Close \/ CloseSucceeds
  BY <1>5, StopKeeps, CloseKeeps
<1>6. CASE Background
  BY <1>6, WorkerKeeps
<1>7. CASE UNCHANGED vars
  BY <1>7, StillDisplay
<1> QED BY <1>1, <1>2, <1>3, <1>4, <1>5, <1>6, <1>7
        DEF Next, UiThread, Collect, Lvgl, Owner, Looks, LvglGoesOn, Settles

\* The same truth value, for what is one.
LEMMA SameTruth == ASSUME NEW a \in BOOLEAN, NEW b \in BOOLEAN, a <=> b PROVE a = b
OBVIOUS

LEMMA IndGivesInv == DisplayInd => SpiDisplayInv
<1> SUFFICES ASSUME DisplayInd PROVE SpiDisplayInv
  OBVIOUS
<1>1. TypeOK
  <2>1. d.jobs \in [Jobs -> Kinds] /\ d.inflight \in 0..2 /\ d.result \in {"OK", "INVALID", "BUSY", "FAULT"}
    BY Parts DEF Displays
  <2>2. lv \in [flushing : BOOLEAN, act : 1..count]
    <3>1. lv.act \in 1..count
      BY Parts DEF Buffers
    <3> QED BY <3>1, Parts
  <2> QED BY <2>1, <2>2, Parts DEF TypeOK, UiPlaces
<1>2. BooksAgree
  <2>1. d.sourcePending \in BOOLEAN /\ d.pendingBlit \in BOOLEAN /\ d.pending \in BOOLEAN
    BY Parts DEF Displays
  <2>2. ASSUME pipelined
        PROVE  /\ Used = InRing /\ d.inflight = Len(held)
               /\ d.sourcePending = \E j \in Unreleased : d.jobs[j] = "flush"
               /\ d.pendingBlit = \E j \in Used : d.jobs[j] = "blit"
               /\ ui.at # "collect" => d.pending = (held # <<>>)
    <3>1. RingBooks
      BY <2>2, Parts DEF Books
    <3>2. d.sourcePending <=> \E j \in Unreleased : d.jobs[j] = "flush"
      BY <3>1 DEF RingBooks
    <3>3. d.pendingBlit <=> \E j \in Used : d.jobs[j] = "blit"
      BY <3>1 DEF RingBooks
    <3>4. ui.at # "collect" => (d.pending <=> held # <<>>)
      BY <3>1 DEF RingBooks
    <3>5. d.sourcePending = \E j \in Unreleased : d.jobs[j] = "flush"
      BY <2>1, <3>2, SameTruth
    <3>6. d.pendingBlit = \E j \in Used : d.jobs[j] = "blit"
      BY <2>1, <3>3, SameTruth
    <3>7. ui.at # "collect" => d.pending = (held # <<>>)
      BY <2>1, <3>4, SameTruth
    <3> QED BY <3>1, <3>5, <3>6, <3>7 DEF RingBooks
  <2>3. ASSUME ~pipelined
        PROVE  /\ d.pendingBlit = (slot # "EMPTY" /\ source[1] = Client)
               /\ d.pending = (slot # "EMPTY")
    <3>1. /\ d.pendingBlit <=> slot # "EMPTY" /\ source[1] = Client
          /\ d.pending <=> slot # "EMPTY"
      BY <2>3, Parts DEF Books, JobBooks
    <3> QED BY <2>1, <3>1, SameTruth
  <2> QED BY <2>2, <2>3 DEF BooksAgree
<1>3. SourcesAreSafe
  <2>1. ui.at = "render" => lv.act \notin Read
    <3>1. count \in {1, 2} /\ lv.act # Client
      BY Parts DEF Buffers, Client
    <3> QED BY <3>1, Parts DEF Rendering, Free
  <2>2. Exited => slot \notin {"QUEUED", "RUNNING"}
    BY Parts DEF JobIsHanded, Exited
  <2> QED BY <2>1, <2>2, Parts DEF SourcesAreSafe, Rendering
<1> QED BY <1>1, <1>2, <1>3 DEF SpiDisplayInv

\* Buffers, books and jobs are safe at every step of both transports: LVGL
\* (lv_aic_spi_display.c, flush and wait_flush) never renders into a buffer that is
\* being sent, the display's books agree with the ring and with the worker's slot
\* outside collect, and close frees nothing that is still read.
THEOREM DisplayIsSafe == Spec => []SpiDisplayInv
<1>1. Spec => []DisplayInd
  BY InitDisplay, NextDisplay, PTL DEF Spec
<1> QED BY <1>1, IndGivesInv, PTL

\* A step of a granted claim: it stays granted and the transport has the client's
\* pixels only.
LEMMA ClaimStays ==
  ASSUME DisplayInd, DisplayInd', Next
  PROVE  /\ d.blit => d'.blit
         /\ d.pendingBlit /\ ~d'.pendingBlit => ui.call \in {"take", "close"}
<1>1. CASE Looks \/ LvglGoesOn
  BY <1>1, LooksTypes
<1>2. CASE CollectEnds \/ ClaimBlit \/ Deleted \/ Close \/ CloseSucceeds
  <2>1. d'.blit = d.blit /\ d'.pendingBlit = d.pendingBlit
    BY <1>2, Parts DEF CollectEnds, ClaimBlit, Deleted, Close, CloseSucceeds, Displays
  <2> QED BY <2>1
<1>3. CASE ClaimAnswered
  <2>1. d'.pendingBlit = d.pendingBlit /\ ui.call = "claim"
    BY <1>3, Parts DEF ClaimAnswered, At, Displays
  <2> QED BY <2>1, Parts DEF Claims
<1>4. CASE CollectRelease \/ CollectCompletion \/ CollectVerdict
  <2>1. d'.blit = d.blit /\ ui.at = "collect"
    BY <1>4, Parts DEF CollectRelease, CollectCompletion, CollectVerdict, Displays
  <2> QED BY <2>1, Parts DEF Claims
<1>5. CASE FlushRejected \/ BlitRejected
  <2>1. d'.blit = d.blit /\ d'.pendingBlit = d.pendingBlit
    BY <1>5, Parts DEF FlushRejected, BlitRejected, Displays
  <2> QED BY <2>1
<1>6. CASE FlushSubmits
  <2>1. d'.blit = d.blit /\ d'.pendingBlit = d.pendingBlit
    BY <1>6, Parts DEF FlushSubmits, Accepted, Displays
  <2> QED BY <2>1
<1>7. CASE Blit
  <2>1. d'.blit = d.blit /\ d'.pendingBlit
    BY <1>7, Parts DEF Blit, Accepted, Displays
  <2> QED BY <2>1
<1>8. CASE Background
  BY <1>8 DEF Background
<1> QED BY <1>1, <1>2, <1>3, <1>4, <1>5, <1>6, <1>7, <1>8
        DEF Next, UiThread, Collect, Lvgl, Owner, Looks, LvglGoesOn

\* Under a claim nothing but the client's pixels is out.
LEMMA ClaimIsFree == DisplayInd /\ d.blit => Free
<1> SUFFICES ASSUME DisplayInd, d.blit PROVE Free
  OBVIOUS
<1>1. CASE pipelined
  <2>1. \A j \in Unreleased : source[j] = Client
    BY <1>1, Parts DEF Claims, Books, RingBooks, RingOk
  <2> QED BY <1>1, <2>1 DEF Free, Read
<1>2. CASE ~pipelined
  BY <1>2, Parts DEF Claims, Free, Read
<1> QED BY <1>1, <1>2

\* With nothing pending, nothing is read.
LEMMA NothingOut == DisplayInd /\ ui.at # "collect" /\ ~d.pending => Read = {}
<1> SUFFICES ASSUME DisplayInd, ~d.pending PROVE Read = {}
  OBVIOUS
<1>1. pipelined => Unreleased = {}
  BY Parts DEF Books, RingBooks, RingOk
<1> QED BY <1>1, Parts DEF Read, Books, JobBooks

\* A granted claim is for ever (lv_aic_spi_display_claim_blit, _blit and _blit_take):
\* LVGL gets no frame through, a blit's verdict goes to blit_take or close only, and
\* blit_take tells the client its pixels are free only when the transport is done.
THEOREM ClaimsAreExclusive == Spec => BlitIsExclusive
<1> DEFINE P == /\ d.blit => d'.blit /\ Read' \subseteq {Client}
                /\ d.pendingBlit /\ ~d'.pendingBlit => ui.call \in {"take", "close"}
                /\ At("collected", "take") /\ ui.ok => Client \notin Read /\ ~d.pending
<1>1. Spec => []DisplayInd
  BY InitDisplay, NextDisplay, PTL DEF Spec
<1> DEFINE Alone == d.blit => Free
<1>2. Spec => []Alone
  <2>1. DisplayInd => Alone
    BY ClaimIsFree
  <2> QED BY <1>1, <2>1, PTL
<1>3. ASSUME DisplayInd, DisplayInd', Alone', Next PROVE P
  <2>1. /\ d.blit => d'.blit
        /\ d.pendingBlit /\ ~d'.pendingBlit => ui.call \in {"take", "close"}
    BY <1>3, ClaimStays
  <2>2. d'.blit => Free'
    BY <1>3
  <2>3. At("collected", "take") /\ ui.ok => ~d.pending /\ Read = {}
    BY <1>3, Parts, NothingOut DEF At, Books
  <2> QED BY <2>1, <2>2, <2>3 DEF Free
<1>4. DisplayInd /\ DisplayInd' /\ Alone' /\ [Next]_vars => [P]_vars
  BY <1>3
<1> HIDE DEF P, Alone
<1>5. Spec => [][P]_vars
  BY <1>1, <1>2, <1>4, PTL DEF Spec
<1> QED BY <1>5 DEF P, BlitIsExclusive
=============================================================================
