------------------------------ MODULE SpiEvents ------------------------------
(***************************************************************************)
(* What include/lv_aic_spi_pipeline.h promises the UI thread: at most two  *)
(* frames are held; each accepted frame yields exactly one release and one *)
(* completion; both kinds come in submission order, a frame's completion   *)
(* after its release; nothing completes OK after a FAULT; after stop       *)
(* nothing is accepted, and close succeeds only when every event was       *)
(* consumed.                                                               *)
(***************************************************************************)
EXTENDS Naturals, Sequences

CONSTANT Frames

VARIABLES
  held,     \* accepted frames whose completion was not consumed, oldest first
  nrel,     \* how many of them, from the oldest on, were released
  alarm,    \* a completion was a FAULT
  phase     \* open, stopping or closed

eventVars == <<held, nrel, alarm, phase>>

EventsInit == held = <<>> /\ nrel = 0 /\ alarm = FALSE /\ phase = "open"

Accept(f) ==
  /\ phase = "open" /\ Len(held) < 2
  /\ \A n \in 1..Len(held) : held[n] # f
  /\ held' = Append(held, f)
  /\ UNCHANGED <<nrel, alarm, phase>>

ReleaseSource ==
  /\ phase # "closed" /\ nrel < Len(held)
  /\ nrel' = nrel + 1
  /\ UNCHANGED <<held, alarm, phase>>

Completion(r) ==
  /\ phase # "closed" /\ nrel > 0
  /\ alarm => r # "OK"
  /\ held' = Tail(held) /\ nrel' = nrel - 1
  /\ alarm' = (alarm \/ r = "FAULT")
  /\ UNCHANGED phase

StopAdmission == phase = "open" /\ phase' = "stopping" /\ UNCHANGED <<held, nrel, alarm>>

CloseHandle ==
  /\ phase = "stopping" /\ held = <<>>
  /\ phase' = "closed" /\ UNCHANGED <<held, nrel, alarm>>

EventsNext ==
  \/ \E f \in Frames : Accept(f)
  \/ ReleaseSource
  \/ \E r \in {"OK", "INVALID", "FAULT"} : Completion(r)
  \/ StopAdmission \/ CloseHandle

EventsSpec == EventsInit /\ [][EventsNext]_eventVars
=============================================================================
