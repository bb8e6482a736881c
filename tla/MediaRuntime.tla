----------------------------- MODULE MediaRuntime -----------------------------
(***************************************************************************)
(* Several players and APNGs over the one media runtime                    *)
(* (port/lv_aic_media_runtime.c): the UI thread registers and releases     *)
(* users of the video engine, the first and the last of which make and     *)
(* delete the gate; their workers pass the gate for the codec (APNG) and   *)
(* for the SDK's only audio device (players).  Of a worker, only what it   *)
(* does here is modelled: its session or stream is a success or a failure. *)
(***************************************************************************)
EXTENDS Naturals, FiniteSets

CONSTANTS
  Player, Apng,   \* the instances, as many as their INSTANCES limits allow
  Nobody

ASSUME RuntimeConstants ==
  /\ IsFiniteSet(Player) /\ IsFiniteSet(Apng) /\ Player \cap Apng = {}
  /\ Nobody \notin Player \cup Apng

Client == Player \cup Apng

VARIABLES
  users,             \* registered instances
  gate,              \* the gate exists and the VE device is open
  inside,            \* who has taken the gate
  audio,             \* audio_owner
  at,                \* the place of each instance: its worker's, or its owner's
  closing,           \* p->closing
  owns, session      \* of a player: owns_audio, and its SDK session

runtimeVars == <<users, gate, audio>>
vars == <<runtimeVars, inside, at, closing, owns, session>>

InGate == {"claiming", "unclaiming", "ticking", "shutting"}

Init ==
  /\ users = 0 /\ gate = FALSE /\ audio = Nobody /\ inside = Nobody
  /\ at = [c \in Client |-> "none"] /\ closing = [c \in Client |-> FALSE]
  /\ owns = [c \in Player |-> FALSE] /\ session = [c \in Player |-> "none"]

Goto(c, place) == at' = [at EXCEPT ![c] = place]

-----------------------------------------------------------------------------
(* The runtime; slips the runs must notice come before their originals. *)

\* lv_aic_media_runtime_acquire
Acquire == users' = users + 1 /\ gate' = TRUE

\* lv_aic_media_runtime_release: the last user closes the engine.
IsLastEarly == users <= 2
IsLast == users = 1
Release == users' = users - 1 /\ gate' = (gate /\ ~IsLast)

\* lv_aic_media_runtime_enter and _leave
Enter(c) == gate /\ inside = Nobody /\ inside' = c
LeaveIfOk(ok) == inside' = IF ok THEN Nobody ELSE inside
Leave(ok) == inside' = Nobody

\* lv_aic_media_audio_acquire's test; the other sources have to wait.
AudioIsFree(c) == audio \in {Nobody, c}

-----------------------------------------------------------------------------
(* The UI thread *)

UiFree == \A c \in Client : at[c] # "spawn"

\* prepare: first a user, then the worker, without which the user goes again.
Prepare(c) ==
  /\ UiFree /\ at[c] = "none"
  /\ Acquire /\ Goto(c, "spawn")
  /\ UNCHANGED <<audio, inside, closing, owns, session>>

SpawnWorker(c) ==
  /\ at[c] = "spawn" /\ Goto(c, "open")
  /\ UNCHANGED <<runtimeVars, inside, closing, owns, session>>

SpawnFails(c) ==
  /\ at[c] = "spawn" /\ Goto(c, "none")
  /\ Release
  /\ UNCHANGED <<audio, inside, closing, owns, session>>

Close(c) ==
  /\ UiFree /\ at[c] # "none"
  /\ closing' = [closing EXCEPT ![c] = TRUE]
  /\ UNCHANGED <<runtimeVars, inside, at, owns, session>>

\* destroy, once the worker is finished and the images are gone
Destroy(c) ==
  /\ UiFree /\ at[c] = "finished" /\ Goto(c, "none")
  /\ Release
  /\ closing' = [closing EXCEPT ![c] = FALSE]
  /\ UNCHANGED <<audio, inside, owns, session>>

-----------------------------------------------------------------------------
(* Both kinds of workers *)

\* fault() asks for the shutdown that the next rounds try.
Faults(c) == closing' = [closing EXCEPT ![c] = TRUE] /\ Goto(c, "close")

EnterFor(c, from, to) ==
  /\ at[c] = from /\ Enter(c) /\ Goto(c, to)
  /\ UNCHANGED <<runtimeVars, closing, owns, session>>

\* There is no gate, or its mutex fails when it is this worker's turn; a
\* stream_close that fails so is just tried again.
EnterFails(c) ==
  /\ at[c] \in {"claim", "unclaim", "tick"} /\ (~gate \/ inside = Nobody)
  /\ Faults(c)
  /\ UNCHANGED <<runtimeVars, inside, owns, session>>

-----------------------------------------------------------------------------
(* A player's worker *)

\* open_session: audible media need the audio device, unless it is kept over a
\* seek.
SessionOpens(c, sound) ==
  /\ at[c] = "open"
  /\ session' = [session EXCEPT ![c] = sound]
  /\ Goto(c, IF sound = "audible" /\ ~owns[c] THEN "claim" ELSE "play")
  /\ UNCHANGED <<runtimeVars, inside, closing, owns>>

\* lv_aic_media_audio_acquire, inside the gate
Claim(c) ==
  /\ at[c] = "claiming"
  /\ Leave(TRUE)
  /\ IF AudioIsFree(c)
       THEN /\ audio' = c /\ owns' = [owns EXCEPT ![c] = TRUE]
            /\ Goto(c, "play") /\ UNCHANGED closing
       ELSE Faults(c) /\ UNCHANGED <<audio, owns>>
  /\ UNCHANGED <<users, gate, session>>

\* A failure of the SDK while a session is opened or played.
PlayerFaults(c) ==
  /\ at[c] \in {"open", "play"} /\ Faults(c)
  /\ UNCHANGED <<runtimeVars, inside, owns, session>>

\* lv_aic_player_session_start
Start(c) ==
  /\ at[c] = "play" /\ session[c] = "audible"
  /\ session' = [session EXCEPT ![c] = "playing"]
  /\ UNCHANGED <<runtimeVars, inside, at, closing, owns>>

\* A seek closes the session and opens it again, unless it was cancelled.
Seek(c) ==
  /\ at[c] = "play" /\ ~closing[c]
  /\ session' = [session EXCEPT ![c] = "none"]
  /\ Goto(c, "seek")
  /\ UNCHANGED <<runtimeVars, inside, closing, owns>>

Reopens(c) ==
  /\ at[c] = "seek" /\ Goto(c, IF closing[c] THEN "close" ELSE "open")
  /\ UNCHANGED <<runtimeVars, inside, closing, owns, session>>

SeesClosing(c) ==
  /\ at[c] = "play" /\ closing[c] /\ Goto(c, "close")
  /\ UNCHANGED <<runtimeVars, inside, closing, owns, session>>

\* The session is closed, perhaps after some rounds; then the audio device goes.
CloseSession(c) ==
  /\ at[c] = "close"
  /\ session' = [session EXCEPT ![c] = "none"]
  /\ Goto(c, IF owns[c] THEN "unclaim" ELSE "finished")
  /\ UNCHANGED <<runtimeVars, inside, closing, owns>>

\* lv_aic_media_audio_release; the worker's next access is its last.
Unclaim(c) ==
  /\ at[c] = "unclaiming"
  /\ Leave(TRUE)
  /\ IF audio = c
       THEN /\ audio' = Nobody /\ owns' = [owns EXCEPT ![c] = FALSE]
            /\ Goto(c, "finished") /\ UNCHANGED closing
       ELSE Faults(c) /\ UNCHANGED <<audio, owns>>
  /\ UNCHANGED <<users, gate, session>>

PlayerEnters(c) == EnterFor(c, "claim", "claiming") \/ EnterFor(c, "unclaim", "unclaiming")

PlayerWorker(c) ==
  \/ \E sound \in {"silent", "audible"} : SessionOpens(c, sound)
  \/ PlayerEnters(c) \/ Claim(c) \/ PlayerFaults(c)
  \/ Start(c) \/ Seek(c) \/ Reopens(c) \/ SeesClosing(c) \/ CloseSession(c)
  \/ Unclaim(c) \/ EnterFails(c)

-----------------------------------------------------------------------------
(* An APNG's worker: every use of the codec is inside the gate. *)

\* load, after which the first tick comes before anything else
Load(c, ok) ==
  /\ at[c] = "open"
  /\ IF ok THEN Goto(c, "tick") /\ UNCHANGED closing ELSE Faults(c)
  /\ UNCHANGED <<runtimeVars, inside, owns, session>>

\* A round: it ticks the stream, unless the mailbox is full (a round that leaves
\* all this alone) or the stream refuses a restart, a rate or a pause.
Round(c) ==
  /\ at[c] = "top" /\ Goto(c, IF closing[c] THEN "close" ELSE "tick")
  /\ UNCHANGED <<runtimeVars, inside, closing, owns, session>>

RoundFails(c) ==
  /\ at[c] = "top" /\ ~closing[c] /\ Faults(c)
  /\ UNCHANGED <<runtimeVars, inside, owns, session>>

\* stream_tick
Ticked(c, ok) ==
  /\ at[c] = "ticking"
  /\ Leave(ok)
  /\ IF ok THEN Goto(c, "top") /\ UNCHANGED closing ELSE Faults(c)
  /\ UNCHANGED <<runtimeVars, owns, session>>

\* stream_close, which the next round tries again if it is refused
Shut(c, ok) ==
  /\ at[c] = "shutting"
  /\ Leave(ok)
  /\ Goto(c, IF ok THEN "finished" ELSE "close")
  /\ UNCHANGED <<runtimeVars, closing, owns, session>>

ApngEnters(c) == EnterFor(c, "tick", "ticking") \/ EnterFor(c, "close", "shutting")

ApngWorker(c) ==
  \/ \E ok \in BOOLEAN : Load(c, ok) \/ Ticked(c, ok) \/ Shut(c, ok)
  \/ Round(c) \/ RoundFails(c) \/ ApngEnters(c)
  \/ EnterFails(c)

-----------------------------------------------------------------------------
Ui ==
  \E c \in Client : Prepare(c) \/ SpawnWorker(c) \/ SpawnFails(c) \/ Close(c) \/ Destroy(c)

Next ==
  \/ Ui
  \/ \E c \in Player : PlayerWorker(c)
  \/ \E c \in Apng : ApngWorker(c)

Spec == Init /\ [][Next]_vars

\* The workers run; the mutex is passed on to who waits for it, and a session or
\* stream that refuses to close is closed at last: the code retries without end.
Fairness ==
  /\ \A c \in Player : WF_vars(PlayerWorker(c)) /\ SF_vars(PlayerEnters(c))
  /\ \A c \in Apng : WF_vars(ApngWorker(c)) /\ SF_vars(ApngEnters(c)) /\ SF_vars(Shut(c, TRUE))
FairSpec == Spec /\ Fairness

-----------------------------------------------------------------------------
(* Properties *)

Registered == {c \in Client : at[c] # "none"}

TypeOK ==
  /\ users \in Nat /\ gate \in BOOLEAN
  /\ inside \in Client \cup {Nobody} /\ audio \in Player \cup {Nobody}
  /\ at \in [Client -> {"none", "spawn", "open", "claim", "play", "seek", "top", "tick", "close",
                        "unclaim", "finished"} \cup InGate]
  /\ closing \in [Client -> BOOLEAN] /\ owns \in [Player -> BOOLEAN]
  /\ session \in [Player -> {"none", "silent", "audible", "playing"}]

\* The gate and the engine outlive everybody who may use them, whatever the
\* order of preparing, failing and destroying.
GateOutlivesUsers ==
  /\ users = Cardinality(Registered)
  /\ gate <=> users > 0
  /\ \A c \in Client : inside = c <=> at[c] \in InGate

\* Two sources never play at once, and an instance that is gone or only has to
\* be destroyed leaves the device to the others.
OneSource ==
  \A c \in Player :
    /\ owns[c] <=> audio = c
    /\ session[c] = "playing" => audio = c
    /\ at[c] \in {"none", "spawn", "finished"} => audio # c /\ session[c] = "none"

RuntimeInv == TypeOK /\ GateOutlivesUsers /\ OneSource

\* Every worker that is asked to, or faults, leaves the gate and the audio device
\* to the others: nobody waits for ever.
WorkersFinish == \A c \in Client : closing[c] ~> at[c] = "finished"
=============================================================================
