----------------------------- MODULE MediaProofs -----------------------------
(***************************************************************************)
(* The media runtime is safe for any number of players and APNGs: the gate *)
(* and the engine outlive their users, and one source plays at a time.     *)
(* MediaInv strengthens RuntimeInv by which sessions a worker can have     *)
(* where it claims and gives up the audio device.                          *)
(*                                                                         *)
(* The APNG widget, over that runtime, is safe for any number of widgets,  *)
(* slaves, playbacks and images.  WidgetInd strengthens WidgetInv by what  *)
(* a tick has established when the worker comes in between its calls, and  *)
(* by whose the playbacks of the images are that somebody holds.  What the *)
(* workers and the application's other instances do is one lemma           *)
(* (BesideKeeps): they neither make nor destroy a playback of a widget.    *)
(***************************************************************************)
EXTENDS ApngWidget, FiniteSetTheorems, TLAPS

\* A session that plays got the device first and closes before it is given up.
Sessions ==
  \A c \in Player :
    /\ at[c] \in {"claim", "claiming"} => session[c] = "audible"
    /\ at[c] = "play" /\ session[c] = "audible" => owns[c]
    /\ at[c] \in {"unclaim", "unclaiming"} => session[c] = "none"

MediaInv == RuntimeInv /\ Sessions

\* The instances are finitely many.
LEMMA FiniteRegistered == IsFiniteSet(Registered) /\ Cardinality(Registered) \in Nat
<1>1. IsFiniteSet(Client)
  BY RuntimeConstants, FS_Union DEF Client
<1>2. IsFiniteSet(Registered)
  BY <1>1, FS_Subset DEF Registered
<1> QED BY <1>2, FS_CardinalityType

\* Nobody inside, nobody where only those inside are.
LEMMA GateIsEmpty ==
  ASSUME MediaInv, inside = Nobody
  PROVE  \A c \in Client : at[c] \notin InGate
BY RuntimeConstants DEF MediaInv, RuntimeInv, GateOutlivesUsers, Client

\* A step that registers and releases nobody.
LEMMA UsersStay ==
  ASSUME MediaInv, NEW c \in Client, NEW place, at' = [at EXCEPT ![c] = place],
         at[c] # "none", place # "none", UNCHANGED <<users, gate>>
  PROVE  users' = Cardinality(Registered)' /\ (gate <=> users > 0)'
<1>1. Registered' = Registered
  BY DEF Registered, MediaInv, RuntimeInv, TypeOK
<1> QED BY <1>1 DEF MediaInv, RuntimeInv, GateOutlivesUsers

\* The UI thread: one user more or less.
LEMMA UiSafe ==
  ASSUME MediaInv, Ui
  PROVE  MediaInv'
<1> USE DEF MediaInv, RuntimeInv
<1>1. ASSUME NEW c \in Client, Prepare(c) PROVE MediaInv'
  <2>1. at[c] = "none" /\ at' = [at EXCEPT ![c] = "spawn"] /\ users' = users + 1 /\ gate' = TRUE
        /\ UNCHANGED <<inside, audio, closing, owns, session>>
    BY <1>1 DEF Prepare, Acquire, Goto
  <2>2. Registered' = Registered \cup {c} /\ c \notin Registered
    BY <2>1 DEF Registered, TypeOK
  <2>3. users' = Cardinality(Registered)'
    BY <2>1, <2>2, FiniteRegistered, FS_AddElement DEF GateOutlivesUsers
  <2>4. GateOutlivesUsers'
    BY <2>1, <2>3 DEF GateOutlivesUsers, InGate, TypeOK
  <2>5. TypeOK' /\ OneSource' /\ Sessions'
    BY <2>1 DEF TypeOK, OneSource, Sessions, Client
  <2> QED BY <2>4, <2>5
<1>2. ASSUME NEW c \in Client, SpawnFails(c) \/ Destroy(c) PROVE MediaInv'
  <2>1. at[c] \in {"spawn", "finished"} /\ at' = [at EXCEPT ![c] = "none"]
        /\ users' = users - 1 /\ gate' = (gate /\ users # 1)
        /\ UNCHANGED <<inside, audio, owns, session>>
        /\ closing' \in {closing, [closing EXCEPT ![c] = FALSE]}
    BY <1>2 DEF SpawnFails, Destroy, Release, IsLast, Goto
  <2>2. Registered' = Registered \ {c} /\ c \in Registered
    BY <2>1 DEF Registered, TypeOK
  <2>3. users' = Cardinality(Registered)' /\ users # 0
    <3>1. Cardinality(Registered \ {c}) = Cardinality(Registered) - 1
      BY <2>2, FiniteRegistered, FS_RemoveElement
    <3>2. Cardinality(Registered) # 0
      BY <2>2, FiniteRegistered, FS_EmptySet
    <3> QED BY <2>1, <2>2, <3>1, <3>2 DEF GateOutlivesUsers
  <2>4. GateOutlivesUsers'
    <3>1. users \in Nat /\ gate
      BY <2>3 DEF TypeOK, GateOutlivesUsers
    <3>2. users # 1 <=> users' > 0
      BY <2>1, <2>3, <3>1
    <3>4. gate' <=> users # 1
      BY <2>1, <3>1, Zenon
    <3>3. \A d \in Client : (inside = d)' <=> at'[d] \in InGate
      BY <2>1 DEF GateOutlivesUsers, InGate, TypeOK
    <3> QED BY <2>3, <3>2, <3>3, <3>4 DEF GateOutlivesUsers
  <2>5. users' \in Nat /\ gate' \in BOOLEAN
    BY <2>1, <2>3 DEF TypeOK
  <2>6. TypeOK'
    BY <2>1, <2>5 DEF TypeOK
  <2>7. OneSource' /\ Sessions'
    BY <2>1 DEF TypeOK, OneSource, Sessions, Client
  <2> QED BY <2>4, <2>6, <2>7
<1>3. ASSUME NEW c \in Client, SpawnWorker(c) PROVE MediaInv'
  <2>1. at[c] = "spawn" /\ at' = [at EXCEPT ![c] = "open"]
        /\ UNCHANGED <<users, gate, inside, audio, closing, owns, session>>
    BY <1>3 DEF SpawnWorker, Goto, runtimeVars
  <2>2. GateOutlivesUsers'
    BY <2>1, UsersStay DEF GateOutlivesUsers, InGate, TypeOK
  <2> QED BY <2>1, <2>2 DEF TypeOK, OneSource, Sessions, Client
<1>4. ASSUME NEW c \in Client, Close(c) PROVE MediaInv'
  <2>1. closing' = [closing EXCEPT ![c] = TRUE]
        /\ UNCHANGED <<users, gate, inside, at, audio, owns, session>>
    BY <1>4 DEF Close, runtimeVars
  <2> QED BY <2>1 DEF TypeOK, GateOutlivesUsers, Registered, OneSource, Sessions
<1> QED BY <1>1, <1>2, <1>3, <1>4 DEF Ui

\* Entering the gate, and failing to.
LEMMA EnterSafe ==
  ASSUME MediaInv, NEW c \in Client,
         \/ EnterFails(c)
         \/ \E way \in {<<"claim", "claiming">>, <<"unclaim", "unclaiming">>,
                        <<"tick", "ticking">>, <<"close", "shutting">>} :
              EnterFor(c, way[1], way[2])
  PROVE  MediaInv'
<1> USE DEF MediaInv, RuntimeInv
<1>1. CASE EnterFails(c)
  <2>1. at[c] \in {"claim", "unclaim", "tick"} /\ at' = [at EXCEPT ![c] = "close"]
        /\ closing' = [closing EXCEPT ![c] = TRUE]
        /\ UNCHANGED <<users, gate, inside, audio, owns, session>>
    BY <1>1 DEF EnterFails, Faults, Goto, runtimeVars
  <2>2. GateOutlivesUsers'
    BY <2>1, UsersStay DEF GateOutlivesUsers, InGate, TypeOK
  <2> QED BY <2>1, <2>2 DEF TypeOK, OneSource, Sessions, Client
<1>2. ASSUME NEW from, NEW to,
             <<from, to>> \in {<<"claim", "claiming">>, <<"unclaim", "unclaiming">>,
                               <<"tick", "ticking">>, <<"close", "shutting">>},
             EnterFor(c, from, to)
      PROVE  MediaInv'
  <2>1. at[c] = from /\ at' = [at EXCEPT ![c] = to] /\ inside = Nobody /\ inside' = c
        /\ UNCHANGED <<users, gate, audio, closing, owns, session>>
    BY <1>2 DEF EnterFor, Enter, Goto, runtimeVars
  <2>2. to \in InGate /\ from # "none" /\ to # "none"
    BY <1>2 DEF InGate
  <2>3. \A d \in Client : at[d] \notin InGate
    BY <2>1, GateIsEmpty
  <2>4. GateOutlivesUsers'
    BY <2>1, <2>2, <2>3, UsersStay DEF GateOutlivesUsers, TypeOK
  <2>5. TypeOK'
    BY <2>1, <2>2 DEF TypeOK, Client
  <2>6. OneSource' /\ Sessions'
    BY <1>2, <2>1 DEF TypeOK, OneSource, Sessions, Client
  <2> QED BY <2>4, <2>5, <2>6
<1> QED BY <1>1, <1>2

\* A worker's step that leaves the audio device alone and touches no session but
\* its own.
LEMMA DeviceStays ==
  ASSUME MediaInv, NEW c \in Client, NEW place, at' = [at EXCEPT ![c] = place],
         UNCHANGED <<users, gate, audio, owns>>, inside' \in Client \cup {Nobody},
         at[c] \notin {"none", "spawn"},
         place \in {"open", "claim", "play", "seek", "top", "tick", "close", "unclaim", "finished"},
         closing' \in {closing, [closing EXCEPT ![c] = TRUE]},
         session' \in [Player -> {"none", "silent", "audible", "playing"}],
         \A d \in Player : d # c => session'[d] = session[d],
         c \in Player => /\ session'[c] = "playing" => session[c] = "playing"
                         /\ place = "claim" => session'[c] = "audible"
                         /\ place = "play" /\ session'[c] = "audible" => owns[c]
                         /\ place = "unclaim" => session'[c] = "none"
                         /\ place = "finished" => ~owns[c] /\ session'[c] = "none"
  PROVE  TypeOK' /\ OneSource' /\ Sessions'
<1>1. \A d \in Client : at'[d] = IF d = c THEN place ELSE at[d]
  BY DEF MediaInv, RuntimeInv, TypeOK
<1>2. TypeOK'
  BY DEF MediaInv, RuntimeInv, TypeOK
<1>3. OneSource'
  <2> SUFFICES ASSUME NEW d \in Player
               PROVE  /\ owns[d] <=> audio = d
                      /\ session'[d] = "playing" => audio = d
                      /\ at'[d] \in {"none", "spawn", "finished"}
                           => audio # d /\ session'[d] = "none"
    BY DEF OneSource
  <2>1. /\ owns[d] <=> audio = d
        /\ session[d] = "playing" => audio = d
        /\ at[d] \in {"none", "spawn", "finished"} => audio # d /\ session[d] = "none"
    BY DEF MediaInv, RuntimeInv, OneSource
  <2>2. CASE d = c
    BY <1>1, <2>1, <2>2
  <2>3. CASE d # c
    BY <1>1, <2>1, <2>3 DEF Client
  <2> QED BY <2>2, <2>3
<1>4. Sessions'
  BY <1>1 DEF MediaInv, Sessions, Client
<1> QED BY <1>2, <1>3, <1>4

\* ... outside the gate
LEMMA OutsideSafe ==
  ASSUME MediaInv, NEW c \in Client, NEW place, at' = [at EXCEPT ![c] = place],
         at[c] \notin InGate \cup {"none", "spawn"},
         place \in {"open", "claim", "play", "seek", "top", "tick", "close", "unclaim", "finished"},
         UNCHANGED <<users, gate, inside>>, TypeOK', OneSource', Sessions'
  PROVE  MediaInv'
<1>1. users' = Cardinality(Registered)' /\ (gate <=> users > 0)'
  BY UsersStay
<1>2. \A d \in Client : (inside = d)' <=> at'[d] \in InGate
  BY DEF MediaInv, RuntimeInv, GateOutlivesUsers, InGate, TypeOK
<1> QED BY <1>1, <1>2 DEF MediaInv, RuntimeInv, GateOutlivesUsers

\* ... out of the gate
LEMMA LeaveSafe ==
  ASSUME MediaInv, NEW c \in Client, NEW place, at' = [at EXCEPT ![c] = place],
         at[c] \in InGate, inside' = Nobody,
         place \in {"open", "claim", "play", "seek", "top", "tick", "close", "unclaim", "finished"},
         UNCHANGED <<users, gate>>, TypeOK', OneSource', Sessions'
  PROVE  MediaInv'
<1>1. users' = Cardinality(Registered)' /\ (gate <=> users > 0)'
  BY UsersStay DEF InGate
<1>2. \A d \in Client : inside' # d
  BY RuntimeConstants DEF Client
<1>3. \A d \in Client : at'[d] \notin InGate
  BY DEF MediaInv, RuntimeInv, GateOutlivesUsers, InGate, TypeOK
<1> QED BY <1>1, <1>2, <1>3 DEF MediaInv, RuntimeInv, GateOutlivesUsers

\* The steps of a player's worker outside the gate
LEMMA PlayerOutside ==
  ASSUME MediaInv, NEW c \in Player,
         \/ \E sound \in {"silent", "audible"} : SessionOpens(c, sound)
         \/ PlayerFaults(c) \/ Seek(c) \/ Reopens(c) \/ SeesClosing(c) \/ CloseSession(c)
  PROVE  MediaInv'
<1> DEFINE Ok(place) ==
      /\ at' = [at EXCEPT ![c] = place]
      /\ UNCHANGED <<users, gate, inside, audio, owns>>
      /\ at[c] \in {"open", "play", "seek", "close"}
      /\ place \in {"open", "claim", "play", "close", "seek", "unclaim", "finished"}
      /\ closing' \in {closing, [closing EXCEPT ![c] = TRUE]}
      /\ \E own \in {"none", "silent", "audible", session[c]} :
           /\ session' = [session EXCEPT ![c] = own]
           /\ place = "claim" => own = "audible"
           /\ place = "play" => (own = "audible" => owns[c])
           /\ place = "unclaim" => own = "none"
           /\ place = "finished" => ~owns[c] /\ own = "none"
<1>0. c \in Client /\ session = [session EXCEPT ![c] = session[c]]
  BY DEF Client, MediaInv, RuntimeInv, TypeOK
<1>1. ASSUME NEW place, Ok(place) PROVE MediaInv'
  <2>1. PICK own \in {"none", "silent", "audible", session[c]} :
          /\ session' = [session EXCEPT ![c] = own]
          /\ place = "claim" => own = "audible"
          /\ place = "play" => (own = "audible" => owns[c])
          /\ place = "unclaim" => own = "none"
          /\ place = "finished" => ~owns[c] /\ own = "none"
    BY <1>1
  <2>2. session[c] \in {"none", "silent", "audible", "playing"}
    BY DEF MediaInv, RuntimeInv, TypeOK
  <2>3. session' \in [Player -> {"none", "silent", "audible", "playing"}]
    BY <2>1, <2>2 DEF MediaInv, RuntimeInv, TypeOK
  <2>4. session'[c] = own /\ \A d \in Player : d # c => session'[d] = session[d]
    BY <2>1 DEF MediaInv, RuntimeInv, TypeOK
  <2>5. TypeOK' /\ OneSource' /\ Sessions'
    <3>1. inside' \in Client \cup {Nobody}
      BY <1>1 DEF MediaInv, RuntimeInv, TypeOK
    <3>2. own = "playing" => session[c] = "playing"
      BY <2>1
    <3> HIDE DEF Ok
    <3>3. /\ at' = [at EXCEPT ![c] = place] /\ UNCHANGED <<users, gate, audio, owns>>
          /\ at[c] \notin {"none", "spawn"}
          /\ place \in {"open", "claim", "play", "seek", "top", "tick", "close", "unclaim",
                        "finished"}
          /\ closing' \in {closing, [closing EXCEPT ![c] = TRUE]}
      BY <1>1 DEF Ok
    <3> QED BY <1>0, <2>1, <2>3, <2>4, <3>1, <3>2, <3>3, DeviceStays
  <2>6. /\ at' = [at EXCEPT ![c] = place] /\ UNCHANGED <<users, gate, inside>>
        /\ at[c] \notin InGate \cup {"none", "spawn"}
        /\ place \in {"open", "claim", "play", "seek", "top", "tick", "close", "unclaim",
                      "finished"}
    BY <1>1 DEF InGate
  <2> HIDE DEF Ok
  <2> QED BY <1>0, <2>5, <2>6, OutsideSafe
<1>2. ASSUME NEW sound \in {"silent", "audible"}, SessionOpens(c, sound)
      PROVE  Ok("claim") \/ Ok("play")
  BY <1>2 DEF SessionOpens, Goto, runtimeVars
<1>3. ASSUME PlayerFaults(c) PROVE Ok("close")
  BY <1>0, <1>3 DEF PlayerFaults, Faults, Goto, runtimeVars
<1>4. ASSUME Seek(c) PROVE Ok("seek")
  BY <1>4 DEF Seek, Goto, runtimeVars
<1>5. ASSUME Reopens(c) PROVE Ok("close") \/ Ok("open")
  BY <1>0, <1>5 DEF Reopens, Goto, runtimeVars
<1>6. ASSUME SeesClosing(c) PROVE Ok("close")
  BY <1>0, <1>6 DEF SeesClosing, Goto, runtimeVars
<1>7. ASSUME CloseSession(c) PROVE Ok("unclaim") \/ Ok("finished")
  BY <1>7 DEF CloseSession, Goto, runtimeVars
<1> HIDE DEF Ok
<1> QED BY <1>1, <1>2, <1>3, <1>4, <1>5, <1>6, <1>7

\* A claim or a release of the device that is refused
LEMMA RefusedSafe ==
  ASSUME MediaInv, NEW c \in Client, at[c] \in InGate, inside' = Nobody, Faults(c),
         UNCHANGED <<users, gate, audio, owns, session>>
  PROVE  MediaInv'
<1>1. /\ at' = [at EXCEPT ![c] = "close"] /\ inside' \in Client \cup {Nobody}
      /\ closing' \in {closing, [closing EXCEPT ![c] = TRUE]}
      /\ at[c] \notin {"none", "spawn"}
  BY DEF Faults, Goto, InGate
<1>2. /\ session' \in [Player -> {"none", "silent", "audible", "playing"}]
      /\ session'[c] = session[c] /\ \A d \in Player : session'[d] = session[d]
  BY DEF MediaInv, RuntimeInv, TypeOK
<1>3. TypeOK' /\ OneSource' /\ Sessions'
  BY <1>1, <1>2, DeviceStays
<1> QED BY <1>1, <1>3, LeaveSafe

\* The device itself: no other player owns it when it is taken, none when it is
\* given up.
LEMMA ClaimSafe ==
  ASSUME MediaInv, NEW c \in Player, Claim(c)
  PROVE  MediaInv'
<1>0. c \in Client /\ at[c] \in InGate /\ inside' = Nobody /\ Nobody \notin Client
  BY RuntimeConstants DEF Client, Claim, Leave, InGate
<1>1. CASE AudioIsFree(c)
  <2>1. /\ audio' = c /\ owns' = [owns EXCEPT ![c] = TRUE] /\ at' = [at EXCEPT ![c] = "play"]
        /\ UNCHANGED <<users, gate, closing, session>> /\ at[c] = "claiming"
        /\ audio \in {Nobody, c}
    BY <1>1 DEF Claim, Goto, AudioIsFree
  <2>2. TypeOK'
    BY <1>0, <2>1 DEF MediaInv, RuntimeInv, TypeOK
  <2>3. Sessions'
    BY <1>0, <2>1 DEF MediaInv, RuntimeInv, TypeOK, Sessions, Client
  <2>4. ASSUME NEW d \in Player
        PROVE  /\ owns'[d] <=> c = d
               /\ session[d] = "playing" => c = d
               /\ at'[d] \in {"none", "spawn", "finished"} => c # d /\ session[d] = "none"
    <3>1. /\ owns[d] <=> audio = d
          /\ session[d] = "playing" => audio = d
          /\ at[d] \in {"none", "spawn", "finished"} => audio # d /\ session[d] = "none"
      BY DEF MediaInv, RuntimeInv, OneSource
    <3>2. CASE d = c
      BY <1>0, <2>1, <3>2 DEF MediaInv, RuntimeInv, TypeOK
    <3>3. CASE d # c
      <4>1. audio # d
        BY <1>0, <2>1, <3>3 DEF Client
      <4>2. owns'[d] = owns[d] /\ at'[d] = at[d]
        BY <2>1, <3>3 DEF MediaInv, RuntimeInv, TypeOK, Client
      <4> QED BY <3>1, <3>3, <4>1, <4>2
    <3> QED BY <3>2, <3>3
  <2>5. OneSource'
    BY <2>1, <2>4 DEF OneSource
  <2> QED BY <1>0, <2>1, <2>2, <2>3, <2>5, LeaveSafe
<1>2. CASE ~AudioIsFree(c)
  BY <1>0, <1>2, RefusedSafe DEF Claim
<1> QED BY <1>1, <1>2

LEMMA UnclaimSafe ==
  ASSUME MediaInv, NEW c \in Player, Unclaim(c)
  PROVE  MediaInv'
<1>0. c \in Client /\ at[c] \in InGate /\ inside' = Nobody /\ Nobody \notin Client
  BY RuntimeConstants DEF Client, Unclaim, Leave, InGate
<1>1. CASE audio = c
  <2>1. /\ audio' = Nobody /\ owns' = [owns EXCEPT ![c] = FALSE]
        /\ at' = [at EXCEPT ![c] = "finished"]
        /\ UNCHANGED <<users, gate, closing, session>> /\ at[c] = "unclaiming"
    BY <1>1 DEF Unclaim, Goto
  <2>2. TypeOK'
    BY <1>0, <2>1 DEF MediaInv, RuntimeInv, TypeOK
  <2>3. Sessions'
    BY <1>0, <2>1 DEF MediaInv, RuntimeInv, TypeOK, Sessions, Client
  <2>4. ASSUME NEW d \in Player
        PROVE  /\ ~owns'[d] /\ d # Nobody
               /\ session[d] # "playing"
               /\ at'[d] \in {"none", "spawn", "finished"} => session[d] = "none"
    <3>1. /\ owns[d] <=> audio = d
          /\ session[d] = "playing" => audio = d
          /\ at[d] \in {"none", "spawn", "finished"} => session[d] = "none"
          /\ at[d] = "unclaiming" => session[d] = "none"
      BY DEF MediaInv, RuntimeInv, OneSource, Sessions
    <3>2. CASE d = c
      BY <1>0, <2>1, <3>1, <3>2 DEF MediaInv, RuntimeInv, TypeOK
    <3>3. CASE d # c
      <4>1. owns'[d] = owns[d] /\ at'[d] = at[d] /\ d \in Client
        BY <2>1, <3>3 DEF MediaInv, RuntimeInv, TypeOK, Client
      <4> QED BY <1>0, <1>1, <3>1, <3>3, <4>1
    <3> QED BY <3>2, <3>3
  <2>5. OneSource'
    BY <2>1, <2>4 DEF OneSource
  <2> QED BY <1>0, <2>1, <2>2, <2>3, <2>5, LeaveSafe
<1>2. CASE audio # c
  BY <1>0, <1>2, RefusedSafe DEF Unclaim
<1> QED BY <1>1, <1>2

LEMMA PlayerSafe ==
  ASSUME MediaInv, NEW c \in Player, PlayerWorker(c)
  PROVE  MediaInv'
<1>0. c \in Client
  BY DEF Client
<1>1. CASE Start(c)
  <2>1. at[c] = "play" /\ session[c] = "audible" /\ session' = [session EXCEPT ![c] = "playing"]
        /\ UNCHANGED <<users, gate, audio, inside, at, closing, owns>>
    BY <1>1 DEF Start, runtimeVars
  <2>2. TypeOK'
    BY <2>1 DEF MediaInv, RuntimeInv, TypeOK
  <2>3. GateOutlivesUsers'
    BY <2>1 DEF MediaInv, RuntimeInv, GateOutlivesUsers, Registered
  <2>4. audio = c
    BY <2>1 DEF MediaInv, RuntimeInv, OneSource, Sessions
  <2>5. OneSource'
    BY <2>1, <2>4 DEF MediaInv, RuntimeInv, TypeOK, OneSource
  <2>6. Sessions'
    BY <2>1 DEF MediaInv, RuntimeInv, TypeOK, Sessions
  <2> QED BY <2>2, <2>3, <2>5, <2>6 DEF MediaInv, RuntimeInv
<1>2. CASE EnterFor(c, "claim", "claiming") \/ EnterFor(c, "unclaim", "unclaiming")
           \/ EnterFails(c)
  BY <1>0, <1>2, EnterSafe
<1> QED BY <1>1, <1>2, PlayerOutside, ClaimSafe, UnclaimSafe DEF PlayerWorker, PlayerEnters

-----------------------------------------------------------------------------
\* An APNG's worker: it has no session and never owns the device.
LEMMA ApngSafe ==
  ASSUME MediaInv, NEW c \in Apng, ApngWorker(c)
  PROVE  MediaInv'
<1> DEFINE Ok(place) ==
      /\ at' = [at EXCEPT ![c] = place]
      /\ UNCHANGED <<users, gate, audio, owns, session>>
      /\ at[c] \notin {"none", "spawn"}
      /\ place \in {"top", "tick", "close", "finished"}
      /\ closing' \in {closing, [closing EXCEPT ![c] = TRUE]}
<1>0. c \in Client /\ c \notin Player
  BY RuntimeConstants DEF Client
<1>1. ASSUME NEW place, Ok(place), inside' \in Client \cup {Nobody}
      PROVE  TypeOK' /\ OneSource' /\ Sessions'
  <2>1. /\ session' \in [Player -> {"none", "silent", "audible", "playing"}]
        /\ \A d \in Player : session'[d] = session[d]
    BY <1>1 DEF MediaInv, RuntimeInv, TypeOK
  <2> QED BY <1>0, <1>1, <2>1, DeviceStays
<1>2. ASSUME NEW place, Ok(place), inside' = inside, at[c] \notin InGate PROVE MediaInv'
  <2>1. inside' \in Client \cup {Nobody}
    BY <1>2 DEF MediaInv, RuntimeInv, TypeOK
  <2> QED BY <1>0, <1>1, <1>2, <2>1, OutsideSafe
<1>3. ASSUME NEW place, Ok(place), inside' = Nobody, at[c] \in InGate PROVE MediaInv'
  BY <1>0, <1>1, <1>3, LeaveSafe
<1>4. ASSUME NEW ok \in BOOLEAN, Load(c, ok) PROVE MediaInv'
  <2>1. (Ok("tick") \/ Ok("close")) /\ inside' = inside /\ at[c] \notin InGate
    BY <1>4 DEF Load, Faults, Goto, runtimeVars, InGate
  <2> HIDE DEF Ok
  <2> QED BY <1>2, <2>1
<1>5. ASSUME Round(c) \/ RoundFails(c) PROVE MediaInv'
  <2>1. (Ok("tick") \/ Ok("close")) /\ inside' = inside /\ at[c] \notin InGate
    BY <1>5 DEF Round, RoundFails, Faults, Goto, runtimeVars, InGate
  <2> HIDE DEF Ok
  <2> QED BY <1>2, <2>1
<1>6. ASSUME NEW ok \in BOOLEAN, Ticked(c, ok) PROVE MediaInv'
  <2>1. (Ok("top") \/ Ok("close")) /\ inside' = Nobody /\ at[c] \in InGate
    BY <1>6 DEF Ticked, Leave, Faults, Goto, runtimeVars, InGate
  <2> HIDE DEF Ok
  <2> QED BY <1>3, <2>1
<1>7. ASSUME NEW ok \in BOOLEAN, Shut(c, ok) PROVE MediaInv'
  <2>1. (Ok("finished") \/ Ok("close")) /\ inside' = Nobody /\ at[c] \in InGate
    BY <1>7 DEF Shut, Leave, Goto, runtimeVars, InGate
  <2> HIDE DEF Ok
  <2> QED BY <1>3, <2>1
<1>8. CASE EnterFor(c, "tick", "ticking") \/ EnterFor(c, "close", "shutting") \/ EnterFails(c)
  BY <1>0, <1>8, EnterSafe
<1> QED BY <1>4, <1>5, <1>6, <1>7, <1>8 DEF ApngWorker, ApngEnters

-----------------------------------------------------------------------------
LEMMA InitIsSafe == Init => MediaInv
<1> SUFFICES ASSUME Init PROVE MediaInv
  OBVIOUS
<1>1. Registered = {} /\ Nobody \notin Client /\ \A c \in Player : c \in Client
  BY RuntimeConstants DEF Init, Registered, Client
<1>2. TypeOK
  BY <1>1 DEF Init, TypeOK
<1>3. GateOutlivesUsers
  BY <1>1, FS_EmptySet DEF Init, GateOutlivesUsers, InGate
<1>4. OneSource /\ Sessions
  BY <1>1 DEF Init, OneSource, Sessions
<1> QED BY <1>2, <1>3, <1>4 DEF MediaInv, RuntimeInv

LEMMA StepIsSafe == MediaInv /\ [Next]_vars => MediaInv'
<1> SUFFICES ASSUME MediaInv, [Next]_vars PROVE MediaInv'
  OBVIOUS
<1>1. CASE UNCHANGED vars
  BY <1>1 DEF vars, runtimeVars, MediaInv, RuntimeInv, TypeOK, GateOutlivesUsers, Registered,
              OneSource, Sessions
<1>2. CASE Ui
  BY <1>2, UiSafe
<1>3. CASE \E c \in Player : PlayerWorker(c)
  BY <1>3, PlayerSafe
<1>4. CASE \E c \in Apng : ApngWorker(c)
  BY <1>4, ApngSafe
<1> QED BY <1>1, <1>2, <1>3, <1>4 DEF Next

\* lv_aic_media_runtime.c, for any number of players and APNGs: the users are
\* counted, the gate and the engine exist exactly while there are any, a worker
\* inside is alone, and only the player that owns the audio device plays.
THEOREM RuntimeIsSafe == Spec => []RuntimeInv
<1>1. MediaInv => RuntimeInv
  BY DEF MediaInv
<1> QED BY <1>1, InitIsSafe, StepIsSafe, PTL DEF Spec

-----------------------------------------------------------------------------
(* The APNG widget *)

Steps == {"prepare", "spawn", "ask", "poll"}

\* In a tick no draw task is left, and its widget lives and has still to be
\* served.
Ticks ==
  /\ tick \in {NoTick} \cup [of : Widget, step : Steps]
  /\ tick # NoTick =>
       /\ drawing = {} /\ b[tick.of].life = "live" /\ b[tick.of].timer /\ ~b[tick.of].closing
       /\ tick.step = "prepare" => b[tick.of].replace /\ b[tick.of].playback = Nobody
       /\ tick.step # "prepare" => ~b[tick.of].replace
       /\ tick.step \in {"spawn", "ask"} => b[tick.of].playback # Nobody
       /\ tick.step = "spawn" => at[b[tick.of].playback] = "spawn"

\* A widget with work has a timer that runs; a playback c of it is its own, is
\* closing when it has to go, and was told what the application said.
Binding(w, c) ==
  /\ Ends(w) \/ b[w].replace \/ c # Nobody => b[w].timer
  /\ b[w].replace => c = Nobody \/ b[w].closing
  /\ b[w].life = "none" => c = Nobody /\ ~b[w].timer
  /\ c # Nobody =>
       /\ at[c] # "none" /\ \A v \in Widget : b[v].playback = c => v = w
       /\ Ends(w) => closing[c]
       /\ ~closing[c] /\ ~(tick.of = w /\ tick.step \in {"spawn", "ask"}) =>
            asked[c].start = b[w].start /\ asked[c].paused = b[w].paused

Bindings == \A w \in Widget : Binding(w, b[w].playback)

\* Draw tasks refer to images that are held, these to a playback with a worker,
\* which some widget has.
Images ==
  /\ drawing \subseteq Held
  /\ \A f \in Held : at[f[1]] \notin {"none", "spawn"} /\ \E w \in Widget : b[w].playback = f[1]

\* A slave's master lives, and the slave itself; work keeps its timer running.
Masters ==
  \A x \in Slave :
    /\ s[x].master # Nobody => Live(s[x].master) /\ s[x].timer /\ s[x].life = "live"
    /\ frame[x] # Nobody \/ s[x].life = "orphan" => s[x].timer

WidgetInd == WidgetTypeOK /\ Ticks /\ Bindings /\ Images /\ Masters

-----------------------------------------------------------------------------
(* What several actions have in common *)

\* A widget's binding is replaced by another.
LEMMA BoundTypes ==
  ASSUME WidgetTypeOK, NEW w \in Widget, NEW r \in WidgetBinding, Bound(w, r)
  PROVE  b' \in [Widget -> WidgetBinding]
BY DEF Bound, WidgetTypeOK

\* A call that leaves the widget its playback, and the others theirs.
LEMMA BindingsStay ==
  ASSUME WidgetTypeOK, TypeOK, Bindings, NEW w \in Widget, NEW r \in WidgetBinding,
         Bound(w, r), r.playback = b[w].playback, UNCHANGED <<at, tick>>,
         \A c \in Apng \ {r.playback} : closing'[c] = closing[c] /\ asked'[c] = asked[c],
         Binding(w, b[w].playback)'
  PROVE  Bindings'
<1>1. b'[w] = r /\ (\A v \in Widget \ {w} : b'[v] = b[v]) /\ b'[w].playback = b[w].playback
  BY DEF Bound, WidgetTypeOK
<1>2. ASSUME NEW v \in Widget, v # w
      PROVE  Binding(v, b[v].playback)'
  <2>1. b'[v] = b[v] /\ b[v].playback \in Apng \cup {Nobody} /\ Binding(v, b[v].playback)
    BY <1>1, <1>2 DEF Bindings, WidgetTypeOK, WidgetBinding
  <2>2. \A u \in Widget : b'[u].playback = b[u].playback
    BY <1>1
  <2>3. CASE b[v].playback = Nobody
    BY <2>1, <2>3 DEF Binding, Ends
  <2>4. CASE b[v].playback # Nobody
    <3>1. b[v].playback # r.playback
      BY <1>2, <2>1, <2>4 DEF Binding
    <3>2. closing'[b[v].playback] = closing[b[v].playback]
          /\ asked'[b[v].playback] = asked[b[v].playback]
      BY <2>1, <2>4, <3>1
    <3> QED BY <2>1, <2>2, <2>4, <3>2 DEF Binding, Ends
  <2> QED BY <2>3, <2>4
<1> QED BY <1>1, <1>2 DEF Bindings

\* retire: images only go.
LEMMA ShowsNothing ==
  ASSUME WidgetTypeOK, NEW w \in Widget, Shows(w, Nobody)
  PROVE  /\ Held' \subseteq Held
         /\ frame' \in [Holder -> Frames \cup {Nobody}]
         /\ \A h \in Holder : frame'[h] \in {Nobody, frame[h]}
<1>1. frame' \in [Holder -> Frames \cup {Nobody}] /\ \A h \in Holder : frame'[h] \in {Nobody, frame[h]}
  BY DEF Shows, WidgetTypeOK
<1> QED BY <1>1 DEF Held

\* An image is one of a playback.
LEMMA HeldFrames ==
  ASSUME WidgetTypeOK
  PROVE  \A f \in Held : f[1] \in Apng /\ f[2] \in Snapshot /\ f = <<f[1], f[2]>>
BY DEF WidgetTypeOK, Held, Frames, Holder

\* The workers, and the application's other instances
Beside ==
  \A c \in Apng :
    (\E w \in Widget : b[w].playback = c) =>
      /\ at[c] = "none" <=> at'[c] = "none"
      /\ at[c] = "spawn" <=> at'[c] = "spawn"
      /\ closing[c] => closing'[c]

LEMMA BesideKeeps ==
  ASSUME WidgetInd, Beside, UNCHANGED widgetVars
  PROVE  WidgetInd'
<1> USE DEF WidgetInd, widgetVars
<1>1. WidgetTypeOK'
  BY DEF WidgetTypeOK
<1>2. Ticks'
  <2>1. ASSUME tick # NoTick, tick.step = "spawn"
        PROVE  at'[b[tick.of].playback] = "spawn"
    <3>1. tick.of \in Widget /\ b[tick.of].playback # Nobody
      BY <2>1 DEF Ticks
    <3>2. b[tick.of].playback \in Apng
      BY <3>1 DEF WidgetTypeOK, WidgetBinding
    <3> QED BY <2>1, <3>1, <3>2 DEF Ticks, Beside
  <2> QED BY <2>1 DEF Ticks, NoTick
<1>3. Bindings'
  <2>1. ASSUME NEW w \in Widget
        PROVE  Binding(w, b[w].playback)'
    <3>1. b[w].playback \in Apng \cup {Nobody} /\ Binding(w, b[w].playback)
      BY DEF WidgetTypeOK, WidgetBinding, Bindings
    <3> QED BY <3>1 DEF Binding, Ends, Beside
  <2> QED BY <2>1 DEF Bindings
<1>4. Images'
  BY HeldFrames DEF Images, Held, Beside
<1>5. Masters'
  BY DEF Masters, Live
<1> QED BY <1>1, <1>2, <1>3, <1>4, <1>5


\* The masters of the slaves stay.
LEMMA MastersStay ==
  ASSUME WidgetInd, UNCHANGED <<s, frame>>, \A v \in Widget : b[v].life = "live" => b'[v].life = "live"
  PROVE  Masters'
BY DEF WidgetInd, WidgetTypeOK, SlaveBinding, Masters, Live

\* What an API call that leaves the widget w its playback has to respect
LEMMA CallKeeps ==
  ASSUME TypeOK, WidgetInd, Idle, NEW w \in Widget, NEW r \in WidgetBinding, Bound(w, r),
         r.playback = b[w].playback, r.life # "none",
         r.life = "orphan" \/ r.closing \/ r.replace \/ r.playback # Nobody => r.timer,
         r.replace => r.playback = Nobody \/ r.closing,
         r.playback # Nobody =>
           /\ r.life = "orphan" \/ r.closing => closing'[r.playback]
           /\ ~closing'[r.playback] =>
                asked'[r.playback].start = r.start /\ asked'[r.playback].paused = r.paused,
         \A c \in Apng \ {r.playback} : closing'[c] = closing[c] /\ asked'[c] = asked[c],
         UNCHANGED <<at, frame, tick, drawing>>, asked' \in [Apng -> Asked],
         s' \in [Slave -> SlaveBinding], Masters'
  PROVE  WidgetInd'
<1> USE DEF WidgetInd, Idle
<1>1. WidgetTypeOK'
  BY BoundTypes DEF WidgetTypeOK
<1>2. Ticks'
  BY DEF Ticks, NoTick
<1>3. b'[w] = r /\ \A v \in Widget : b'[v].playback = b[v].playback
  BY DEF Bound, WidgetTypeOK
<1>4. Bindings'
  <2>1. Binding(w, b[w].playback)'
    <3>1. r.playback # Nobody =>
            /\ at[r.playback] # "none" /\ \A v \in Widget : b[v].playback = r.playback => v = w
      BY DEF Bindings, Binding
    <3> QED BY <1>3, <3>1 DEF Binding, Ends, NoTick
  <2> QED BY <2>1, BindingsStay
<1>5. Images'
  BY <1>3 DEF Images, Held
<1> QED BY <1>1, <1>2, <1>4, <1>5

\* lv_aic_apng_playback_close, in a call after which the widget has to close
LEMMA Closes ==
  ASSUME TypeOK, WidgetInd, Idle, NEW w \in Widget, NEW r \in WidgetBinding, Bound(w, r),
         r.playback = b[w].playback, r.life = b[w].life, b[w].life = "live", r.closing, r.timer,
         ClosePlayback(b[w].playback), UNCHANGED <<s, frame, asked, tick, drawing>>
  PROVE  WidgetInd'
<1>1. Masters' /\ asked' \in [Apng -> Asked] /\ s' \in [Slave -> SlaveBinding]
  BY MastersStay DEF Bound, WidgetInd, WidgetTypeOK
<1>2. /\ r.playback # Nobody => closing'[r.playback]
      /\ \A c \in Apng \ {r.playback} : closing'[c] = closing[c] /\ asked'[c] = asked[c]
      /\ UNCHANGED at
  BY DEF ClosePlayback, TypeOK, Client, WidgetBinding
<1> QED BY <1>1, <1>2, CallKeeps

-----------------------------------------------------------------------------
(* The application's calls *)

LEMMA CreateWidgetKeeps ==
  ASSUME TypeOK, WidgetInd, NEW w \in Widget, CreateWidget(w)
  PROVE  WidgetInd'
<1> DEFINE new == [NoBinding EXCEPT !.life = "live"]
<1>1. new \in WidgetBinding
  BY Zenon DEF WidgetBinding, NoBinding
<1>2. /\ Bound(w, new) /\ b[w].life = "none" /\ tick = NoTick
      /\ UNCHANGED <<at, closing, s, frame, asked, tick, drawing>>
  BY DEF CreateWidget, Idle, vars
<1>3. b[w].playback = Nobody
  BY <1>2 DEF WidgetInd, Bindings, Binding
<1>4. new.playback = Nobody /\ new.life = "live" /\ ~new.closing /\ ~new.replace
  BY DEF NoBinding
<1>5. Masters'
  BY <1>2, MastersStay DEF Bound, WidgetInd, WidgetTypeOK
<1> HIDE DEF new
<1>6. b'[w] = new /\ \A v \in Widget : v # w => b'[v] = b[v]
  BY <1>2 DEF Bound, WidgetInd, WidgetTypeOK
<1>7. WidgetTypeOK'
  BY <1>1, <1>2, BoundTypes DEF WidgetInd, WidgetTypeOK
<1>8. Bindings'
  BY <1>2, <1>3, <1>4, <1>6 DEF WidgetInd, Bindings, Binding, Ends
<1>9. Images' /\ Ticks'
  BY <1>2, <1>3, <1>4, <1>6 DEF WidgetInd, Images, Held, Ticks, NoTick
<1> QED BY <1>5, <1>7, <1>8, <1>9 DEF WidgetInd

LEMMA SetSrcKeeps ==
  ASSUME TypeOK, WidgetInd, NEW w \in Widget, SetSrc(w)
  PROVE  WidgetInd'
<1> DEFINE new == [b[w] EXCEPT !.sourced = TRUE, !.replace = TRUE, !.start = FALSE,
                               !.paused = FALSE, !.closing = TRUE, !.fault = FALSE, !.timer = TRUE]
<1>1. /\ b[w] \in WidgetBinding /\ b[w].life = "live" /\ Bound(w, new) /\ Idle
      /\ ClosePlayback(b[w].playback) /\ UNCHANGED <<at, s, frame, asked, tick, drawing>>
  BY DEF SetSrc, ClosePlayback, WidgetInd, WidgetTypeOK
<1>2. new \in WidgetBinding
  BY <1>1, Zenon DEF WidgetBinding
<1>3. new.playback = b[w].playback /\ new.life = "live" /\ new.closing /\ new.timer
  BY <1>1 DEF WidgetBinding
<1> HIDE DEF new
<1> QED BY <1>1, <1>2, <1>3, Closes

LEMMA CloseWidgetKeeps ==
  ASSUME TypeOK, WidgetInd, NEW w \in Widget, CloseWidget(w)
  PROVE  WidgetInd'
<1> DEFINE new == [b[w] EXCEPT !.replace = FALSE, !.start = FALSE, !.closing = TRUE,
                               !.fault = FALSE, !.timer = TRUE]
<1>1. /\ b[w] \in WidgetBinding /\ b[w].life = "live" /\ Bound(w, new) /\ Idle
      /\ ClosePlayback(b[w].playback) /\ UNCHANGED <<at, s, frame, asked, tick, drawing>>
  BY DEF CloseWidget, ClosePlayback, WidgetInd, WidgetTypeOK
<1>2. new \in WidgetBinding
  BY <1>1, Zenon DEF WidgetBinding
<1>3. new.playback = b[w].playback /\ new.life = "live" /\ new.closing /\ new.timer
  BY <1>1 DEF WidgetBinding
<1> HIDE DEF new
<1> QED BY <1>1, <1>2, <1>3, Closes

LEMMA StartLaterKeeps ==
  ASSUME TypeOK, WidgetInd, NEW w \in Widget, StartLater(w)
  PROVE  WidgetInd'
<1> DEFINE new == [b[w] EXCEPT !.replace = TRUE, !.start = TRUE, !.timer = TRUE]
<1>1. /\ b[w] \in WidgetBinding /\ b[w].life = "live" /\ Bound(w, new) /\ Idle /\ Absent(w)
      /\ UNCHANGED <<at, closing, s, frame, asked, tick, drawing>>
  BY DEF StartLater, WidgetInd, WidgetTypeOK, vars
<1>2. new \in WidgetBinding
  BY <1>1, Zenon DEF WidgetBinding
<1>3. /\ new.playback = b[w].playback /\ new.life = "live" /\ new.closing = b[w].closing
      /\ new.timer
  BY <1>1 DEF WidgetBinding
<1> HIDE DEF new
<1>4. b[w].playback # Nobody => b[w].closing /\ closing[b[w].playback]
  BY <1>1 DEF Absent, WidgetInd, Bindings, Binding, Ends
<1>5. Masters' /\ asked' \in [Apng -> Asked] /\ s' \in [Slave -> SlaveBinding]
  BY <1>1, <1>3, MastersStay DEF Bound, WidgetInd, WidgetTypeOK
<1> QED BY <1>1, <1>2, <1>3, <1>4, <1>5, CallKeeps

LEMMA StartNowKeeps ==
  ASSUME TypeOK, WidgetInd, NEW w \in Widget, StartNow(w)
  PROVE  WidgetInd'
<1> DEFINE new == [b[w] EXCEPT !.start = TRUE]
           c == b[w].playback
<1>1. /\ b[w] \in WidgetBinding /\ b[w].life = "live" /\ Bound(w, new) /\ Idle
      /\ c # Nobody /\ ~b[w].closing /\ asked' = [asked EXCEPT ![c].start = TRUE]
      /\ UNCHANGED <<at, closing, s, frame, tick, drawing>> /\ ~closing[c]
  BY DEF StartNow, Absent, Refuses, WidgetInd, WidgetTypeOK, vars
<1>2. new \in WidgetBinding
  BY <1>1, Zenon DEF WidgetBinding
<1>3. /\ new.playback = c /\ new.life = "live" /\ new.closing = b[w].closing /\ new.start
      /\ new.timer = b[w].timer /\ new.replace = b[w].replace /\ new.paused = b[w].paused
  BY <1>1 DEF WidgetBinding
<1>4. /\ c \in Apng /\ asked \in [Apng -> Asked] /\ b[w].timer /\ ~b[w].replace
      /\ asked[c].paused = b[w].paused
  BY <1>1 DEF WidgetInd, WidgetTypeOK, WidgetBinding, Bindings, Binding, Idle, NoTick
<1>5. asked' \in [Apng -> Asked]
  BY <1>1, <1>4, Zenon DEF Asked
<1>6. asked'[c].start /\ asked'[c].paused = asked[c].paused
  BY <1>1, <1>4 DEF Asked
<1> HIDE DEF new
<1>7. Masters' /\ s' \in [Slave -> SlaveBinding]
  BY <1>1, <1>3, MastersStay DEF Bound, WidgetInd, WidgetTypeOK
<1>8. \A d \in Apng \ {c} : asked'[d] = asked[d]
  BY <1>1, <1>4
<1> QED BY <1>1, <1>2, <1>3, <1>4, <1>5, <1>6, <1>7, <1>8, CallKeeps

LEMMA PauseWidgetKeeps ==
  ASSUME TypeOK, WidgetInd, NEW w \in Widget, NEW on \in BOOLEAN, PauseWidget(w, on)
  PROVE  WidgetInd'
<1> DEFINE new == [b[w] EXCEPT !.paused = on]
           c == b[w].playback
<1>1. /\ b[w] \in WidgetBinding /\ b[w].life = "live" /\ Bound(w, new) /\ Idle
      /\ asked' = IF Absent(w) THEN asked ELSE [asked EXCEPT ![c].paused = on]
      /\ UNCHANGED <<at, closing, s, frame, tick, drawing>>
  BY DEF PauseWidget, WidgetInd, WidgetTypeOK, vars
<1>2. new \in WidgetBinding
  BY <1>1, Zenon DEF WidgetBinding
<1>3. /\ new.playback = c /\ new.life = "live" /\ new.closing = b[w].closing /\ new.paused = on
      /\ new.timer = b[w].timer /\ new.replace = b[w].replace /\ new.start = b[w].start
  BY <1>1 DEF WidgetBinding
<1>4. /\ c \in Apng \cup {Nobody} /\ asked \in [Apng -> Asked]
      /\ b[w].closing \/ b[w].replace \/ c # Nobody => b[w].timer
      /\ b[w].replace => c = Nobody \/ b[w].closing
      /\ c # Nobody /\ b[w].closing => closing[c]
      /\ c # Nobody /\ ~closing[c] => asked[c].start = b[w].start
  BY <1>1 DEF WidgetInd, WidgetTypeOK, WidgetBinding, Bindings, Binding, Ends, Idle, NoTick
<1>5. asked' \in [Apng -> Asked]
  <2>1. CASE Absent(w)
    BY <1>1, <1>4, <2>1
  <2>2. CASE ~Absent(w)
    <3>1. asked' = [asked EXCEPT ![c].paused = on]
      BY <1>1, <2>2
    <3> QED BY <1>4, <3>1, Zenon DEF Asked
  <2> QED BY <2>1, <2>2
<1>6. /\ \A d \in Apng \ {c} : asked'[d] = asked[d]
      /\ c # Nobody /\ ~closing[c] => asked'[c].start = asked[c].start /\ asked'[c].paused = on
  BY <1>1, <1>4 DEF Absent, Asked
<1> HIDE DEF new
<1>7. Masters' /\ s' \in [Slave -> SlaveBinding]
  BY <1>1, <1>3, MastersStay DEF Bound, WidgetInd, WidgetTypeOK
<1> QED BY <1>1, <1>2, <1>3, <1>4, <1>5, <1>6, <1>7, CallKeeps

LEMMA DeleteWidgetKeeps ==
  ASSUME TypeOK, WidgetInd, NEW w \in Widget, DeleteWidget(w)
  PROVE  WidgetInd'
<1> DEFINE new == [b[w] EXCEPT !.life = "orphan", !.timer = TRUE]
           left(x) == [s[x] EXCEPT !.master = Nobody, !.timer = TRUE]
<1>1. /\ b[w] \in WidgetBinding /\ Bound(w, new) /\ Idle
      /\ s' = [x \in Slave |-> IF s[x].master = w THEN left(x) ELSE s[x]]
      /\ ClosePlayback(b[w].playback) /\ UNCHANGED <<at, frame, asked, tick, drawing>>
  BY DEF DeleteWidget, ClosePlayback, WidgetInd, WidgetTypeOK
<1>2. new \in WidgetBinding
  BY <1>1, Zenon DEF WidgetBinding
<1>3. ASSUME NEW x \in Slave
      PROVE  /\ s[x] \in SlaveBinding /\ left(x) \in SlaveBinding
             /\ left(x).master = Nobody /\ left(x).timer /\ left(x).life = s[x].life
  <2>1. s[x] \in SlaveBinding
    BY DEF WidgetInd, WidgetTypeOK
  <2>2. left(x) \in SlaveBinding
    BY <2>1, Zenon DEF SlaveBinding
  <2> QED BY <2>1, <2>2 DEF SlaveBinding
<1>4. /\ new.playback = b[w].playback /\ new.life = "orphan" /\ new.timer
      /\ new.replace = b[w].replace /\ new.closing = b[w].closing
  BY <1>1 DEF WidgetBinding
<1> HIDE DEF new, left
<1>5. s' \in [Slave -> SlaveBinding]
  BY <1>1, <1>3
<1>6. Masters'
  <2>1. \A v \in Widget : v # w => b'[v] = b[v]
    BY <1>1 DEF Bound, WidgetInd, WidgetTypeOK
  <2> SUFFICES ASSUME NEW x \in Slave
               PROVE  /\ s'[x].master # Nobody => Live(s[x].master)' /\ s'[x].timer
                                                  /\ s'[x].life = "live"
                      /\ frame'[x] # Nobody \/ s'[x].life = "orphan" => s'[x].timer
    BY DEF Masters
  <2>2. /\ s[x].master # Nobody => Live(s[x].master) /\ s[x].timer /\ s[x].life = "live"
        /\ frame[x] # Nobody \/ s[x].life = "orphan" => s[x].timer
        /\ s[x].master \in Widget \cup {Nobody}
    BY <1>3 DEF WidgetInd, Masters, SlaveBinding
  <2>3. CASE s[x].master = w
    BY <1>1, <1>3, <2>3
  <2>4. CASE s[x].master # w
    <3>1. s'[x] = s[x]
      BY <1>1, <2>4
    <3>2. ASSUME NEW v \in Widget, v # w, Live(v) PROVE Live(v)'
      BY <2>1, <3>2 DEF Live
    <3>3. s'[x].master = s[x].master
      BY <3>1
    <3>4. s[x].master # Nobody => Live(s[x].master)'
      BY <2>2, <2>4, <3>2, <3>3
    <3> QED BY <1>1, <2>2, <3>1, <3>4
  <2> QED BY <2>3, <2>4
<1>7. asked' \in [Apng -> Asked] /\ b[w].playback \in Apng \cup {Nobody}
  BY <1>1 DEF WidgetInd, WidgetTypeOK, WidgetBinding
<1>8. /\ new.replace => new.playback = Nobody \/ new.closing
      /\ new.playback # Nobody => closing'[new.playback]
      /\ \A c \in Apng \ {new.playback} : closing'[c] = closing[c] /\ asked'[c] = asked[c]
  BY <1>1, <1>4, <1>7 DEF WidgetInd, Bindings, Binding, ClosePlayback, TypeOK, Client
<1> QED BY <1>1, <1>2, <1>4, <1>5, <1>6, <1>7, <1>8, CallKeeps

\* A call of a slave
LEMMA SlaveCall ==
  ASSUME WidgetInd, NEW x \in Slave, NEW r \in SlaveBinding, s' = [s EXCEPT ![x] = r],
         UNCHANGED <<at, closing, b, asked, tick, drawing>>,
         frame' \in [Holder -> Frames \cup {Nobody}], Images',
         \A y \in Slave \ {x} : frame'[y] = frame[y],
         r.master # Nobody => Live(r.master) /\ r.timer /\ r.life = "live",
         frame'[x] # Nobody \/ r.life = "orphan" => r.timer
  PROVE  WidgetInd'
<1> USE DEF WidgetInd
<1>1. WidgetTypeOK'
  BY DEF WidgetTypeOK
<1>2. \A m : Live(m)' \/ m \notin Widget <=> Live(m) \/ m \notin Widget
  BY DEF Live
<1>3. Masters'
  <2> SUFFICES ASSUME NEW y \in Slave
               PROVE  /\ s'[y].master # Nobody => Live(s[y].master)' /\ s'[y].timer
                                                  /\ s'[y].life = "live"
                      /\ frame'[y] # Nobody \/ s'[y].life = "orphan" => s'[y].timer
    BY DEF Masters
  <2>1. CASE y = x
    BY <1>2, <2>1 DEF WidgetTypeOK, SlaveBinding
  <2>2. CASE y # x
    <3>1. s'[y] = s[y] /\ frame'[y] = frame[y] /\ s[y].master \in Widget \cup {Nobody}
      BY <2>2 DEF WidgetTypeOK, SlaveBinding
    <3> QED BY <1>2, <3>1 DEF Masters
  <2> QED BY <2>1, <2>2
<1> QED BY <1>1, <1>3 DEF Ticks, Bindings, Binding, Ends

LEMMA SlaveCallsKeep ==
  ASSUME TypeOK, WidgetInd, NEW x \in Slave,
         \/ CreateSlave(x) \/ DeleteSlave(x)
         \/ \E w \in Widget \cup {Nobody} : SetMaster(x, w)
  PROVE  WidgetInd'
<1>0. s \in [Slave -> SlaveBinding] /\ s[x] \in SlaveBinding
  BY DEF WidgetInd, WidgetTypeOK
<1>1. ASSUME UNCHANGED <<vars, b, frame, asked, tick, drawing>>, NEW r \in SlaveBinding,
             s' = [s EXCEPT ![x] = r],
             r.master # Nobody => Live(r.master) /\ r.timer /\ r.life = "live",
             (r.timer = s[x].timer /\ r.life # "orphan") \/ r.timer
      PROVE  WidgetInd'
  <2>1. Images' /\ frame' \in [Holder -> Frames \cup {Nobody}]
    BY <1>1 DEF WidgetInd, WidgetTypeOK, Images, Held, vars
  <2>2. frame[x] # Nobody => s[x].timer
    BY DEF WidgetInd, Masters
  <2> QED BY <1>1, <2>1, <2>2, SlaveCall DEF vars
<1>2. CASE CreateSlave(x)
  <2> DEFINE r == [s[x] EXCEPT !.life = "live"]
  <2>1. r \in SlaveBinding
    BY <1>0, Zenon DEF SlaveBinding
  <2>2. s' = [s EXCEPT ![x] = r] /\ UNCHANGED <<vars, b, frame, asked, tick, drawing>>
    BY <1>2 DEF CreateSlave
  <2>3. r.master = s[x].master /\ r.timer = s[x].timer /\ r.life = "live"
    BY <1>0 DEF SlaveBinding
  <2> HIDE DEF r
  <2>4. s[x].master # Nobody => Live(s[x].master) /\ s[x].timer
    BY DEF WidgetInd, Masters
  <2> QED BY <1>1, <2>1, <2>2, <2>3, <2>4
<1>3. CASE DeleteSlave(x)
  <2> DEFINE r == [life |-> "orphan", master |-> Nobody, timer |-> TRUE]
  <2>1. r \in SlaveBinding
    BY Zenon DEF SlaveBinding
  <2>2. s' = [s EXCEPT ![x] = r] /\ UNCHANGED <<vars, b, frame, asked, tick, drawing>>
    BY <1>3 DEF DeleteSlave
  <2> QED BY <1>1, <2>1, <2>2
<1>4. ASSUME NEW w \in Widget \cup {Nobody}, SetMaster(x, w) PROVE WidgetInd'
  <2> DEFINE r == [s[x] EXCEPT !.master = w, !.timer = TRUE]
  <2>1. r \in SlaveBinding
    BY <1>0, Zenon DEF SlaveBinding
  <2>2. /\ s' = [s EXCEPT ![x] = r] /\ UNCHANGED <<vars, b, frame, asked, tick, drawing>>
        /\ s[x].life = "live" /\ (w # Nobody => Live(w))
    BY <1>0, <1>4 DEF SetMaster, SlaveBinding
  <2>3. r.master = w /\ r.timer /\ r.life = s[x].life
    BY <1>0 DEF SlaveBinding
  <2> HIDE DEF r
  <2> QED BY <1>1, <2>1, <2>2, <2>3
<1> QED BY <1>2, <1>3, <1>4

\* A slave shows what its master shows, or nothing.
LEMMA SlaveTickKeeps ==
  ASSUME TypeOK, WidgetInd, NEW x \in Slave, SlaveTick(x)
  PROVE  WidgetInd'
<1>0. s \in [Slave -> SlaveBinding] /\ s[x] \in SlaveBinding /\ x \in Holder
  BY DEF WidgetInd, WidgetTypeOK, Holder
<1> DEFINE shown == IF s[x].master = Nobody THEN Nobody ELSE frame[s[x].master]
           r == IF s[x].life = "orphan" THEN NoSlave
                ELSE [s[x] EXCEPT !.timer = (s[x].master # Nobody)]
<1>s. s' = [s EXCEPT ![x] = r]
  BY DEF SlaveTick
<1>1. /\ frame' = [frame EXCEPT ![x] = shown]
      /\ UNCHANGED <<at, closing, b, asked, tick, drawing>> /\ drawing = {} /\ s[x].timer
  BY <1>0 DEF SlaveTick, MayTick, vars
<1>2. r \in SlaveBinding
  <2>1. NoSlave \in SlaveBinding
    BY Zenon DEF SlaveBinding, NoSlave
  <2>2. [s[x] EXCEPT !.timer = (s[x].master # Nobody)] \in SlaveBinding
    BY <1>0, Zenon DEF SlaveBinding
  <2> QED BY <2>1, <2>2
<1>3. /\ r.master # Nobody => r.master = s[x].master /\ r.timer /\ r.life = "live"
      /\ r.life # "orphan"
      /\ shown # Nobody => r.timer
  <2>1. s[x].master # Nobody => s[x].timer /\ s[x].life = "live"
    BY DEF WidgetInd, Masters
  <2>2. CASE s[x].life = "orphan"
    BY <2>1, <2>2 DEF NoSlave
  <2>3. CASE s[x].life # "orphan"
    <3>1. r = [s[x] EXCEPT !.timer = (s[x].master # Nobody)]
      BY <2>3
    <3>2. /\ r.master = s[x].master /\ r.life = s[x].life
          /\ r.timer <=> s[x].master # Nobody
      BY <1>0, <3>1 DEF SlaveBinding
    <3> QED BY <2>1, <2>3, <3>2
  <2> QED BY <2>2, <2>3
<1> HIDE DEF r
<1>4. /\ shown \in Frames \cup {Nobody} /\ (shown # Nobody => shown \in Held)
      /\ s[x].master # Nobody => Live(s[x].master)
  BY <1>0 DEF WidgetInd, WidgetTypeOK, SlaveBinding, Holder, Held, Masters
<1> HIDE DEF shown
<1>5. /\ frame' \in [Holder -> Frames \cup {Nobody}] /\ frame'[x] = shown
      /\ \A y \in Slave \ {x} : frame'[y] = frame[y]
  BY <1>0, <1>1, <1>4 DEF WidgetInd, WidgetTypeOK, Holder
<1>6. Held' \subseteq Held
  BY <1>0, <1>1, <1>4, <1>5 DEF WidgetInd, WidgetTypeOK, Held
<1>7. Images'
  BY <1>1, <1>6 DEF WidgetInd, Images
<1> QED BY <1>0, <1>s, <1>1, <1>2, <1>3, <1>4, <1>5, <1>7, SlaveCall

-----------------------------------------------------------------------------
(* The tick *)

\* The playbacks of the others stay theirs, and as they are.
LEMMA OthersStay ==
  ASSUME WidgetTypeOK, Bindings, NEW w \in Widget, NEW r \in WidgetBinding, Bound(w, r),
         tick.of \in {w, Nobody}, tick'.of \in {w, Nobody},
         r.playback \in {Nobody, b[w].playback} \/ at[r.playback] = "none",
         \A c \in Apng \ {b[w].playback, r.playback} :
           at'[c] = at[c] /\ closing'[c] = closing[c] /\ asked'[c] = asked[c],
         Binding(w, r.playback)'
  PROVE  Bindings'
<1>1. b'[w] = r /\ \A v \in Widget : v # w => b'[v] = b[v]
  BY DEF Bound, WidgetTypeOK
<1>2. ASSUME NEW v \in Widget, v # w
      PROVE  Binding(v, b[v].playback)'
  <2> DEFINE c == b[v].playback
  <2>1. b'[v] = b[v] /\ c \in Apng \cup {Nobody} /\ Binding(v, c) /\ v # Nobody
    BY <1>1, <1>2, WidgetConstants DEF Bindings, WidgetTypeOK, WidgetBinding
  <2>2. CASE c = Nobody
    BY <2>1, <2>2 DEF Binding, Ends
  <2>3. CASE c # Nobody
    <3>1. at[c] # "none" /\ \A u \in Widget : b[u].playback = c => u = v
      BY <2>1, <2>3 DEF Binding
    <3>2. c # b[w].playback /\ c # r.playback
      BY <1>2, <2>3, <3>1
    <3>3. at'[c] = at[c] /\ closing'[c] = closing[c] /\ asked'[c] = asked[c]
      BY <2>1, <2>3, <3>2
    <3>4. \A u \in Widget : b'[u].playback = c => u = v
      BY <1>1, <3>1, <3>2
    <3>5. tick.of # v /\ tick'.of # v
      BY <1>2, <2>1
    <3> QED BY <2>1, <2>3, <3>3, <3>4, <3>5 DEF Binding, Ends
  <2> QED BY <2>2, <2>3
<1>3. Binding(w, b[w].playback)'
  BY <1>1
<1> QED BY <1>1, <1>2, <1>3 DEF Bindings

\* What a step of w's tick has to respect
LEMMA TickKeeps ==
  ASSUME WidgetInd, NEW w \in Widget, NEW r \in WidgetBinding, Bound(w, r), drawing = {},
         UNCHANGED <<s, drawing>>, asked' \in [Apng -> Asked],
         tick.of \in {w, Nobody}, tick'.of \in {w, Nobody}, Ticks',
         r.life = b[w].life \/ b[w].life # "live",
         frame' \in [Holder -> Frames \cup {Nobody}],
         \A x \in Slave : frame'[x] # Nobody => s[x].timer,
         \A f \in Held' : f \in Held \/ f[1] = b[w].playback,
         \A f \in Held' : at'[f[1]] \notin {"none", "spawn"},
         r.playback = b[w].playback \/ \A f \in Held' : f[1] # b[w].playback,
         r.playback \in {Nobody, b[w].playback} \/ at[r.playback] = "none",
         \A c \in Apng \ {b[w].playback, r.playback} :
           at'[c] = at[c] /\ closing'[c] = closing[c] /\ asked'[c] = asked[c],
         Binding(w, r.playback)'
  PROVE  WidgetInd'
<1> USE DEF WidgetInd
<1>1. b'[w] = r /\ \A v \in Widget : v # w => b'[v] = b[v]
  BY DEF Bound, WidgetTypeOK
<1>2. WidgetTypeOK'
  BY BoundTypes DEF WidgetTypeOK
<1>3. Bindings'
  BY OthersStay
<1>4. Images'
  <2>1. ASSUME NEW f \in Held'
        PROVE  \E v \in Widget : b'[v].playback = f[1]
    <3>1. CASE f[1] = b[w].playback
      BY <1>1, <3>1
    <3>2. CASE f \in Held /\ f[1] # b[w].playback
      BY <1>1, <3>2 DEF Images
    <3> QED BY <3>1, <3>2
  <2> QED BY <2>1 DEF Images
<1>5. Masters'
  <2>1. \A v \in Widget : Live(v) => Live(v)'
    BY <1>1 DEF Live
  <2>2. \A x \in Slave : s[x].master \in Widget \cup {Nobody}
    BY DEF WidgetTypeOK, SlaveBinding
  <2>3. ASSUME NEW x \in Slave, s[x].master # Nobody
        PROVE  Live(s[x].master)'
    BY <2>1, <2>2, <2>3 DEF Masters
  <2> QED BY <2>3 DEF Masters
<1> QED BY <1>2, <1>3, <1>4, <1>5

\* What is known of the widget whose tick begins or goes on
LEMMA Ticking ==
  ASSUME WidgetInd, NEW w \in Widget
  PROVE  /\ b[w] \in WidgetBinding /\ b[w].playback \in Apng \cup {Nobody}
         /\ Bound(w, b[w]) <=> b' = b
         /\ Binding(w, b[w].playback) /\ w # Nobody /\ Nobody \notin Apng
         /\ \A f \in Held : at[f[1]] \notin {"none", "spawn"} /\ f[1] \in Apng
         /\ \A x \in Slave : frame[x] # Nobody \/ s[x].master # Nobody => s[x].timer
         /\ frame \in [Holder -> Frames \cup {Nobody}] /\ asked \in [Apng -> Asked]
BY HeldFrames, WidgetConstants, RuntimeConstants
   DEF WidgetInd, WidgetTypeOK, WidgetBinding, Bound, Bindings, Images, Masters, Frames

\* retire, in a step after which the widget's playback is the same
LEMMA Retires ==
  ASSUME WidgetInd, NEW w \in Widget, Shows(w, Nobody)
  PROVE  /\ frame' \in [Holder -> Frames \cup {Nobody}] /\ Held' \subseteq Held
         /\ \A x \in Slave : frame'[x] # Nobody => s[x].timer
BY ShowsNothing DEF WidgetInd, Masters, Holder

LEMMA TickWaitsKeeps ==
  ASSUME TypeOK, WidgetInd, NEW w \in Widget, TickWaits(w)
  PROVE  WidgetInd'
<1>1. /\ UNCHANGED <<at, closing, b, s, asked, tick, drawing>> /\ Shows(w, Nobody) /\ tick = NoTick
      /\ drawing = {} /\ tick.of = Nobody
  BY DEF TickWaits, Idle, vars, NoTick
<1>2. Ticks' /\ Binding(w, b[w].playback)'
  BY <1>1, Ticking DEF WidgetInd, Ticks, Binding, Ends
<1> QED BY <1>1, <1>2, Ticking, Retires, TickKeeps

LEMMA TickBeginsKeeps ==
  ASSUME TypeOK, WidgetInd, NEW w \in Widget, TickBegins(w)
  PROVE  WidgetInd'
<1> DEFINE step == IF b[w].replace /\ b[w].playback = Nobody THEN "prepare" ELSE "poll"
<1>1. /\ UNCHANGED <<at, closing, b, s, frame, asked, drawing>> /\ drawing = {} /\ ~Ends(w)
      /\ tick = NoTick /\ tick.of = Nobody /\ b[w].timer /\ tick' = [of |-> w, step |-> step]
  BY DEF TickBegins, TickGoes, Idle, vars, NoTick
<1>2. b[w].life = "live" /\ ~b[w].closing /\ (b[w].replace => b[w].playback = Nobody)
  BY <1>1, Ticking DEF WidgetBinding, Binding, Ends
<1>3. tick'.of = w /\ tick'.step \in {"prepare", "poll"}
      /\ (tick'.step = "prepare" <=> b[w].replace)
  BY <1>1, <1>2
<1>4. Ticks'
  BY <1>1, <1>2, <1>3 DEF Ticks, Steps, NoTick
<1>5. Held' = Held
  BY <1>1 DEF Held
<1>6. Binding(w, b[w].playback)'
  BY <1>1, <1>3, Ticking DEF Binding, Ends, NoTick
<1> QED BY <1>1, <1>3, <1>4, <1>5, <1>6, Ticking, TickKeeps

LEMMA TickDestroysKeeps ==
  ASSUME TypeOK, WidgetInd, NEW w \in Widget, TickDestroys(w)
  PROVE  WidgetInd'
<1> DEFINE new == Renewed(b[w])
           c == b[w].playback
<1>1. /\ Bound(w, new) /\ Shows(w, Nobody) /\ Gone(c) /\ drawing = {} /\ UNCHANGED <<s, drawing>>
      /\ tick = NoTick /\ tick.of = Nobody /\ b[w].timer
      /\ tick' = IF b[w].life = "orphan" \/ ~b[w].replace THEN NoTick
                 ELSE [of |-> w, step |-> "prepare"]
  BY DEF TickDestroys, TickGoes, Idle, NoTick
<1>2. /\ \A d \in Apng \ {c} : at'[d] = at[d] /\ closing'[d] = closing[d] /\ asked'[d] = asked[d]
      /\ asked' \in [Apng -> Asked]
  <2>1. CASE c = Nobody
    BY <2>1, Ticking DEF TickDestroys, vars
  <2>2. CASE c # Nobody
    <3>1. /\ at' = [at EXCEPT ![c] = "none"] /\ closing' = [closing EXCEPT ![c] = FALSE]
          /\ asked' = [asked EXCEPT ![c] = NotAsked] /\ c \in Apng
      BY <2>2, Ticking DEF TickDestroys, Destroy, Goto
    <3>2. NotAsked \in Asked
      BY Zenon DEF NotAsked, Asked
    <3> QED BY <3>1, <3>2, Ticking DEF TypeOK, Client
  <2> QED BY <2>1, <2>2
<1>3. b[w].life \in {"live", "orphan"} /\ b[w] \in WidgetBinding
  BY <1>1, Ticking DEF WidgetBinding, Binding
<1>4. /\ new \in WidgetBinding /\ new.playback = Nobody /\ ~new.closing
      /\ new.life = IF b[w].life = "orphan" THEN "none" ELSE "live"
      /\ new.replace <=> b[w].life = "live" /\ b[w].replace
      /\ new.timer <=> new.replace
  <2>1. CASE b[w].life = "orphan"
    <3>1. new = NoBinding
      BY <2>1 DEF Renewed
    <3>2. NoBinding \in WidgetBinding
      BY Zenon DEF NoBinding, WidgetBinding
    <3> QED BY <2>1, <3>1, <3>2 DEF NoBinding
  <2>2. CASE b[w].life = "live"
    <3>1. new = [b[w] EXCEPT !.playback = Nobody, !.closing = FALSE, !.fault = FALSE,
                             !.timer = b[w].replace]
      BY <2>2 DEF Renewed
    <3>2. b[w].replace \in BOOLEAN
      BY <1>3 DEF WidgetBinding
    <3>3. new \in WidgetBinding
      BY <1>3, <3>1, <3>2, Zenon DEF WidgetBinding
    <3> QED BY <1>3, <2>2, <3>1, <3>3 DEF WidgetBinding
  <2> QED BY <1>3, <2>1, <2>2
<1> HIDE DEF new
<1> PICK r \in WidgetBinding : r = new
  BY <1>4
<1>5. b'[w] = r /\ Bound(w, r)
  BY <1>1 DEF Bound, WidgetInd, WidgetTypeOK
<1>6. Held' \subseteq Held /\ \A f \in Held' : f[1] # c
  <2>1. Held' \subseteq Held
    BY <1>1, Retires
  <2>2. ASSUME NEW f \in Held', f[1] = c
        PROVE  FALSE
    <3>1. f[1] \in Apng /\ f[2] \in Snapshot /\ f = <<f[1], f[2]>>
      BY <2>1, HeldFrames DEF WidgetInd
    <3>2. c # Nobody
      BY <2>2, <3>1, Ticking
    <3> QED BY <1>1, <2>2, <3>1, <3>2 DEF Gone
  <2> QED BY <2>1, <2>2
<1>7. \A f \in Held' : at'[f[1]] \notin {"none", "spawn"}
  BY <1>2, <1>6, Ticking
<1>8. Ticks' /\ tick'.of \in {w, Nobody}
  <2>1. CASE tick' = NoTick
    BY <1>1, <2>1 DEF Ticks, NoTick
  <2>2. CASE tick' = [of |-> w, step |-> "prepare"] /\ b[w].life = "live" /\ b[w].replace
    BY <1>1, <1>4, <1>5, <2>2 DEF Ticks, Steps
  <2> QED BY <1>1, <1>3, <2>1, <2>2
<1>9. Binding(w, r.playback)'
  BY <1>1, <1>4, <1>5 DEF Binding, Ends
<1> QED BY <1>1, <1>2, <1>3, <1>4, <1>5, <1>6, <1>7, <1>8, <1>9, Retires, TickKeeps

\* What a step within w's tick starts from
LEMMA InTick ==
  ASSUME WidgetInd, NEW w \in Widget, NEW step \in Steps, Step(w, step)
  PROVE  /\ tick.of = w /\ tick.step = step /\ tick # NoTick /\ drawing = {}
         /\ b[w].life = "live" /\ b[w].timer /\ ~b[w].closing /\ ~Ends(w)
         /\ step = "prepare" => b[w].replace /\ b[w].playback = Nobody
         /\ step # "prepare" => ~b[w].replace
         /\ step \in {"spawn", "ask"} => b[w].playback # Nobody
         /\ step = "spawn" => at[b[w].playback] = "spawn"
<1>1. tick.of = w /\ tick.step = step /\ tick # NoTick
  BY DEF Step, NoTick, Steps
<1> QED BY <1>1 DEF WidgetInd, Ticks, Ends

LEMMA TickPreparesKeeps ==
  ASSUME TypeOK, WidgetInd, NEW w \in Widget, NEW c \in Apng, TickPrepares(w, c)
  PROVE  WidgetInd'
<1> DEFINE new == [b[w] EXCEPT !.replace = FALSE, !.playback = c]
<1>1. /\ Step(w, "prepare") /\ Bound(w, new) /\ at[c] = "none" /\ at' = [at EXCEPT ![c] = "spawn"]
      /\ tick' = [of |-> w, step |-> "spawn"] /\ UNCHANGED <<closing, s, frame, asked, drawing>>
  BY DEF TickPrepares, Prepare, Goto, TickGoes
<1>2. new \in WidgetBinding
  BY Ticking, Zenon DEF WidgetBinding
<1>3. new.playback = c /\ ~new.replace /\ new.life = b[w].life /\ new.closing = b[w].closing
      /\ new.timer = b[w].timer
  BY Ticking DEF WidgetBinding
<1> HIDE DEF new
<1> PICK r \in WidgetBinding : r = new
  BY <1>2
<1>4. b'[w] = r /\ Bound(w, r) /\ \A v \in Widget : v # w => b'[v] = b[v]
  BY <1>1 DEF Bound, WidgetInd, WidgetTypeOK
<1>5. /\ tick.of = w /\ drawing = {} /\ b[w].life = "live" /\ b[w].timer /\ ~b[w].closing
      /\ b[w].playback = Nobody /\ c # Nobody
  BY <1>1, InTick, Ticking DEF Steps
<1>6. at'[c] = "spawn" /\ \A d \in Apng : d # c => at'[d] = at[d]
  BY <1>1 DEF TypeOK, Client
<1>7. Held' = Held /\ \A f \in Held : at'[f[1]] \notin {"none", "spawn"} /\ f[1] # Nobody
  BY <1>1, <1>6, Ticking DEF Held
<1>8. Ticks' /\ tick'.of = w
  BY <1>1, <1>3, <1>4, <1>5, <1>6 DEF Ticks, Steps, NoTick
<1>9. Binding(w, r.playback)'
  <2>1. \A v \in Widget : b[v].playback # c
    BY <1>1, <1>5 DEF WidgetInd, Bindings, Binding
  <2> QED BY <1>1, <1>3, <1>4, <1>5, <1>6, <2>1 DEF Binding, Ends
<1> QED BY <1>1, <1>3, <1>4, <1>5, <1>6, <1>7, <1>8, <1>9, Ticking, TickKeeps

LEMMA TickSpawnsKeeps ==
  ASSUME TypeOK, WidgetInd, NEW w \in Widget, TickSpawns(w)
  PROVE  WidgetInd'
<1> DEFINE c == b[w].playback
<1>1. /\ Step(w, "spawn") /\ at' = [at EXCEPT ![c] = "open"]
      /\ tick' = [of |-> w, step |-> "ask"] /\ UNCHANGED <<closing, b, s, frame, asked, drawing>>
  BY DEF TickSpawns, SpawnWorker, Goto, TickGoes
<1>2. /\ tick.of = w /\ drawing = {} /\ b[w].life = "live" /\ b[w].timer /\ ~b[w].closing
      /\ ~b[w].replace /\ c # Nobody
  BY <1>1, InTick DEF Steps
<1>3. at'[c] = "open" /\ \A d \in Apng : d # c => at'[d] = at[d]
  BY <1>1, <1>2, Ticking DEF TypeOK, Client
<1>4. Held' = Held /\ \A f \in Held : at'[f[1]] \notin {"none", "spawn"}
  BY <1>1, <1>3, Ticking DEF Held
<1>5. Ticks' /\ tick'.of = w
  BY <1>1, <1>2 DEF Ticks, Steps, NoTick
<1>6. Binding(w, b[w].playback)'
  BY <1>1, <1>2, <1>3, Ticking DEF Binding, Ends
<1> QED BY <1>1, <1>2, <1>3, <1>4, <1>5, <1>6, Ticking, TickKeeps

LEMMA UnpreparedType == ASSUME NEW x \in WidgetBinding PROVE Unprepared(x) \in WidgetBinding
BY DEF WidgetBinding, Unprepared

LEMMA TickUnpreparedKeeps ==
  ASSUME TypeOK, WidgetInd, NEW w \in Widget, TickUnprepared(w)
  PROVE  WidgetInd'
<1> DEFINE new == Unprepared(b[w])
           c == b[w].playback
<1>1. /\ Bound(w, new) /\ tick' = NoTick /\ UNCHANGED <<closing, s, frame, asked, drawing>>
      /\ \/ Step(w, "prepare") /\ UNCHANGED at
         \/ Step(w, "spawn") /\ at' = [at EXCEPT ![c] = "none"]
  BY DEF TickUnprepared, SpawnFails, Goto, vars
<1>2. new \in WidgetBinding
  <2>1. b[w] \in WidgetBinding
    BY Ticking
  <2> QED BY <2>1, UnpreparedType
<1>3. new.playback = Nobody /\ ~new.replace /\ new.life = b[w].life /\ new.closing = b[w].closing
  BY Ticking DEF WidgetBinding, Unprepared
<1> HIDE DEF new
<1> PICK r \in WidgetBinding : r = new
  BY <1>2
<1>4. b'[w] = r /\ Bound(w, r)
  BY <1>1 DEF Bound, WidgetInd, WidgetTypeOK
<1>5. /\ tick.of = w /\ drawing = {} /\ b[w].life = "live" /\ ~b[w].closing
      /\ \/ at' = at /\ c = Nobody
         \/ at' = [at EXCEPT ![c] = "none"] /\ at[c] = "spawn"
  <2>1. CASE Step(w, "prepare") /\ UNCHANGED at
    BY <2>1, InTick DEF Steps
  <2>2. CASE Step(w, "spawn") /\ at' = [at EXCEPT ![c] = "none"]
    BY <2>2, InTick DEF Steps
  <2> QED BY <1>1, <2>1, <2>2
<1>6. /\ \A d \in Apng : d # c => at'[d] = at[d]
      /\ \A f \in Held : f[1] # c
  BY <1>5, Ticking DEF TypeOK, Client
<1>7. Held' = Held /\ \A f \in Held : at'[f[1]] \notin {"none", "spawn"}
  BY <1>1, <1>6, Ticking DEF Held
<1>8. Ticks' /\ tick'.of = Nobody
  BY <1>1 DEF Ticks, NoTick
<1>9. Binding(w, r.playback)'
  BY <1>3, <1>4, <1>5 DEF Binding, Ends
<1> QED BY <1>1, <1>3, <1>4, <1>5, <1>6, <1>7, <1>8, <1>9, Ticking, TickKeeps

LEMMA TickAsksKeeps ==
  ASSUME TypeOK, WidgetInd, NEW w \in Widget, TickAsks(w)
  PROVE  WidgetInd'
<1> DEFINE c == b[w].playback
           told == [start |-> b[w].start, paused |-> b[w].paused]
<1>1. /\ Step(w, "ask") /\ UNCHANGED <<at, s, frame, drawing>>
      /\ \/ closing[c] /\ ClosePlayback(c) /\ UNCHANGED asked /\ tick' = NoTick
            /\ Bound(w, [b[w] EXCEPT !.fault = TRUE])
         \/ asked' = [asked EXCEPT ![c] = told] /\ UNCHANGED <<closing, b>>
            /\ tick' = [of |-> w, step |-> "poll"]
  BY DEF TickAsks, Refuses, ClosePlayback, TickGoes, vars
<1>2. /\ tick.of = w /\ drawing = {} /\ b[w].life = "live" /\ b[w].timer /\ ~b[w].closing
      /\ ~b[w].replace /\ c \in Apng /\ b[w] \in WidgetBinding
  BY <1>1, InTick, Ticking DEF Steps
<1>3. Held' = Held
  BY <1>1 DEF Held
<1>4. CASE closing[c] /\ ClosePlayback(c) /\ UNCHANGED asked /\ tick' = NoTick
           /\ Bound(w, [b[w] EXCEPT !.fault = TRUE])
  <2> DEFINE new == [b[w] EXCEPT !.fault = TRUE]
  <2>1. new \in WidgetBinding
    BY <1>2, Zenon DEF WidgetBinding
  <2>2. new.playback = c /\ ~new.replace /\ new.life = b[w].life /\ ~new.closing /\ new.timer
    BY <1>2 DEF WidgetBinding
  <2> HIDE DEF new
  <2> PICK r \in WidgetBinding : r = new
    BY <2>1
  <2>3. b'[w] = r /\ Bound(w, r) /\ \A v \in Widget : v # w => b'[v] = b[v]
    BY <1>4 DEF new, Bound, WidgetInd, WidgetTypeOK
  <2>4. closing'[c] /\ \A d \in Apng : d # c => closing'[d] = closing[d]
    BY <1>2, <1>4 DEF ClosePlayback, TypeOK, Client
  <2>5. Ticks' /\ tick'.of = Nobody
    BY <1>4 DEF Ticks, NoTick
  <2>6. Binding(w, r.playback)'
    BY <1>1, <1>2, <2>2, <2>3, <2>4, Ticking DEF Binding, Ends
  <2> QED BY <1>1, <1>2, <1>3, <1>4, <2>2, <2>3, <2>4, <2>5, <2>6, Ticking, TickKeeps
<1>5. CASE asked' = [asked EXCEPT ![c] = told] /\ UNCHANGED <<closing, b>>
           /\ tick' = [of |-> w, step |-> "poll"]
  <2>1. told \in Asked
    BY <1>2, Zenon DEF Asked, WidgetBinding
  <2>2. asked' \in [Apng -> Asked] /\ asked'[c] = told /\ \A d \in Apng : d # c => asked'[d] = asked[d]
    BY <1>2, <1>5, <2>1, Ticking
  <2>3. Ticks' /\ tick'.of = w
    BY <1>1, <1>2, <1>5 DEF Ticks, Steps, NoTick
  <2>4. Binding(w, b[w].playback)'
    BY <1>1, <1>2, <1>5, <2>2, Ticking DEF Binding, Ends
  <2> QED BY <1>1, <1>2, <1>3, <1>5, <2>2, <2>3, <2>4, Ticking, TickKeeps
<1> QED BY <1>1, <1>4, <1>5

LEMMA TickPollsKeeps ==
  ASSUME TypeOK, WidgetInd, NEW w \in Widget,
         TickSeesFault(w) \/ (\E i \in Snapshot : TickTakes(w, i)) \/ TickTakesNothing(w)
  PROVE  WidgetInd'
<1> DEFINE c == b[w].playback
<1>1. Step(w, "poll") /\ UNCHANGED <<at, closing, s, asked, drawing>> /\ tick' = NoTick
  BY DEF TickSeesFault, TickTakes, TickTakesNothing, vars
<1>2. /\ tick.of = w /\ drawing = {} /\ b[w].life = "live" /\ b[w].timer /\ ~b[w].closing
      /\ ~b[w].replace /\ tick.step = "poll" /\ b[w] \in WidgetBinding
  BY <1>1, InTick, Ticking DEF Steps
<1>3. Ticks' /\ tick'.of = Nobody
  BY <1>1 DEF Ticks, NoTick
<1>4. ASSUME UNCHANGED b PROVE Binding(w, b[w].playback)'
  BY <1>1, <1>2, <1>4, Ticking DEF Binding, Ends
<1>5. CASE TickSeesFault(w)
  <2> DEFINE new == [b[w] EXCEPT !.fault = TRUE]
  <2>1. new \in WidgetBinding
    BY <1>2, Zenon DEF WidgetBinding
  <2>2. /\ new.playback = c /\ new.replace = b[w].replace /\ new.life = b[w].life
        /\ new.closing = b[w].closing /\ new.timer = b[w].timer /\ new.start = b[w].start
        /\ new.paused = b[w].paused
    BY <1>2 DEF WidgetBinding
  <2>3. Bound(w, new) /\ Shows(w, Nobody)
    BY <1>5 DEF TickSeesFault
  <2> HIDE DEF new
  <2> PICK r \in WidgetBinding : r = new
    BY <2>1
  <2>4. b'[w] = r /\ Bound(w, r) /\ \A v \in Widget : v # w => b'[v] = b[v]
    BY <2>3 DEF Bound, WidgetInd, WidgetTypeOK
  <2>5. Binding(w, r.playback)'
    <3>1. /\ c # Nobody => at[c] # "none" /\ \A v \in Widget : b[v].playback = c => v = w
          /\ c # Nobody /\ ~closing[c] => asked[c].start = b[w].start /\ asked[c].paused = b[w].paused
      BY <1>2, Ticking DEF Binding
    <3>2. r.playback = c /\ \A v \in Widget : b'[v].playback = b[v].playback
      BY <2>2, <2>4
    <3>3. ~Ends(w)' /\ b'[w].timer /\ ~b'[w].replace /\ b'[w].life = "live"
      BY <1>2, <2>2, <2>4 DEF Ends
    <3>4. at' = at /\ closing' = closing /\ asked' = asked
      BY <1>1
    <3>5. b'[w].start = b[w].start /\ b'[w].paused = b[w].paused
      BY <2>2, <2>4
    <3>6. /\ c # Nobody => at'[c] # "none" /\ \A v \in Widget : b'[v].playback = c => v = w
          /\ c # Nobody /\ ~closing'[c] =>
               asked'[c].start = b'[w].start /\ asked'[c].paused = b'[w].paused
      BY <3>1, <3>2, <3>4, <3>5
    <3>7. r.playback = c
      BY <3>2
    <3> QED BY <3>3, <3>6, <3>7 DEF Binding
  <2> QED BY <1>1, <1>2, <1>3, <2>2, <2>3, <2>4, <2>5, Ticking, Retires, TickKeeps
<1>6. ASSUME NEW i \in Snapshot, TickTakes(w, i) PROVE WidgetInd'
  <2>1. /\ Shows(w, <<c, i>>) /\ c \in Apng /\ at[c] \in {"top", "tick", "ticking"} /\ UNCHANGED b
    BY <1>6, Ticking DEF TickTakes, Polls
  <2>2. /\ frame' \in [Holder -> Frames \cup {Nobody}]
        /\ \A h \in Holder :
             frame'[h] = IF h = w \/ h \in Slaves(w) THEN <<c, i>> ELSE frame[h]
    BY <2>1, Ticking DEF Shows, Frames
  <2>3. \A f \in Held' : f \in Held \/ f[1] = c
    BY <2>2 DEF Held
  <2>4. \A x \in Slave : frame'[x] # Nobody => s[x].timer
    <3> SUFFICES ASSUME NEW x \in Slave, frame'[x] # Nobody PROVE s[x].timer
      OBVIOUS
    <3>1. x \in Holder /\ x # w
      BY WidgetConstants DEF Holder
    <3>2. x \in Slaves(w) => s[x].timer
      BY Ticking DEF Slaves
    <3> QED BY <2>2, <3>1, <3>2, Ticking
  <2>5. \A f \in Held' : at'[f[1]] \notin {"none", "spawn"}
    BY <1>1, <2>1, <2>3, Ticking
  <2> QED BY <1>1, <1>2, <1>3, <1>4, <2>1, <2>2, <2>3, <2>4, <2>5, Ticking, TickKeeps
<1>7. CASE TickTakesNothing(w)
  <2>1. UNCHANGED <<b, frame>>
    BY <1>7 DEF TickTakesNothing
  <2>2. Held' = Held
    BY <2>1 DEF Held
  <2> QED BY <1>1, <1>2, <1>3, <1>4, <2>1, <2>2, Ticking, TickKeeps
<1> QED BY <1>5, <1>6, <1>7

-----------------------------------------------------------------------------
(* LVGL's refresh, the workers, and the application's other instances *)

LEMMA RenderKeeps ==
  ASSUME TypeOK, WidgetInd, Render \/ RenderEnds
  PROVE  WidgetInd'
<1> USE DEF WidgetInd
<1>1. /\ UNCHANGED <<at, closing, b, s, frame, asked, tick>> /\ drawing' \subseteq Held
      /\ tick = NoTick \/ drawing' = {}
  BY DEF Render, RenderEnds, Idle, vars, Held
<1>2. WidgetTypeOK'
  <2>1. Held \subseteq Frames
    BY DEF Held, WidgetTypeOK
  <2> QED BY <1>1, <2>1 DEF WidgetTypeOK
<1>3. Ticks' /\ Bindings'
  BY <1>1 DEF Ticks, Bindings, Binding, Ends
<1>4. Images' /\ Masters'
  BY <1>1 DEF Images, Held, Masters, Live
<1> QED BY <1>2, <1>3, <1>4

LEMMA DirectKeeps ==
  ASSUME TypeOK, WidgetInd, Direct
  PROVE  WidgetInd'
<1>1. PICK c \in Unbound :
        Prepare(c) \/ SpawnWorker(c) \/ SpawnFails(c) \/ Close(c) \/ Destroy(c)
  BY DEF Direct
<1>2. \A d \in Apng : d # c => at'[d] = at[d] /\ closing'[d] = closing[d]
  BY <1>1 DEF Prepare, SpawnWorker, SpawnFails, Close, Destroy, Goto, runtimeVars, TypeOK, Client
<1>3. Beside
  BY <1>2 DEF Beside, Unbound
<1> QED BY <1>3, BesideKeeps DEF Direct

LEMMA WorkersKeep ==
  ASSUME TypeOK, WidgetInd, Workers
  PROVE  WidgetInd'
<1>1. ASSUME NEW c \in Client, NEW place, at' = [at EXCEPT ![c] = place], at[c] \notin {"none", "spawn"},
             place \notin {"none", "spawn"}, closing' \in {closing, [closing EXCEPT ![c] = TRUE]}
      PROVE  Beside
  BY <1>1 DEF Beside, TypeOK, Client
<1>2. ASSUME NEW c \in Player, PlayerWorker(c) PROVE Beside
  <2>0. c \in Client
    BY DEF Client
  <2>1. CASE Start(c)
    BY <2>1 DEF Start, Beside, runtimeVars
  <2>2. CASE \E sound \in {"silent", "audible"} : SessionOpens(c, sound)
    <3>1. /\ at' = [at EXCEPT ![c] = "claim"] \/ at' = [at EXCEPT ![c] = "play"]
          /\ at[c] = "open" /\ closing' = closing
      BY <2>2 DEF SessionOpens, Goto
    <3> QED BY <1>1, <2>0, <3>1
  <2>3. CASE PlayerEnters(c) \/ EnterFails(c)
    BY <1>1, <2>0, <2>3 DEF PlayerEnters, EnterFor, EnterFails, Faults, Goto
  <2>4. CASE Claim(c) \/ Unclaim(c)
    <3>1. /\ at[c] \in {"claiming", "unclaiming"}
          /\ closing' \in {closing, [closing EXCEPT ![c] = TRUE]}
      BY <2>4 DEF Claim, Unclaim, Faults
    <3>2. \/ at' = [at EXCEPT ![c] = "play"] \/ at' = [at EXCEPT ![c] = "finished"]
          \/ at' = [at EXCEPT ![c] = "close"]
      BY <2>4 DEF Claim, Unclaim, Faults, Goto
    <3> QED BY <1>1, <2>0, <3>1, <3>2
  <2>5. CASE PlayerFaults(c) \/ Seek(c) \/ Reopens(c) \/ SeesClosing(c) \/ CloseSession(c)
    BY <1>1, <2>0, <2>5 DEF PlayerFaults, Seek, Reopens, SeesClosing, CloseSession, Faults, Goto
  <2> QED BY <1>2, <2>1, <2>2, <2>3, <2>4, <2>5 DEF PlayerWorker
<1>3. ASSUME NEW c \in Apng, ApngWorker(c) PROVE Beside
  <2>0. c \in Client
    BY DEF Client
  <2>1. CASE \E ok \in BOOLEAN : Load(c, ok) \/ Ticked(c, ok) \/ Shut(c, ok)
    BY <1>1, <2>0, <2>1 DEF Load, Ticked, Shut, Faults, Goto
  <2>2. CASE Round(c) \/ RoundFails(c)
    BY <1>1, <2>0, <2>2 DEF Round, RoundFails, Faults, Goto
  <2>3. CASE ApngEnters(c) \/ EnterFails(c)
    BY <1>1, <2>0, <2>3 DEF ApngEnters, EnterFor, EnterFails, Faults, Goto
  <2> QED BY <1>3, <2>1, <2>2, <2>3 DEF ApngWorker
<1> QED BY <1>2, <1>3, BesideKeeps DEF Workers

-----------------------------------------------------------------------------
LEMMA WidgetInitInd == WidgetInit => WidgetInd
<1> SUFFICES ASSUME WidgetInit PROVE WidgetInd
  OBVIOUS
<1>1. NoBinding \in WidgetBinding /\ NoSlave \in SlaveBinding /\ NotAsked \in Asked
  BY Zenon DEF NoBinding, NoSlave, NotAsked, WidgetBinding, SlaveBinding, Asked
<1>2. Held = {} /\ WidgetTypeOK
  BY <1>1 DEF WidgetInit, Held, WidgetTypeOK, Holder
<1>3. \A w \in Widget : b[w].life = "none" /\ b[w].playback = Nobody /\ ~b[w].closing /\ ~b[w].replace
                        /\ ~b[w].timer
  BY DEF WidgetInit, NoBinding
<1>4. \A x \in Slave : s[x].master = Nobody /\ s[x].life = "none" /\ frame[x] = Nobody
  BY DEF WidgetInit, NoSlave, Holder
<1>5. Ticks /\ Images
  BY <1>2 DEF WidgetInit, Ticks, Images, NoTick
<1>6. Bindings /\ Masters
  BY <1>3, <1>4 DEF Bindings, Binding, Ends, Masters
<1> QED BY <1>2, <1>5, <1>6 DEF WidgetInd

LEMMA WidgetStepInd == TypeOK /\ WidgetInd /\ [WidgetNext]_allVars => WidgetInd'
<1> SUFFICES ASSUME TypeOK, WidgetInd, [WidgetNext]_allVars PROVE WidgetInd'
  OBVIOUS
<1>1. CASE UNCHANGED allVars
  BY <1>1, BesideKeeps DEF allVars, vars, Beside
<1>2. CASE WidgetCalls
  BY <1>2, CreateWidgetKeeps, SetSrcKeeps, StartLaterKeeps, StartNowKeeps, PauseWidgetKeeps,
     CloseWidgetKeeps, DeleteWidgetKeeps, SlaveCallsKeep DEF WidgetCalls
<1>3. CASE \E w \in Widget : TickStarts(w) \/ TickRest(w)
  BY <1>3, TickWaitsKeeps, TickDestroysKeeps, TickBeginsKeeps, TickPreparesKeeps, TickSpawnsKeeps,
     TickUnpreparedKeeps, TickAsksKeeps, TickPollsKeeps DEF TickStarts, TickRest
<1>4. CASE \E x \in Slave : SlaveTick(x)
  BY <1>4, SlaveTickKeeps
<1> QED BY <1>1, <1>2, <1>3, <1>4, DirectKeeps, WorkersKeep, RenderKeeps DEF WidgetNext

LEMMA WidgetIndIsEnough == WidgetInd => WidgetInv
<1> SUFFICES ASSUME WidgetInd PROVE WidgetInv
  OBVIOUS
<1>1. FramesLive
  BY DEF WidgetInd, Images, FramesLive
<1>2. NoTickIsLost
  BY DEF WidgetInd, Bindings, Binding, Masters, NoTickIsLost
<1>3. AskedAsToldTo
  BY DEF WidgetInd, Bindings, Binding, AskedAsToldTo
<1> QED BY <1>1, <1>2, <1>3 DEF WidgetInd, WidgetInv

\* A widget uses its playbacks as the runtime allows it.
LEMMA ClosesPlayback ==
  ASSUME WidgetInd, NEW w \in Widget, UiFree, ClosePlayback(b[w].playback)
  PROVE  [Next]_vars
<1>1. b[w].playback \in Apng \cup {Nobody} /\ Binding(w, b[w].playback)
  BY Ticking
<1>2. CASE b[w].playback = Nobody
  BY <1>2 DEF ClosePlayback, vars
<1>3. CASE b[w].playback # Nobody
  <2>1. b[w].playback \in Client /\ at[b[w].playback] # "none"
    BY <1>1, <1>3 DEF Client, Binding
  <2> QED BY <1>3, <2>1 DEF ClosePlayback, Close, Next, Ui
<1> QED BY <1>2, <1>3

LEMMA WidgetStepIsStep == TypeOK /\ WidgetInd /\ [WidgetNext]_allVars => [Next]_vars
<1> SUFFICES ASSUME TypeOK, WidgetInd, [WidgetNext]_allVars PROVE [Next]_vars
  OBVIOUS
<1>0. ASSUME NEW c \in Client,
             Prepare(c) \/ SpawnWorker(c) \/ SpawnFails(c) \/ Close(c) \/ Destroy(c)
      PROVE  Next
  BY <1>0 DEF Next, Ui
<1>1. CASE UNCHANGED allVars
  BY <1>1 DEF allVars
<1>2. ASSUME NEW w \in Widget, SetSrc(w) \/ CloseWidget(w) \/ DeleteWidget(w) PROVE [Next]_vars
  BY <1>2, ClosesPlayback DEF SetSrc, CloseWidget, DeleteWidget, Idle
<1>3. ASSUME NEW w \in Widget,
             CreateWidget(w) \/ StartLater(w) \/ StartNow(w) \/ \E on \in BOOLEAN : PauseWidget(w, on)
      PROVE  [Next]_vars
  BY <1>3 DEF CreateWidget, StartLater, StartNow, PauseWidget
<1>4. ASSUME NEW x \in Slave,
             \/ CreateSlave(x) \/ DeleteSlave(x) \/ SlaveTick(x)
             \/ \E w \in Widget \cup {Nobody} : SetMaster(x, w)
      PROVE  [Next]_vars
  BY <1>4 DEF CreateSlave, DeleteSlave, SlaveTick, SetMaster
<1>5. ASSUME NEW w \in Widget, TickStarts(w) \/ TickRest(w) PROVE [Next]_vars
  <2>0. b[w].playback \in Apng \cup {Nobody} /\ \A c \in Apng : c \in Client
    BY Ticking DEF Client
  <2>1. CASE TickDestroys(w)
    BY <1>0, <2>0, <2>1 DEF TickDestroys
  <2>2. CASE TickWaits(w) \/ TickBegins(w)
    BY <2>2 DEF TickWaits, TickBegins
  <2>3. CASE \E c \in Apng : TickPrepares(w, c)
    BY <1>0, <2>0, <2>3 DEF TickPrepares
  <2>4. CASE TickSpawns(w) \/ TickUnprepared(w)
    <3>1. Step(w, "spawn") => b[w].playback \in Client
      BY <2>0, InTick DEF Steps
    <3> QED BY <1>0, <2>4, <3>1 DEF TickSpawns, TickUnprepared
  <2>5. CASE TickAsks(w)
    <3>1. b[w].playback \in Client
      BY <2>0, <2>5, InTick DEF TickAsks, Steps
    <3>2. CASE closing[b[w].playback] /\ ClosePlayback(b[w].playback)
      BY <3>1, <3>2 DEF ClosePlayback, vars, TypeOK
    <3> QED BY <2>5, <3>2 DEF TickAsks, Refuses
  <2>6. CASE TickSeesFault(w) \/ (\E i \in Snapshot : TickTakes(w, i)) \/ TickTakesNothing(w)
    BY <2>6 DEF TickSeesFault, TickTakes, TickTakesNothing
  <2> QED BY <1>5, <2>1, <2>2, <2>3, <2>4, <2>5, <2>6 DEF TickStarts, TickRest
<1>6. CASE Direct
  BY <1>0, <1>6 DEF Direct, Unbound
<1>7. CASE Workers
  BY <1>7 DEF Workers, Next
<1>8. CASE Render \/ RenderEnds
  BY <1>8 DEF Render, RenderEnds
<1> QED BY <1>1, <1>2, <1>3, <1>4, <1>5, <1>6, <1>7, <1>8 DEF WidgetNext, WidgetCalls

-----------------------------------------------------------------------------
LEMMA WidgetSafe == WidgetSpec => [](MediaInv /\ WidgetInd)
<1>1. WidgetInit => MediaInv /\ WidgetInd
  BY InitIsSafe, WidgetInitInd DEF WidgetInit
<1>2. MediaInv /\ WidgetInd /\ [WidgetNext]_allVars => (MediaInv /\ WidgetInd)'
  <2>1. MediaInv => TypeOK
    BY DEF MediaInv, RuntimeInv
  <2> QED BY <2>1, WidgetStepIsStep, WidgetStepInd, StepIsSafe
<1> QED BY <1>1, <1>2, PTL DEF WidgetSpec

\* lv_aic_apng_widget.c, for any number of widgets, slaves, playbacks and images:
\* draw tasks only refer to images that are held, and these to playbacks that are
\* there; no work waits for a paused timer; and a playback was asked for what the
\* application said last, whatever the worker did in between.
THEOREM WidgetIsSafe == WidgetSpec => []WidgetInv
<1> QED BY WidgetSafe, WidgetIndIsEnough, PTL

\* The widgets prepare, close and destroy their playbacks in the order that
\* lv_aic_media_runtime.c relies on: what holds of the runtime holds under them.
THEOREM WidgetsImplementRuntime == WidgetSpec => Spec
<1>1. WidgetInit => Init
  BY DEF WidgetInit
<1>2. MediaInv /\ WidgetInd /\ [WidgetNext]_allVars => [Next]_vars
  BY WidgetStepIsStep DEF MediaInv, RuntimeInv
<1> QED BY <1>1, <1>2, WidgetSafe, PTL DEF WidgetSpec, Spec
=============================================================================
