---------------------------- MODULE AndroidProofs ----------------------------
(***************************************************************************)
(* The two servers of the Android program, for all values of the constants. *)
(*                                                                         *)
(* Application: threads do not outlive their activities, and the commands   *)
(* they run are up to date.                                                 *)
(*                                                                         *)
(* Audio, until the loop and the callback have been in the player at once:  *)
(* ControlInv says where the loop and the callback are and what the socket  *)
(* may hold, and gives BufferSafe; RingInv adds what the positions of the   *)
(* ring, the sound system's queue and alsa-lib's pointers have to do with   *)
(* each other, and gives StreamInOrder and UnreadIntact.                    *)
(***************************************************************************)
EXTENDS Application, Audio, SequenceTheorems, TLAPS

-----------------------------------------------------------------------------
(* Application: the invariant *)

\* Where the main thread is decides what it has: an activity that lives, unless it
\* is being made, and the mutex exactly while it is in load().
MainGood ==
    /\ main.step \in {"create", "load", "busy", "rejoin", "destroy", "join"} =>
          main.activity \in Activities
    /\ main.step \in {"load", "busy", "rejoin", "destroy", "join"} =>
          activity[main.activity] = "alive"
    /\ main.step = "load" => locked
    /\ locked => main.step \in {"load", "dead"}

\* Without the mutex, the settings are complete, and no older than what any start
\* was given; with it, the file is.
SettingsGood ==
    /\ 0 < file /\ settings_ <= file
    /\ ~locked => 0 < settings_
    /\ \A a \in Activities : asked[a] <= file /\ (~locked => asked[a] <= settings_)

AppInv == AppTypeOK /\ MainGood /\ SettingsGood /\ ThreadHasActivity /\ CommandFresh

\* The initial states
LEMMA AppInvInit ==
    ASSUME AppInit
    PROVE  AppInv
<1> USE ApplicationAssumption DEF AppInit, Idle, Main
<1>1. AppTypeOK
    <2>1. /\ main.step = "idle" /\ main.activity = Nobody
          /\ 0 \in 0 .. PipeSize /\ 0 \in 0 .. MaxStarts /\ 0 \in 0 .. MaxLines
        OBVIOUS
    <2>2. /\ activity \in [Activities -> {"none", "alive", "deleted"}]
          /\ user_busy_ \in [Activities -> BOOLEAN]
          /\ user_thread_ \in [Activities -> {"none", "begun", "got", "system", "done", "ended"}]
          /\ command \in [Activities -> Nat] /\ asked \in [Activities -> Nat]
          /\ script \in [Activities -> {"none", "runs", "prints", "waits", "exited"}]
        OBVIOUS
    <2>3. lines \in [Activities -> 0 .. MaxLines]
        BY <2>1
    <2> QED BY <2>1, <2>2, <2>3 DEF AppTypeOK
<1>2. MainGood /\ SettingsGood
    BY DEF MainGood, SettingsGood
<1>3. ThreadHasActivity /\ CommandFresh
    BY DEF ThreadHasActivity, CommandFresh, Joined
<1> QED BY <1>1, <1>2, <1>3 DEF AppInv

\* The callbacks that Android calls when the main thread is idle
LEMMA CallbacksStep ==
    ASSUME AppInv, Callbacks
    PROVE  AppInv'
<1> USE DEF AppInv, config, users, android, Main, Idle, AppTypeOK, MainGood,
            SettingsGood, ThreadHasActivity, CommandFresh, Joined
<1>1. ASSUME NEW a \in Activities, OnCreate(a) PROVE AppInv'
    BY <1>1 DEF OnCreate
<1>2. ASSUME NEW a \in Activities, OnStart(a) PROVE AppInv'
    BY <1>2, ApplicationAssumption DEF OnStart
<1>3. ASSUME NEW a \in Activities, OnDestroy(a) PROVE AppInv'
    BY <1>3 DEF OnDestroy
<1>4. CASE OnStop
    BY <1>4 DEF OnStop
<1>5. ASSUME NEW version \in 1 .. MaxEdits, WriteFile(version) PROVE AppInv'
    BY <1>5, ApplicationAssumption DEF WriteFile
<1>6. CASE ServiceOnCreate
    BY <1>6 DEF ServiceOnCreate
<1>7. CASE ServiceOnDestroy
    BY <1>7 DEF ServiceOnDestroy
<1> QED BY <1>1, <1>2, <1>3, <1>4, <1>5, <1>6, <1>7 DEF Callbacks

\* The main thread goes on in a callback.
LEMMA MainGoesOnStep ==
    ASSUME AppInv, MainGoesOn
    PROVE  AppInv'
<1> USE DEF AppInv, config, users, android, Main, Idle, AppTypeOK, MainGood,
            SettingsGood, ThreadHasActivity, CommandFresh, Joined
<1>1. ASSUME NEW quiet \in BOOLEAN, Created(quiet) PROVE AppInv'
    BY <1>1, ApplicationAssumption DEF Created
<1>2. CASE Loaded
    <2> USE <1>2 DEF Loaded
    <2>1. AppTypeOK'
        BY ApplicationAssumption
    <2>2. MainGood'
        OBVIOUS
    <2>3. SettingsGood'
        OBVIOUS
    <2>4. ThreadHasActivity' /\ CommandFresh'
        OBVIOUS
    <2> QED BY <2>1, <2>2, <2>3, <2>4
<1>3. CASE LoadThrows
    BY <1>3 DEF LoadThrows, Dead
<1>4. CASE TestBusy
    <2> USE <1>4 DEF TestBusy
    <2>1. AppTypeOK'
        <3>1. main.activity \in Activities
            OBVIOUS
        <3>2. CASE user_busy_[main.activity]
            <4>1. user_busy_' = user_busy_ /\ main' = Idle
                BY <3>2
            <4> QED BY <4>1
        <3>3. CASE ~user_busy_[main.activity]
            <4>1. main' = [step |-> "rejoin", activity |-> main.activity]
                BY <3>3
            <4>2. user_busy_' = [user_busy_ EXCEPT ![main.activity] = TRUE]
                BY <3>3
            <4>3. user_busy_' \in [Activities -> BOOLEAN]
                BY <4>2, Zenon
            <4> QED BY <3>1, <4>1, <4>3
        <3> QED BY <3>2, <3>3
    <2>2. MainGood'
        OBVIOUS
    <2>3. SettingsGood'
        OBVIOUS
    <2>4. ThreadHasActivity' /\ CommandFresh'
        OBVIOUS
    <2> QED BY <2>1, <2>2, <2>3, <2>4
<1>5. CASE Spawn
    BY <1>5, ApplicationAssumption DEF Spawn
<1>6. CASE DestructorPrints
    BY <1>6, ApplicationAssumption DEF DestructorPrints
<1>7. CASE DestructorJoins
    BY <1>7 DEF DestructorJoins
<1>8. CASE ServiceCreated
    BY <1>8, ApplicationAssumption DEF ServiceCreated
<1>9. CASE ServiceDestroyed
    <2> USE <1>9 DEF ServiceDestroyed
    <2>1. AppTypeOK'
        <3>1. script' \in [Activities -> {"none", "runs", "prints", "waits", "exited"}]
            OBVIOUS
        <3>2. pipe' \in 0 .. PipeSize
            BY ApplicationAssumption
        <3> QED BY <3>1, <3>2
    <2>2. MainGood'
        OBVIOUS
    <2>3. SettingsGood'
        OBVIOUS
    <2>4. ThreadHasActivity' /\ CommandFresh'
        OBVIOUS
    <2> QED BY <2>1, <2>2, <2>3, <2>4
<1> QED BY <1>1, <1>2, <1>3, <1>4, <1>5, <1>6, <1>7, <1>8, <1>9 DEF MainGoesOn

\* The event loop, the thread of an activity, and its script
LEMMA OthersStep ==
    ASSUME AppInv,
           RunOnce \/ \E a \in Activities : User(a) \/ Script(a)
    PROVE  AppInv'
<1> USE DEF AppInv, config, users, android, Main, Idle, AppTypeOK, MainGood,
            SettingsGood, ThreadHasActivity, CommandFresh, Joined
<1>1. CASE LogDataIn
    BY <1>1, ApplicationAssumption DEF LogDataIn
<1>2. ASSUME NEW a \in Activities, Dispatch(a) PROVE AppInv'
    BY <1>2 DEF Dispatch
<1>3. ASSUME NEW a \in Activities, GetOnStart(a) PROVE AppInv'
    BY <1>3 DEF GetOnStart
<1>4. ASSUME NEW a \in Activities, GetThrows(a) PROVE AppInv'
    BY <1>4 DEF GetThrows, Dead
<1>5. ASSUME NEW a \in Activities, System(a) PROVE AppInv'
    BY <1>5 DEF System
<1>6. ASSUME NEW a \in Activities, SystemReturns(a) PROVE AppInv'
    BY <1>6 DEF SystemReturns
<1>7. ASSUME NEW a \in Activities, ThreadEnds(a) PROVE AppInv'
    BY <1>7 DEF ThreadEnds
<1>8. ASSUME NEW a \in Activities, ScriptPrints(a) PROVE AppInv'
    BY <1>8, ApplicationAssumption DEF ScriptPrints
<1>9. ASSUME NEW a \in Activities, WriteReturns(a) PROVE AppInv'
    BY <1>9, ApplicationAssumption DEF WriteReturns
<1>10. ASSUME NEW a \in Activities, ScriptConnects(a) PROVE AppInv'
    BY <1>10, ApplicationAssumption DEF ScriptConnects
<1>11. ASSUME NEW a \in Activities, ScriptExits(a) PROVE AppInv'
    BY <1>11 DEF ScriptExits
<1> QED BY <1>1, <1>2, <1>3, <1>4, <1>5, <1>6, <1>7, <1>8, <1>9, <1>10, <1>11
        DEF RunOnce, User, Script

\* Every step keeps the invariant.
LEMMA AppInvStep ==
    ASSUME AppInv, [AppNext]_appVars
    PROVE  AppInv'
<1>1. CASE AppNext
    BY <1>1, CallbacksStep, MainGoesOnStep, OthersStep DEF AppNext
<1>2. CASE UNCHANGED appVars
    BY <1>2 DEF appVars, AppInv, AppTypeOK, MainGood, SettingsGood, ThreadHasActivity,
                CommandFresh, Joined
<1> QED BY <1>1, <1>2

LEMMA AppInvAlways ==
    AppSpec => []AppInv
<1>1. AppInit => AppInv
    BY AppInvInit
<1>2. AppInv /\ [AppNext]_appVars => AppInv'
    BY AppInvStep
<1> QED BY <1>1, <1>2, PTL DEF AppSpec

\* user() never outlives its activity: whatever the order of the buttons, of the
\* script's end and of the settings, the destructor has joined the thread before the
\* object is deleted.
THEOREM ThreadsHaveActivities ==
    AppSpec => []ThreadHasActivity
<1>1. AppInv => ThreadHasActivity
    BY DEF AppInv
<1> QED BY <1>1, AppInvAlways, PTL

\* The command that user() gives to system() comes from settings that were complete,
\* and no older than those its start was pressed with, whatever is loaded meanwhile.
THEOREM CommandsFresh ==
    AppSpec => []CommandFresh
<1>1. AppInv => CommandFresh
    BY DEF AppInv
<1> QED BY <1>1, AppInvAlways, PTL

-----------------------------------------------------------------------------
(* The invariant of the control: where the loop and the callback are *)

\* The step does not bring the loop and the callback together in the player.
KeepsApart == UNCHANGED upset /\ ~Overlap'

\* The types but for what the loop and the callback have left to do
DataTypes ==
    /\ state_ \in {"playing", "stopped"} /\ playing_ \in 0 .. Period
    /\ buffer_ \in 0 .. session /\ timer \in BOOLEAN
    /\ shm \in [write : Nat, read : Nat, data : [Cells -> 0 .. MaxBytes]]
    /\ register \in [read : Nat, n : 0 .. Period]
    /\ found \in [{"loop", "audio"} -> Places \cup {Nothing}]
    /\ posts \in BOOLEAN /\ device \in BOOLEAN
    /\ heard \in Seq(0 .. MaxBytes) /\ fault \in BOOLEAN
    /\ connected_ \in BOOLEAN /\ due \in BOOLEAN
    /\ session \in 0 .. opened /\ waiting \in 0 .. opened
    /\ opened \in 0 .. MaxSessions
    /\ sock \in Seq({"map", "fds", "start", "stop"}) /\ words \in BOOLEAN
    /\ client \in {"none", "code", "fds", "ready", "copied", "pointer", "poll",
                   "woken", "gone"}
    /\ alsa \in Pointers /\ copied \in [at : Nat, n : 0 .. Period]
    /\ next \in 1 .. MaxBytes + 1 /\ stops \in 0 .. MaxStops
    /\ begins \subseteq 1 .. MaxBytes + 1 /\ upset \subseteq Reasons

\* Places that lie in the ring and are no longer than a period
Fitting == {p \in Places : p.at + p.n <= Size /\ p.n <= Period}

\* The steps of the loop in the code of the player
PlayerSteps == {"play", "halt", "clear", "reset", "zero", "look", "enqueue", "set"}

\* What the loop has left of stop(), with what follows it
Halting == {<<"halt", "clear", "reset", "zero", e>> : e \in {"read", "unmap"}}
Clearing == {<<"clear", "reset", "zero", e>> : e \in {"read", "unmap"}}
Resetting == {<<"reset", "zero", e>> : e \in {"read", "unmap"}}
Zeroing == {<<"zero", e>> : e \in {"read", "unmap"}}

\* What it has left of start() and of check()
Beginning == {<<"play", "zero", "look", "arm", "read">>}
Started == {<<"zero", "look", "arm", "read">>, <<"look", "arm", "read">>}
Enqueuing == {<<"enqueue", "set">>, <<"enqueue", "set", "arm", "read">>}
Setting == {<<"set">>, <<"set", "arm", "read">>}

Inside == Halting \cup Clearing \cup Resetting \cup Zeroing \cup Beginning \cup Started
          \cup Enqueuing \cup Setting

\* It waits for the client's descriptor.
Awaiting == <<"fds", "read">>

Outside == {<<>>, <<"read">>, <<"arm", "read">>, <<"accept">>, <<"unmap">>, <<"expire">>,
            Awaiting}

\* The loop is in stop() only to serve a client, and plays only a mapped ring.
LoopOK ==
    /\ loop \in Inside \cup Outside
    /\ loop = <<"accept">> => ~connected_ /\ waiting > 0
    /\ loop \notin {<<>>, <<"accept">>, <<"expire">>} => connected_
    /\ loop \in Halting \cup Started \cup Enqueuing \cup Setting => state_ = "playing"
    /\ loop \in Clearing \cup Resetting \cup Zeroing \cup Beginning => state_ = "stopped"
    /\ loop = <<"unmap">> => state_ = "stopped"
    /\ loop \in Clearing \cup Resetting \cup Beginning => buffer_ # 0

\* What check() is about to enqueue is in the ring that is mapped.
FoundOK ==
    /\ loop \in Enqueuing \cup Setting =>
        found["loop"] \in Fitting /\ found["loop"].of = buffer_
    /\ callback \in {"enqueue", "set"} =>
        found["audio"] \in Fitting /\ found["audio"].of = buffer_

\* The callback runs only while the player plays, and not beside start() or stop().
CallbackOK ==
    /\ callback \in {"idle", "state", "load", "store", "clear", "look", "enqueue", "set", "post"}
    /\ callback \notin {"idle", "post"} => state_ = "playing" /\ loop \in Outside

\* A stopped player has nothing with the sound system, once stop() has cleared it.
QueueOK ==
    /\ queue \in Seq(Fitting)
    /\ state_ = "stopped" /\ loop \notin Clearing => queue = <<>>
    /\ state_ = "playing" => buffer_ # 0

\* After the first k, only codes are on their way.
Codes(k) == \A i \in k + 1 .. Len(sock) : sock[i] \in {"start", "stop"}

\* A client says map, sends its descriptor, and then starts and stops.
SockOK ==
    /\ buffer_ # 0 => Codes(0) /\ connected_ /\ loop # Awaiting
    /\ loop = Awaiting => Codes(1) /\ (sock # <<>> => sock[1] = "fds")
    /\ buffer_ = 0 /\ loop # Awaiting =>
        Codes(2) /\ (sock # <<>> => sock[1] = "map") /\ (Len(sock) > 1 => sock[2] = "fds")
    /\ client = "code" => sock = <<>> /\ buffer_ = 0 /\ loop # Awaiting
    /\ client = "fds" => buffer_ = 0 /\ Len(sock) = IF loop = Awaiting THEN 0 ELSE 1
    /\ client \notin {"none", "code", "fds", "gone"} /\ buffer_ = 0 =>
        Len(sock) >= IF loop = Awaiting THEN 1 ELSE 2
    /\ connected_ => client # "none" /\ session > 0
    /\ ~connected_ => client = "none" /\ sock = <<>>

\* Every client that was accepted or waits has connected; a byte was heard last.
CountsOK == session + waiting <= opened /\ Len(heard) > 0

ControlInv ==
    DataTypes /\ CountsOK /\ LoopOK /\ FoundOK /\ CallbackOK /\ QueueOK /\ SockOK /\ BufferSafe

-----------------------------------------------------------------------------
(* Sequences of steps *)

\* The first step tells what the loop is doing, and what it does next.
LEMMA NextSteps ==
    ASSUME loop \in Inside \cup Outside, loop # <<>>
    PROVE  /\ Head(loop) = "halt" => loop \in Halting /\ Tail(loop) \in Clearing
           /\ Head(loop) = "clear" => loop \in Clearing /\ Tail(loop) \in Resetting
           /\ Head(loop) = "reset" => loop \in Resetting /\ Tail(loop) \in Zeroing
           /\ Head(loop) = "zero" =>
                \/ loop \in Zeroing /\ Tail(loop) \in {<<"read">>, <<"unmap">>}
                \/ loop \in Started /\ Tail(loop) = <<"look", "arm", "read">>
           /\ Head(loop) = "play" => loop \in Beginning /\ Tail(loop) \in Started
           /\ Head(loop) = "look" => loop \in Started /\ Tail(loop) = <<"arm", "read">>
           /\ Head(loop) = "enqueue" => loop \in Enqueuing /\ Tail(loop) \in Setting
           /\ Head(loop) = "set" =>
                loop \in Setting /\ Tail(loop) \in {<<>>, <<"arm", "read">>}
           /\ Head(loop) = "arm" => loop = <<"arm", "read">> /\ Tail(loop) = <<"read">>
           /\ Head(loop) = "read" => loop = <<"read">> /\ Tail(loop) = <<>>
           /\ Head(loop) = "fds" => loop = Awaiting /\ Tail(loop) = <<"read">>
           /\ Head(loop) = "accept" => loop = <<"accept">> /\ Tail(loop) = <<>>
           /\ Head(loop) = "unmap" => loop = <<"unmap">> /\ Tail(loop) = <<>>
<1>1. loop \in Halting => Head(loop) = "halt" /\ Tail(loop) \in Clearing
    <2> SUFFICES ASSUME NEW e \in {"read", "unmap"}, loop = <<"halt", "clear", "reset", "zero", e>>
                 PROVE  Head(loop) = "halt" /\ Tail(loop) \in Clearing
        BY DEF Halting
    <2>1. Head(loop) = "halt" /\ Tail(loop) = <<"clear", "reset", "zero", e>>
        OBVIOUS
    <2> QED BY <2>1 DEF Clearing
<1>2. loop \in Clearing => Head(loop) = "clear" /\ Tail(loop) \in Resetting
    <2> SUFFICES ASSUME NEW e \in {"read", "unmap"}, loop = <<"clear", "reset", "zero", e>>
                 PROVE  Head(loop) = "clear" /\ Tail(loop) \in Resetting
        BY DEF Clearing
    <2>1. Head(loop) = "clear" /\ Tail(loop) = <<"reset", "zero", e>>
        OBVIOUS
    <2> QED BY <2>1 DEF Resetting
<1>3. loop \in Resetting => Head(loop) = "reset" /\ Tail(loop) \in Zeroing
    <2> SUFFICES ASSUME NEW e \in {"read", "unmap"}, loop = <<"reset", "zero", e>>
                 PROVE  Head(loop) = "reset" /\ Tail(loop) \in Zeroing
        BY DEF Resetting
    <2>1. Head(loop) = "reset" /\ Tail(loop) = <<"zero", e>>
        OBVIOUS
    <2> QED BY <2>1 DEF Zeroing
<1>4. loop \in Zeroing => Head(loop) = "zero" /\ Tail(loop) \in {<<"read">>, <<"unmap">>}
    <2> SUFFICES ASSUME NEW e \in {"read", "unmap"}, loop = <<"zero", e>>
                 PROVE  Head(loop) = "zero" /\ Tail(loop) \in {<<"read">>, <<"unmap">>}
        BY DEF Zeroing
    <2>1. Head(loop) = "zero" /\ Tail(loop) = <<e>>
        OBVIOUS
    <2> QED BY <2>1
<1>5. loop \in Beginning => Head(loop) = "play" /\ Tail(loop) \in Started
    <2>1. loop = <<"play", "zero", "look", "arm", "read">> =>
              Head(loop) = "play" /\ Tail(loop) = <<"zero", "look", "arm", "read">>
        OBVIOUS
    <2> QED BY <2>1 DEF Beginning, Started
<1>6. loop \in Started =>
        \/ loop = <<"zero", "look", "arm", "read">> /\ Head(loop) = "zero" /\ Tail(loop) = <<"look", "arm", "read">>
        \/ loop = <<"look", "arm", "read">> /\ Head(loop) = "look" /\ Tail(loop) = <<"arm", "read">>
    <2>1. loop = <<"zero", "look", "arm", "read">> =>
              Head(loop) = "zero" /\ Tail(loop) = <<"look", "arm", "read">>
        OBVIOUS
    <2>2. loop = <<"look", "arm", "read">> => Head(loop) = "look" /\ Tail(loop) = <<"arm", "read">>
        OBVIOUS
    <2> QED BY <2>1, <2>2 DEF Started
<1>7. loop \in Enqueuing => Head(loop) = "enqueue" /\ Tail(loop) \in Setting
    <2>1. loop = <<"enqueue", "set">> => Head(loop) = "enqueue" /\ Tail(loop) = <<"set">>
        OBVIOUS
    <2>2. loop = <<"enqueue", "set", "arm", "read">> =>
              Head(loop) = "enqueue" /\ Tail(loop) = <<"set", "arm", "read">>
        OBVIOUS
    <2> QED BY <2>1, <2>2 DEF Enqueuing, Setting
<1>8. loop \in Setting => Head(loop) = "set" /\ Tail(loop) \in {<<>>, <<"arm", "read">>}
    <2>1. loop = <<"set">> => Head(loop) = "set" /\ Tail(loop) = <<>>
        OBVIOUS
    <2>2. loop = <<"set", "arm", "read">> => Head(loop) = "set" /\ Tail(loop) = <<"arm", "read">>
        OBVIOUS
    <2> QED BY <2>1, <2>2 DEF Setting
<1>9. loop \in Outside =>
        \/ loop = <<"read">> /\ Head(loop) = "read" /\ Tail(loop) = <<>>
        \/ loop = <<"arm", "read">> /\ Head(loop) = "arm" /\ Tail(loop) = <<"read">>
        \/ loop = <<"accept">> /\ Head(loop) = "accept" /\ Tail(loop) = <<>>
        \/ loop = <<"unmap">> /\ Head(loop) = "unmap" /\ Tail(loop) = <<>>
        \/ loop = <<"fds", "read">> /\ Head(loop) = "fds" /\ Tail(loop) = <<"read">>
        \/ loop = <<"expire">> /\ Head(loop) = "expire"
    <2>1. loop = <<"read">> => Head(loop) = "read" /\ Tail(loop) = <<>>
        OBVIOUS
    <2>2. loop = <<"arm", "read">> => Head(loop) = "arm" /\ Tail(loop) = <<"read">>
        OBVIOUS
    <2>3. loop = <<"accept">> => Head(loop) = "accept" /\ Tail(loop) = <<>>
        OBVIOUS
    <2>4. loop = <<"unmap">> => Head(loop) = "unmap" /\ Tail(loop) = <<>>
        OBVIOUS
    <2>5. loop = <<"fds", "read">> => Head(loop) = "fds" /\ Tail(loop) = <<"read">>
        OBVIOUS
    <2>6. loop = <<"expire">> => Head(loop) = "expire"
        OBVIOUS
    <2> QED BY <2>1, <2>2, <2>3, <2>4, <2>5, <2>6 DEF Outside, Awaiting
<1> QED BY <1>1, <1>2, <1>3, <1>4, <1>5, <1>6, <1>7, <1>8, <1>9 DEF Inside, Awaiting

\* The loop is in the code of the player or not; it does one thing at a time.
LEMMA Apart ==
    ASSUME NEW s
    PROVE  /\ s \in Inside => s # <<>> /\ \E i \in 1 .. Len(s) : s[i] \in PlayerSteps
           /\ s \in Outside => \A i \in 1 .. Len(s) : s[i] \notin PlayerSteps
           /\ s \in Inside => s \notin Outside
<1> USE DEF Halting, Clearing, Resetting, Zeroing, Beginning, Started, Enqueuing, Setting,
            Awaiting, Inside, Outside, PlayerSteps
<1>1. s \in Inside => s[1] \in PlayerSteps /\ 1 \in 1 .. Len(s) /\ s # <<>>
    OBVIOUS
<1>2. s \in Outside => \A i \in 1 .. Len(s) : s[i] \notin PlayerSteps
    OBVIOUS
<1> QED BY <1>1, <1>2

\* The groups have no sequence in common.
LEMMA Distinct ==
    ASSUME NEW s
    PROVE  /\ s \in Halting => s \notin Clearing \cup Resetting \cup Zeroing \cup Beginning
                                        \cup Started \cup Enqueuing \cup Setting
           /\ s \in Clearing => s \notin Resetting \cup Zeroing \cup Beginning \cup Started
                                         \cup Enqueuing \cup Setting
           /\ s \in Resetting => s \notin Zeroing \cup Beginning \cup Started \cup Enqueuing
                                          \cup Setting
           /\ s \in Zeroing => s \notin Beginning \cup Started \cup Enqueuing \cup Setting
           /\ s \in Beginning => s \notin Started \cup Enqueuing \cup Setting
           /\ s \in Started => s \notin Enqueuing \cup Setting
           /\ s \in Enqueuing => s \notin Setting
    BY DEF Halting, Clearing, Resetting, Zeroing, Beginning, Started, Enqueuing, Setting

-----------------------------------------------------------------------------
(* Types *)

Unread == shm.write - shm.read

\* A position is in a cell.
LEMMA CellType ==
    ASSUME NEW p \in Nat
    PROVE  Cell(p) \in Nat /\ Cell(p) < Size /\ Cell(p) \in Cells
    BY SizeAssumption DEF Cell, Cells

\* What write_start and read_start grant is in the ring.
LEMMA Granted ==
    ASSUME NEW p \in Nat, NEW n \in Nat \ {0}
    PROVE  /\ Contiguous(p, n) \in Nat \ {0} /\ Contiguous(p, n) <= n
           /\ Cell(p) + Contiguous(p, n) <= Size
    BY CellType, SizeAssumption DEF Contiguous

\* What check() finds
LEMMA FoundFacts ==
    ASSUME TypeOK
    PROVE  /\ Found # Nothing =>
                /\ Found \in Fitting /\ Found.of = buffer_
                /\ state_ = "playing" /\ playing_ = 0 /\ buffer_ # 0
                /\ Found.at = Cell(shm.read) /\ Found.n <= Unread
           /\ Found \in Places \cup {Nothing}
<1>1. CASE state_ = "playing" /\ playing_ = 0 /\ buffer_ # 0 /\ BytesAvailable(shm) >= 1
    <2> DEFINE n == BytesAvailable(shm)
               m == IF n > Period THEN Period ELSE n
               c == Contiguous(shm.read, m)
    <2>1. shm.read \in Nat /\ shm.write \in Nat /\ n = Unread /\ buffer_ \in Nat
        BY DEF TypeOK, BytesAvailable, Unread
    <2>2. m \in Nat \ {0} /\ m <= Period /\ m <= Unread
        BY <1>1, <2>1, PeriodAssumption DEF Unread
    <2>3. Found = [of |-> buffer_, at |-> Cell(shm.read), n |-> c]
        BY <1>1 DEF Found
    <2> HIDE DEF m
    <2>4. c \in Nat \ {0} /\ c <= m /\ Cell(shm.read) + c <= Size /\ Cell(shm.read) \in Cells
        BY <2>1, <2>2, Granted, CellType
    <2>5. c <= Period /\ c <= Unread
        BY <2>1, <2>2, <2>4, PeriodAssumption DEF Unread
    <2> HIDE DEF c
    <2> QED BY <1>1, <2>1, <2>3, <2>4, <2>5 DEF Fitting, Places
<1>2. CASE ~(state_ = "playing" /\ playing_ = 0 /\ buffer_ # 0 /\ BytesAvailable(shm) >= 1)
    BY <1>2 DEF Found
<1> QED BY <1>1, <1>2

\* A place that fits is a place.
LEMMA FittingType ==
    ASSUME NEW p \in Fitting
    PROVE  /\ p \in Places /\ p.of \in Nat /\ p.at \in Cells /\ p.n \in Nat \ {0}
           /\ p.n \in 0 .. Period /\ p.at + p.n <= Size
    BY PeriodAssumption DEF Fitting, Places

\* A sequence of places that fit is a sequence of places.
LEMMA FittingSeq == Seq(Fitting) \subseteq Seq(Places)
<1>1. Fitting \subseteq Places
    BY DEF Fitting
<1> QED BY <1>1, SeqMonotonic
\* The groups consist of steps.
LEMMA ShapeType ==
    ASSUME NEW s \in Inside \cup Outside
    PROVE  s \in Seq(Steps)
<1>0. /\ "play" \in Steps /\ "arm" \in Steps /\ "halt" \in Steps /\ "clear" \in Steps
      /\ "reset" \in Steps /\ "zero" \in Steps /\ "look" \in Steps /\ "enqueue" \in Steps
      /\ "set" \in Steps /\ "accept" \in Steps /\ "read" \in Steps /\ "fds" \in Steps
      /\ "unmap" \in Steps /\ "expire" \in Steps
    BY DEF Steps
<1>1. ASSUME NEW e \in {"read", "unmap"}
      PROVE  /\ <<"halt", "clear", "reset", "zero", e>> \in Seq(Steps)
             /\ <<"clear", "reset", "zero", e>> \in Seq(Steps)
             /\ <<"reset", "zero", e>> \in Seq(Steps)
             /\ <<"zero", e>> \in Seq(Steps)
    BY <1>0
<1>2. s \in Halting \cup Clearing \cup Resetting \cup Zeroing => s \in Seq(Steps)
    BY <1>1 DEF Halting, Clearing, Resetting, Zeroing
<1>3. /\ <<"play", "zero", "look", "arm", "read">> \in Seq(Steps)
      /\ <<"zero", "look", "arm", "read">> \in Seq(Steps)
      /\ <<"look", "arm", "read">> \in Seq(Steps)
    BY <1>0
<1>4. /\ <<"enqueue", "set">> \in Seq(Steps)
      /\ <<"enqueue", "set", "arm", "read">> \in Seq(Steps)
      /\ <<"set">> \in Seq(Steps) /\ <<"set", "arm", "read">> \in Seq(Steps)
    BY <1>0
<1>5. s \in Beginning \cup Started \cup Enqueuing \cup Setting => s \in Seq(Steps)
    BY <1>3, <1>4 DEF Beginning, Started, Enqueuing, Setting
<1>6. /\ <<>> \in Seq(Steps) /\ <<"read">> \in Seq(Steps) /\ <<"arm", "read">> \in Seq(Steps)
      /\ <<"accept">> \in Seq(Steps) /\ <<"unmap">> \in Seq(Steps)
      /\ <<"fds", "read">> \in Seq(Steps) /\ <<"expire">> \in Seq(Steps)
    BY <1>0, EmptySeq
<1>7. s \in Outside => s \in Seq(Steps)
    BY <1>6 DEF Outside, Awaiting
<1> QED BY <1>2, <1>5, <1>7 DEF Inside

\* The invariant has the types in it.
LEMMA ControlTypes == ControlInv => TypeOK
<1> SUFFICES ASSUME ControlInv PROVE TypeOK
    OBVIOUS
<1>1. loop \in Seq(Steps)
    BY ShapeType DEF ControlInv, LoopOK
<1>2. queue \in Seq(Places)
    BY FittingSeq DEF ControlInv, QueueOK
<1> QED BY <1>1, <1>2 DEF ControlInv, DataTypes, CallbackOK, TypeOK

\* A function on 1 .. n is a sequence.
LEMMA FunctionIsSeq ==
    ASSUME NEW S, NEW n \in Nat, NEW f \in [1 .. n -> S]
    PROVE  f \in Seq(S) /\ Len(f) = n
<1>1. f \in Seq(S)
    BY SeqDef
<1>2. DOMAIN f = 1 .. Len(f) /\ Len(f) \in Nat
    BY <1>1, LenProperties
<1> QED BY <1>1, <1>2

\* The client sends a code.
LEMMA SendType ==
    ASSUME DataTypes, NEW code \in {"map", "fds", "start", "stop"}, Send(code)
    PROVE  sock' \in Seq({"map", "fds", "start", "stop"})
    BY AppendProperties DEF DataTypes, Send

\* The player's steps keep the types.
LEMMA PlayerTypes ==
    ASSUME ControlInv, KeepsApart, due' \in BOOLEAN, UNCHANGED <<clientVars, serverVars>>,
           LoopStep \/ Timeout \/ Play \/ CallbackStep
    PROVE  DataTypes'
<1> USE DEF clientVars, serverVars, KeepsApart
<1>a. DataTypes /\ TypeOK
    BY ControlTypes DEF ControlInv
<1>1. CASE LoopPlay
    BY <1>1, <1>a DEF LoopPlay, DataTypes
<1>2. CASE LoopArm
    BY <1>2, <1>a DEF LoopArm, DataTypes
<1>3. CASE LoopHalt
    BY <1>3, <1>a DEF LoopHalt, DataTypes
<1>4. CASE LoopClear
    BY <1>4, <1>a DEF LoopClear, DataTypes
<1>5. CASE LoopReset
    <2>1. shm' \in {shm, Reset(shm)}
          /\ UNCHANGED <<state_, playing_, buffer_, timer, register, found, posts, device, heard, fault>>
        BY <1>5 DEF LoopReset
    <2>2. shm' \in [write : Nat, read : Nat, data : [Cells -> 0 .. MaxBytes]]
        <3>1. shm \in [write : Nat, read : Nat, data : [Cells -> 0 .. MaxBytes]]
            BY <1>a DEF DataTypes
        <3>2. Reset(shm) \in [write : Nat, read : Nat, data : [Cells -> 0 .. MaxBytes]]
            BY ONLY <3>1 DEF Reset
        <3> QED BY ONLY <2>1, <3>1, <3>2
    <2> QED BY SMTT(30), <1>a, <2>1, <2>2 DEF DataTypes
<1>6. CASE LoopZero
    BY <1>6, <1>a, PeriodAssumption DEF LoopZero, DataTypes
<1>7. ASSUME NEW t \in {"loop", "audio"}, Look(t) PROVE DataTypes'
    BY <1>7, <1>a, FoundFacts DEF Look, DataTypes
<1>8. ASSUME NEW t \in {"loop", "audio"}, Enqueue(t) PROVE DataTypes'
    BY <1>8, <1>a DEF Enqueue, DataTypes
<1>9. ASSUME NEW t \in {"loop", "audio"}, SetPlaying(t), found[t] \in Fitting PROVE DataTypes'
    BY SMTT(30), <1>9, <1>a, FittingType DEF SetPlaying, DataTypes
<1>10. CASE LoopCheck
    <2>1. ASSUME Step("set") PROVE found["loop"] \in Fitting
        BY <2>1, NextSteps DEF Step, ControlInv, LoopOK, FoundOK
    <2> QED BY <1>7, <1>8, <1>9, <1>10, <2>1 DEF LoopCheck
<1>11. CASE Timeout
    BY <1>7, <1>11 DEF Timeout
<1>12. CASE Play
    <2>1. heard' \in Seq(0 .. MaxBytes)
        <3> DEFINE place == Head(queue)
        <3>1. heard \in Seq(0 .. MaxBytes) /\ Len(heard) \in Nat \ {0} /\ queue # <<>>
            BY <1>a, <1>12, LenProperties DEF ControlInv, CountsOK, DataTypes, Play
        <3>2. place \in Fitting
            BY <3>1, HeadTailProperties DEF ControlInv, QueueOK
        <3>3. place.at \in Cells /\ place.n \in Nat /\ place.at + place.n <= Size
            BY <3>2, FittingType
        <3>4. Bytes(shm, place.at, place.n) \in Seq(0 .. MaxBytes)
            <4>1. ASSUME NEW i \in 1 .. place.n PROVE shm.data[place.at + i - 1] \in 0 .. MaxBytes
                <5>1. place.at + i - 1 \in Cells
                    BY <3>3, SizeAssumption DEF Cells
                <5>2. shm.data \in [Cells -> 0 .. MaxBytes]
                    BY <1>a DEF DataTypes
                <5> QED BY <5>1, <5>2
            <4>2. Bytes(shm, place.at, place.n) \in [1 .. place.n -> 0 .. MaxBytes]
                BY <4>1 DEF Bytes
            <4> QED BY <3>3, <4>2, FunctionIsSeq
        <3>5. <<Last(heard)>> \in Seq(0 .. MaxBytes)
            <4>1. heard[Len(heard)] \in 0 .. MaxBytes
                <5>1. Len(heard) \in 1 .. Len(heard)
                    BY <3>1
                <5> QED BY <3>1, <5>1, ElementOfSeq
            <4> QED BY <4>1 DEF Last
        <3>6. <<Last(heard)>> \o Bytes(shm, place.at, place.n) \in Seq(0 .. MaxBytes)
            BY <3>4, <3>5, ConcatProperties
        <3> QED BY <1>12, <3>1, <3>6 DEF Play
    <2> QED BY <1>12, <1>a, <2>1 DEF Play, DataTypes
<1>13. CASE CallbackState
    BY <1>13, <1>a DEF CallbackState, DataTypes
<1>14. CASE CallbackLoad
    BY <1>14, <1>a DEF CallbackLoad, DataTypes
<1>15. CASE CallbackStore
    <2>1. PICK read \in {register.read, shm.read} : shm' = [shm EXCEPT !.read = read + register.n]
        BY <1>15 DEF CallbackStore
    <2>2. read + register.n \in Nat
        BY SMTT(30), <1>a DEF DataTypes
    <2>3. shm' \in [write : Nat, read : Nat, data : [Cells -> 0 .. MaxBytes]]
        BY <1>a, <2>1, <2>2 DEF DataTypes
    <2>4. register' \in [read : Nat, n : 0 .. Period]
        BY <1>15, PeriodAssumption DEF CallbackStore
    <2>5. UNCHANGED <<state_, playing_, buffer_, timer, found, posts, device, heard, fault>>
        BY <1>15 DEF CallbackStore
    <2> QED BY SMTT(30), <1>a, <2>3, <2>4, <2>5 DEF DataTypes
<1>16. CASE CallbackClear
    BY <1>16, <1>a, PeriodAssumption DEF CallbackClear, DataTypes
<1>17. CASE CallbackCheck
    <2>1. ASSUME callback = "set" PROVE found["audio"] \in Fitting
        BY <2>1 DEF ControlInv, FoundOK
    <2> QED BY <1>7, <1>8, <1>9, <1>17, <2>1 DEF CallbackCheck, Goes
<1>18. CASE CallbackPost
    BY <1>18, <1>a DEF CallbackPost, DataTypes
<1> QED BY <1>1, <1>2, <1>3, <1>4, <1>5, <1>6, <1>10, <1>11, <1>12, <1>13, <1>14, <1>15, <1>16,
           <1>17, <1>18 DEF LoopStep, CallbackStep

\* What two short sequences make, one after the other
LEMMA TwoAndTwo ==
    ASSUME NEW S, NEW a \in S, NEW b \in S, NEW c \in S, NEW d \in S
    PROVE  <<a, b>> \o <<c, d>> = <<a, b, c, d>>
<1> DEFINE s == <<a, b>>
           t == <<c, d>>
           u == <<a, b, c, d>>
<1>1. /\ s \in Seq(S) /\ Len(s) = 2 /\ s[1] = a /\ s[2] = b
      /\ t \in Seq(S) /\ Len(t) = 2 /\ t[1] = c /\ t[2] = d
      /\ u \in Seq(S) /\ Len(u) = 4 /\ u[1] = a /\ u[2] = b /\ u[3] = c /\ u[4] = d
    OBVIOUS
<1> HIDE DEF s, t, u
<1>a. /\ s \o t \in Seq(S) /\ Len(s \o t) = Len(s) + Len(t)
      /\ \A i \in 1 .. Len(s) + Len(t) :
            (s \o t)[i] = IF i <= Len(s) THEN s[i] ELSE t[i - Len(s)]
    <2>1. s \in Seq(S) /\ t \in Seq(S)
        BY <1>1
    <2> QED BY ONLY <2>1, ConcatProperties
<1>2. /\ s \o t \in Seq(S) /\ Len(s \o t) = 4
      /\ (s \o t)[1] = a /\ (s \o t)[2] = b /\ (s \o t)[3] = c /\ (s \o t)[4] = d
    BY <1>1, <1>a
<1>3. ASSUME NEW i \in 1 .. 4 PROVE (s \o t)[i] = u[i]
    <2>1. i = 1 \/ i = 2 \/ i = 3 \/ i = 4
        OBVIOUS
    <2> QED BY <2>1, <1>1, <1>2
<1>4. s \o t = u
    BY <1>1, <1>2, <1>3, SeqEqual
<1> QED BY <1>4 DEF s, t, u

\* Four and one
LEMMA FourAndOne ==
    ASSUME NEW S, NEW a \in S, NEW b \in S, NEW c \in S, NEW d \in S, NEW e \in S
    PROVE  <<a, b, c, d>> \o <<e>> = <<a, b, c, d, e>>
<1> DEFINE s == <<a, b, c, d>>
           t == <<e>>
           u == <<a, b, c, d, e>>
<1>1. /\ s \in Seq(S) /\ Len(s) = 4 /\ s[1] = a /\ s[2] = b /\ s[3] = c /\ s[4] = d
      /\ t \in Seq(S) /\ Len(t) = 1 /\ t[1] = e
      /\ u \in Seq(S) /\ Len(u) = 5 /\ u[1] = a /\ u[2] = b /\ u[3] = c /\ u[4] = d /\ u[5] = e
    OBVIOUS
<1> HIDE DEF s, t, u
<1>a. /\ s \o t \in Seq(S) /\ Len(s \o t) = Len(s) + Len(t)
      /\ \A i \in 1 .. Len(s) + Len(t) :
            (s \o t)[i] = IF i <= Len(s) THEN s[i] ELSE t[i - Len(s)]
    <2>1. s \in Seq(S) /\ t \in Seq(S)
        BY <1>1
    <2> QED BY ONLY <2>1, ConcatProperties
<1>2. /\ s \o t \in Seq(S) /\ Len(s \o t) = 5
      /\ (s \o t)[1] = a /\ (s \o t)[2] = b /\ (s \o t)[3] = c /\ (s \o t)[4] = d
      /\ (s \o t)[5] = e
    BY <1>1, <1>a
<1>3. ASSUME NEW i \in 1 .. 5 PROVE (s \o t)[i] = u[i]
    <2>1. i = 1 \/ i = 2 \/ i = 3 \/ i = 4 \/ i = 5
        OBVIOUS
    <2> QED BY <2>1, <1>1, <1>2
<1>4. s \o t = u
    BY <1>1, <1>2, <1>3, SeqEqual
<1> QED BY <1>4 DEF s, t, u

\* One and one, or none and one
LEMMA OneAndOne ==
    ASSUME NEW S, NEW a \in S, NEW b \in S
    PROVE  <<a>> \o <<b>> = <<a, b>> /\ <<>> \o <<b>> = <<b>>
<1> DEFINE s == <<a>>
           t == <<b>>
           u == <<a, b>>
<1>1. /\ s \in Seq(S) /\ Len(s) = 1 /\ s[1] = a
      /\ t \in Seq(S) /\ Len(t) = 1 /\ t[1] = b
      /\ u \in Seq(S) /\ Len(u) = 2 /\ u[1] = a /\ u[2] = b
    OBVIOUS
<1> HIDE DEF s, t, u
<1>2. s \o t \in Seq(S) /\ Len(s \o t) = 2 /\ (s \o t)[1] = a /\ (s \o t)[2] = b
    BY <1>1, ConcatProperties
<1>3. ASSUME NEW i \in 1 .. 2 PROVE (s \o t)[i] = u[i]
    <2>1. i = 1 \/ i = 2
        OBVIOUS
    <2> QED BY <2>1, <1>1, <1>2
<1>4. s \o t = u
    BY <1>1, <1>2, <1>3, SeqEqual
<1>5. <<>> \o t = t
    BY <1>1, ConcatEmptySeq
<1> QED BY <1>4, <1>5 DEF s, t, u

\* What stop() and start() put before what the loop goes on with
LEMMA StopShapes ==
    ASSUME NEW e \in {"read", "unmap", "accept"}
    PROVE  /\ state_ = "stopped" => Stop \o <<e>> = <<e>>
           /\ state_ # "stopped" => Stop \o <<e>> = <<"halt", "clear", "reset", "zero", e>>
           /\ state_ = "playing" => Start \o <<e>> = <<e>>
           /\ state_ # "playing" => Start \o <<e>> = <<"play", "zero", "look", "arm", e>>
<1>0. /\ "play" \in Steps /\ "arm" \in Steps /\ "halt" \in Steps /\ "clear" \in Steps
      /\ "reset" \in Steps /\ "zero" \in Steps /\ "look" \in Steps /\ e \in Steps
    BY DEF Steps
<1>1. <<>> \o <<e>> = <<e>>
    BY <1>0, OneAndOne
<1>2. <<"halt", "clear", "reset", "zero">> \o <<e>> = <<"halt", "clear", "reset", "zero", e>>
    BY <1>0, FourAndOne
<1>3. <<"play", "zero", "look", "arm">> \o <<e>> = <<"play", "zero", "look", "arm", e>>
    BY <1>0, FourAndOne
<1> QED BY <1>1, <1>2, <1>3 DEF Stop, Start

\* What check() and a map put before what the loop goes on with
LEMMA CheckShapes ==
    /\ <<"enqueue", "set">> \o <<"arm", "read">> = <<"enqueue", "set", "arm", "read">>
    /\ <<"fds">> \o <<"read">> = <<"fds", "read">>
<1>0. "arm" \in Steps /\ "read" \in Steps /\ "enqueue" \in Steps /\ "set" \in Steps /\ "fds" \in Steps
    BY DEF Steps
<1> QED BY <1>0, TwoAndTwo, OneAndOne

-----------------------------------------------------------------------------
(* The control: steps of the player *)

\* The callback is out of the player while the loop is in it.
LEMMA NoOverlap ==
    ASSUME KeepsApart, loop' \in Inside
    PROVE  callback' \in {"idle", "post"}
<1>1. \E i \in 1 .. Len(loop') : loop'[i] \in PlayerSteps
    BY Apart
<1> QED BY <1>1 DEF KeepsApart, Overlap, PlayerSteps

\* What a step of the loop that leaves the client alone has to keep
LEMMA LoopKeeps ==
    ASSUME ControlInv, KeepsApart, due' \in BOOLEAN, UNCHANGED <<clientVars, serverVars, callback, buffer_, fault>>,
           DataTypes', Len(heard') > 0, LoopOK', loop # Awaiting, loop' # Awaiting,
           queue' \in Seq(Fitting), \A i \in 1 .. Len(queue') : queue'[i].of = buffer_,
           state_' = "stopped" /\ loop' \notin Clearing => queue' = <<>>,
           state_' = "playing" => buffer_ # 0,
           state_' = state_ \/ state_' = "playing" \/ loop' \in Inside,
           found'["audio"] = found["audio"],
           loop' \in Enqueuing \cup Setting =>
                found'["loop"] \in Fitting /\ found'["loop"].of = buffer_
    PROVE  ControlInv'
<1> USE DEF clientVars, serverVars
<1>1. CallbackOK'
    <2>1. loop' \in Inside => callback' \in {"idle", "post"}
        BY NoOverlap
    <2> QED BY <2>1 DEF ControlInv, CallbackOK, LoopOK
<1>2. FoundOK'
    BY DEF ControlInv, FoundOK
<1>3. SockOK'
    BY DEF ControlInv, SockOK, Codes
<1>4. CountsOK'
    BY DEF ControlInv, CountsOK
<1>5. QueueOK' /\ BufferSafe'
    BY DEF ControlInv, QueueOK, BufferSafe
<1> QED BY <1>1, <1>2, <1>3, <1>4, <1>5 DEF ControlInv

\* A place that is put at the end
LEMMA QueueAppend ==
    ASSUME QueueOK, BufferSafe, NEW p \in Fitting, p.of = buffer_
    PROVE  /\ Append(queue, p) \in Seq(Fitting)
           /\ \A i \in 1 .. Len(Append(queue, p)) : Append(queue, p)[i].of = buffer_
    BY AppendProperties DEF QueueOK, BufferSafe

\* The first group of a sequence decides what is said of it.
LEMMA LoopOutside ==
    ASSUME NEW s \in Outside
    PROVE  s \notin Halting \cup Clearing \cup Resetting \cup Zeroing \cup Beginning \cup Started
                    \cup Enqueuing \cup Setting
    BY Apart DEF Inside

\* The steps of the loop in the player keep the control.
LEMMA LoopControl ==
    ASSUME ControlInv, KeepsApart, due' \in BOOLEAN, UNCHANGED <<clientVars, serverVars>>,
           LoopStep \/ Timeout
    PROVE  ControlInv'
<1> USE DEF clientVars, serverVars
<1>a. /\ UNCHANGED <<clientVars, serverVars>> /\ (LoopStep \/ Timeout)
      /\ LoopOK /\ FoundOK /\ QueueOK /\ BufferSafe /\ TypeOK /\ DataTypes /\ Len(heard) > 0
    BY ControlTypes DEF ControlInv, CountsOK
<1>b. DataTypes'
    BY <1>a, PlayerTypes
<1>c. /\ queue \in Seq(Fitting) /\ \A i \in 1 .. Len(queue) : queue[i].of = buffer_
      /\ loop \in Inside \cup Outside
    BY <1>a DEF QueueOK, BufferSafe, LoopOK
<1>d. /\ UNCHANGED <<buffer_, callback, heard, fault>>
      /\ found'["audio"] = found["audio"]
    BY <1>a DEF LoopStep, LoopPlay, LoopArm, LoopHalt, LoopClear, LoopReset, LoopZero,
                LoopCheck, Look, Enqueue, SetPlaying, Timeout, Step, DataTypes
<1>e. Awaiting \notin Inside /\ Awaiting # <<>> /\ Awaiting # <<"read">>
      /\ Awaiting # <<"arm", "read">> /\ Awaiting # <<"unmap">>
    BY Apart DEF Outside, Awaiting
<1>f. SUFFICES
        /\ LoopOK' /\ loop # Awaiting /\ loop' # Awaiting
        /\ queue' \in Seq(Fitting) /\ \A i \in 1 .. Len(queue') : queue'[i].of = buffer_
        /\ state_' = "stopped" /\ loop' \notin Clearing => queue' = <<>>
        /\ state_' = "playing" => buffer_ # 0
        /\ state_' = state_ \/ state_' = "playing" \/ loop' \in Inside
        /\ loop' \in Enqueuing \cup Setting =>
                found'["loop"] \in Fitting /\ found'["loop"].of = buffer_
    BY <1>a, <1>b, <1>d, LoopKeeps
<1>1. CASE LoopPlay
    <2>1. loop \in Beginning /\ loop' \in Started
        BY <1>1, <1>c, NextSteps DEF LoopPlay, Step
    <2>2. loop' \notin Halting \cup Clearing \cup Resetting \cup Zeroing \cup Beginning
                       \cup Enqueuing \cup Setting
          /\ loop' \in Inside /\ loop \in Inside
        BY <2>1, Distinct DEF Inside
    <2>3. buffer_ # 0 /\ connected_
        BY <1>a, <2>1, <2>2, Apart DEF LoopOK, Outside
    <2>4. LoopOK'
        BY <1>1, <2>1, <2>2, <2>3, <1>a, Apart DEF LoopOK, LoopPlay, Outside
    <2> QED BY <1>1, <1>c, <1>e, <2>2, <2>3, <2>4 DEF LoopPlay
<1>2. CASE LoopArm
    <2>1. loop = <<"arm", "read">> /\ loop' = <<"read">>
        BY <1>2, <1>c, NextSteps DEF LoopArm, Step
    <2>2. loop \in Outside /\ loop' \in Outside
        BY <2>1 DEF Outside
    <2>3. connected_
        BY <1>a, <2>1 DEF LoopOK
    <2>4. LoopOK'
        BY <1>2, <2>1, <2>2, <2>3, <1>a, LoopOutside DEF LoopOK, LoopArm
    <2> QED BY <1>2, <1>a, <1>c, <1>e, <2>1, <2>2, <2>4, LoopOutside DEF LoopArm, QueueOK
<1>3. CASE LoopHalt
    <2>1. loop \in Halting /\ loop' \in Clearing
        BY <1>3, <1>c, NextSteps DEF LoopHalt, Step
    <2>2. /\ loop' \notin Halting \cup Beginning \cup Started \cup Enqueuing \cup Setting
          /\ loop' \in Inside /\ loop \in Inside
        BY <2>1, Distinct DEF Inside
    <2>3. connected_ /\ buffer_ # 0
        BY <1>a, <2>1, <2>2, Apart DEF LoopOK, Outside, QueueOK
    <2>4. LoopOK'
        BY <1>3, <2>1, <2>2, <2>3, <1>a, Apart DEF LoopOK, LoopHalt, Outside
    <2> QED BY <1>3, <1>c, <1>e, <2>1, <2>2, <2>4 DEF LoopHalt
<1>4. CASE LoopClear
    <2>1. loop \in Clearing /\ loop' \in Resetting
        BY <1>4, <1>c, NextSteps DEF LoopClear, Step
    <2>2. /\ loop' \notin Halting \cup Beginning \cup Started \cup Enqueuing \cup Setting
          /\ loop' \in Inside /\ loop \in Inside
        BY <2>1, Distinct DEF Inside
    <2>3. connected_ /\ state_ = "stopped" /\ buffer_ # 0
        BY <1>a, <2>1, <2>2, Apart DEF LoopOK, Outside
    <2>4. LoopOK'
        BY <1>4, <2>1, <2>2, <2>3, <1>a, Apart DEF LoopOK, LoopClear, Outside
    <2>5. queue' = <<>> /\ queue' \in Seq(Fitting)
        BY <1>4, EmptySeq DEF LoopClear
    <2> QED BY <1>4, <1>e, <2>2, <2>3, <2>4, <2>5 DEF LoopClear
<1>5. CASE LoopReset
    <2>1. loop \in Resetting /\ loop' \in Zeroing
        BY <1>5, <1>c, NextSteps DEF LoopReset, Step
    <2>2. /\ loop' \notin Halting \cup Clearing \cup Beginning \cup Started \cup Enqueuing
                          \cup Setting
          /\ loop' \in Inside /\ loop \in Inside /\ loop \notin Clearing
        BY <2>1, Distinct DEF Inside
    <2>3. connected_ /\ state_ = "stopped"
        BY <1>a, <2>1, <2>2, Apart DEF LoopOK, Outside
    <2>4. LoopOK'
        BY <1>5, <2>1, <2>2, <2>3, <1>a, Apart DEF LoopOK, LoopReset, Outside
    <2> QED BY <1>5, <1>a, <1>c, <1>e, <2>2, <2>3, <2>4 DEF LoopReset, QueueOK
<1>6. CASE LoopZero
    <2>0. \/ loop \in Zeroing /\ loop' \in {<<"read">>, <<"unmap">>}
          \/ loop \in Started /\ loop' = <<"look", "arm", "read">>
        BY <1>6, <1>c, NextSteps DEF LoopZero, Step
    <2>1. CASE loop \in Zeroing /\ loop' \in {<<"read">>, <<"unmap">>}
        <3>2. /\ loop' \in Outside /\ loop \in Inside /\ loop \notin Clearing
            BY <2>1, Distinct DEF Inside, Outside
        <3>3. connected_ /\ state_ = "stopped"
            BY <1>a, <2>1, <3>2, Apart DEF LoopOK, Outside
        <3>4. LoopOK'
            BY <1>6, <2>1, <3>2, <3>3, <1>a, LoopOutside DEF LoopOK, LoopZero
        <3> QED BY <1>6, <1>a, <1>c, <1>e, <2>1, <3>2, <3>3, <3>4, LoopOutside DEF LoopZero, QueueOK
    <2>2. CASE loop \in Started /\ loop' = <<"look", "arm", "read">>
        <3>2. /\ loop' \in Started
              /\ loop' \notin Halting \cup Clearing \cup Resetting \cup Zeroing \cup Beginning
                         \cup Enqueuing \cup Setting
              /\ loop' \in Inside /\ loop \in Inside
            <4>1. loop' \in Started
                BY <2>2 DEF Started
            <4> QED BY <4>1, <2>2, Distinct DEF Inside
        <3>3. connected_ /\ state_ = "playing" /\ buffer_ # 0
            BY <1>a, <2>2, <3>2, Apart DEF LoopOK, Outside, QueueOK
        <3>4. LoopOK'
            BY <1>6, <2>2, <3>2, <3>3, <1>a, Apart DEF LoopOK, LoopZero, Outside
        <3> QED BY <1>6, <1>a, <1>c, <1>e, <3>2, <3>3, <3>4 DEF LoopZero
    <2> QED BY <2>0, <2>1, <2>2
<1>7. CASE loop # <<>> /\ Head(loop) = "look" /\ LoopCheck
    <2>1. /\ loop \in Started /\ Tail(loop) = <<"arm", "read">> /\ Look("loop")
          /\ loop' = (IF Found = Nothing THEN <<>> ELSE <<"enqueue", "set">>) \o Tail(loop)
        BY <1>7, <1>c, NextSteps DEF LoopCheck, Step
    <2>2. connected_ /\ state_ = "playing" /\ buffer_ # 0 /\ loop \in Inside
        BY <1>a, <2>1, Apart DEF LoopOK, Outside, QueueOK, Inside
    <2>3. CASE Found = Nothing
        <3>1. loop' = <<"arm", "read">>
            BY <2>1, <2>3
        <3>2. loop' \in Outside
            BY <3>1 DEF Outside
        <3>4. LoopOK'
            <4>1. connected_' /\ state_' = "playing"
                BY <1>a, <2>1, <2>2 DEF Look
            <4> QED BY <3>1, <3>2, <4>1, LoopOutside DEF LoopOK
        <3> QED BY <1>c, <1>e, <2>1, <2>2, <3>1, <3>2, <3>4, LoopOutside DEF Look
    <2>4. CASE Found # Nothing
        <3>1. loop' = <<"enqueue", "set", "arm", "read">>
            BY <2>1, <2>4, CheckShapes
        <3>2. /\ loop' \in Enqueuing
              /\ loop' \notin Halting \cup Clearing \cup Resetting \cup Zeroing
                              \cup Beginning \cup Started
              /\ loop' \in Inside
            <4>1. loop' \in Enqueuing
                BY <3>1 DEF Enqueuing
            <4> QED BY <4>1, Distinct DEF Inside
        <3>3. found'["loop"] \in Fitting /\ found'["loop"].of = buffer_
            BY <1>a, <2>1, <2>4, FoundFacts DEF Look, DataTypes
        <3>4. LoopOK'
            <4>1. loop' \notin Outside
                BY <3>2, Apart
            <4>2. loop' # <<"accept">> /\ loop' # <<"unmap">>
                BY <4>1 DEF Outside
            <4>3. connected_' /\ state_' = "playing"
                BY <1>a, <2>1, <2>2 DEF Look
            <4> QED BY <3>2, <4>2, <4>3 DEF LoopOK
        <3> QED BY <1>c, <1>e, <2>1, <2>2, <3>2, <3>3, <3>4 DEF Look
    <2> QED BY <2>3, <2>4
<1>8. CASE Step("enqueue") /\ Enqueue("loop")
    <2>1. loop \in Enqueuing /\ loop' \in Setting
        BY <1>8, <1>c, NextSteps DEF Step
    <2>2. /\ loop' \notin Halting \cup Clearing \cup Resetting \cup Zeroing \cup Beginning
                          \cup Started
          /\ loop' \in Inside /\ loop \in Inside
        BY <2>1, Distinct DEF Inside
    <2>3. connected_ /\ state_ = "playing" /\ buffer_ # 0
        BY <1>a, <2>1, <2>2, Apart DEF LoopOK, Outside, QueueOK
    <2>4. LoopOK'
        BY <1>8, <2>1, <2>2, <2>3, <1>a, Apart DEF LoopOK, Enqueue, Outside
    <2>5. found["loop"] \in Fitting /\ found["loop"].of = buffer_ /\ found' = found
        BY <1>8, <1>a, <2>1 DEF FoundOK, Enqueue
    <2>6. queue' \in Seq(Fitting) /\ \A i \in 1 .. Len(queue') : queue'[i].of = buffer_
        BY <1>8, <1>a, <2>5, QueueAppend DEF Enqueue
    <2> QED BY <1>8, <1>e, <2>2, <2>3, <2>4, <2>5, <2>6 DEF Enqueue
<1>9. CASE Step("set") /\ SetPlaying("loop")
    <2>1. loop \in Setting /\ loop' \in {<<>>, <<"arm", "read">>}
        BY <1>9, <1>c, NextSteps DEF Step
    <2>2. loop' \in Outside /\ loop \in Inside
        BY <2>1 DEF Inside, Outside
    <2>3. connected_ /\ state_ = "playing" /\ buffer_ # 0
        BY <1>a, <2>1, <2>2, Apart DEF LoopOK, Outside, QueueOK
    <2>4. LoopOK'
        <3>1. connected_' /\ state_' = "playing"
            BY <1>9, <1>a, <2>3 DEF SetPlaying
        <3>2. loop' # <<"accept">> /\ loop' # <<"unmap">>
            BY <2>1
        <3> QED BY <2>2, <3>1, <3>2, LoopOutside DEF LoopOK
    <2> QED BY <1>9, <1>c, <1>e, <2>1, <2>2, <2>3, <2>4, LoopOutside DEF SetPlaying
<1>10. CASE Timeout /\ Found = Nothing
    <2>1. loop = <<>> /\ loop' = <<>> /\ Look("loop")
        BY <1>10 DEF Timeout
    <2>2. loop' \in Outside
        BY <2>1 DEF Outside
    <2>3. LoopOK'
        BY <2>1, <2>2, <1>a, LoopOutside DEF LoopOK, Look
    <2> QED BY <1>a, <1>c, <1>e, <2>1, <2>2, <2>3, LoopOutside DEF Look, QueueOK
<1>11. CASE Timeout /\ Found # Nothing
    <2>1. /\ loop = <<>> /\ loop' = <<"enqueue", "set">> /\ Found # Nothing /\ Look("loop")
        BY <1>11 DEF Timeout
    <2>2. /\ state_ = "playing" /\ buffer_ # 0 /\ found'["loop"] \in Fitting
          /\ found'["loop"].of = buffer_
        BY <1>a, <2>1, FoundFacts DEF Look, DataTypes
    <2>3. connected_
        BY <2>2 DEF ControlInv, SockOK
    <2>4. /\ loop' \in Enqueuing
          /\ loop' \notin Halting \cup Clearing \cup Resetting \cup Zeroing \cup Beginning
                          \cup Started
          /\ loop' \in Inside
        <3>1. loop' \in Enqueuing
            BY <2>1 DEF Enqueuing
        <3> QED BY <3>1, Distinct DEF Inside
    <2>5. LoopOK'
        BY <2>1, <2>2, <2>3, <2>4, <1>a, Apart DEF LoopOK, Look, Outside
    <2> QED BY <1>c, <1>e, <2>1, <2>2, <2>4, <2>5 DEF Look
<1> QED BY <1>a, <1>1, <1>2, <1>3, <1>4, <1>5, <1>6, <1>7, <1>8, <1>9, <1>10, <1>11
       DEF LoopStep, LoopCheck

\* A loop that is blocked in the timer's read has left all as it was.
LEMMA TimerControl ==
    ASSUME ControlInv, KeepsApart, due' \in BOOLEAN, UNCHANGED <<clientVars, serverVars>>,
           TimerBlocks
    PROVE  ControlInv'
<1> USE DEF clientVars, serverVars
<1>1. /\ loop = <<>> /\ loop' = <<"expire">>
      /\ UNCHANGED <<state_, playing_, buffer_, timer, shm, callback, register, found, posts,
                     device, queue, heard, fault, upset>>
    BY DEF TimerBlocks, KeepsApart
<1>2. /\ loop \in Outside /\ loop' \in Outside /\ loop # Awaiting /\ loop' # Awaiting
      /\ loop' # <<"accept">> /\ loop' # <<"unmap">>
    BY <1>1 DEF Outside, Awaiting
<1>3. DataTypes'
    BY <1>1 DEF ControlInv, DataTypes
<1>4. LoopOK'
    BY <1>1, <1>2, LoopOutside DEF LoopOK
<1>5. SockOK'
    BY <1>1, <1>2 DEF ControlInv, SockOK, Codes
<1>6. FoundOK' /\ CallbackOK' /\ CountsOK'
    BY <1>1, <1>2, LoopOutside DEF ControlInv, FoundOK, CallbackOK, CountsOK
<1>7. QueueOK' /\ BufferSafe'
    BY <1>1, <1>2, LoopOutside DEF ControlInv, QueueOK, BufferSafe
<1> QED BY <1>3, <1>4, <1>5, <1>6, <1>7 DEF ControlInv

\* The sound system and the callback keep the control.
LEMMA CallbackControl ==
    ASSUME ControlInv, KeepsApart, due' \in BOOLEAN, UNCHANGED <<clientVars, serverVars>>,
           Play \/ CallbackStep
    PROVE  ControlInv'
<1> USE DEF clientVars, serverVars
<1>a. /\ UNCHANGED <<clientVars, serverVars>> /\ (Play \/ CallbackStep)
      /\ LoopOK /\ FoundOK /\ QueueOK /\ BufferSafe /\ TypeOK /\ DataTypes /\ CallbackOK
      /\ CountsOK /\ SockOK
    BY ControlTypes DEF ControlInv
<1>b. DataTypes'
    BY <1>a, PlayerTypes
<1>c. UNCHANGED <<state_, buffer_, loop, timer>> /\ found'["loop"] = found["loop"]
    BY <1>a DEF Play, CallbackStep, CallbackState, CallbackLoad, CallbackStore, CallbackClear,
                CallbackCheck, CallbackPost, Goes, Look, Enqueue, SetPlaying, DataTypes
<1>d. LoopOK' /\ SockOK'
    BY <1>a, <1>c DEF LoopOK, SockOK, Codes
<1>e. loop \in Inside => callback' \in {"idle", "post"}
    BY <1>a, <1>c, NoOverlap
<1>1. CASE Play
    <2>1. loop \in Outside /\ state_ = "playing" /\ queue # <<>> /\ device
        BY <1>1, <1>a, <1>e DEF Play, LoopOK, QueueOK, Inside, DataTypes
    <2>2. CallbackOK' /\ FoundOK'
        BY <1>1, <1>a, <1>c, <2>1 DEF Play, CallbackOK, FoundOK
    <2>3. /\ queue' \in Seq(Fitting) /\ Head(queue) = queue[1] /\ 1 \in 1 .. Len(queue)
          /\ Len(queue') = Len(queue) - 1
          /\ \A i \in 1 .. Len(queue') : queue'[i] = queue[i + 1]
        BY <1>1, <1>a, <2>1, HeadTailProperties, LenProperties DEF Play, QueueOK
    <2>4. queue[1].of = buffer_ /\ \A i \in 1 .. Len(queue') : queue'[i].of = buffer_
        <3>1. ASSUME NEW i \in 1 .. Len(queue') PROVE queue'[i].of = buffer_
            <4>1. i + 1 \in 1 .. Len(queue)
                BY <2>3, <1>a, LenProperties DEF QueueOK
            <4> QED BY <2>3, <4>1, <1>a DEF BufferSafe
        <3> QED BY <2>3, <3>1, <1>a DEF BufferSafe
    <2>5. UNCHANGED fault /\ heard' = <<Last(heard)>> \o Bytes(shm, Head(queue).at, Head(queue).n)
        BY <1>1, <2>3, <2>4 DEF Play
    <2>6. QueueOK' /\ BufferSafe'
        BY <1>a, <1>c, <2>1, <2>3, <2>4, <2>5 DEF QueueOK, BufferSafe
    <2>7. Len(heard') > 0
        <3>1. heard' # <<>> /\ heard' \in Seq(0 .. MaxBytes)
            BY <1>b, <2>5 DEF DataTypes
        <3> QED BY <3>1, LenProperties
    <2> QED BY <1>a, <1>b, <1>d, <2>2, <2>6, <2>7 DEF ControlInv, CountsOK
<1>2. CASE CallbackStep
    <2>a. heard' = heard /\ CountsOK'
        BY <1>2, <1>a DEF CallbackStep, CallbackState, CallbackLoad, CallbackStore, CallbackClear,
                CallbackCheck, CallbackPost, Look, Enqueue, SetPlaying, CountsOK
    <2>b. SUFFICES CallbackOK' /\ FoundOK' /\ QueueOK' /\ BufferSafe'
        BY <1>b, <1>d, <2>a DEF ControlInv
    <2>c. callback \notin {"idle", "post"} => buffer_ # 0 /\ state_ = "playing" /\ loop \in Outside
        BY <1>a DEF CallbackOK, QueueOK
    <2>d. loop \in Outside => loop \notin Enqueuing \cup Setting
        BY LoopOutside
    <2>1. CASE CallbackState
        BY <1>a, <1>c, <2>1, <2>c, <2>d DEF CallbackState, Goes, CallbackOK, FoundOK, QueueOK,
           BufferSafe
    <2>2. CASE CallbackLoad
        BY <1>a, <1>c, <2>2, <2>c, <2>d DEF CallbackLoad, Goes, CallbackOK, FoundOK, QueueOK,
           BufferSafe
    <2>3. CASE CallbackStore
        BY <1>a, <1>c, <2>3, <2>c, <2>d DEF CallbackStore, Goes, CallbackOK, FoundOK, QueueOK,
           BufferSafe
    <2>4. CASE CallbackClear
        BY <1>a, <1>c, <2>4, <2>c, <2>d DEF CallbackClear, Goes, CallbackOK, FoundOK, QueueOK,
           BufferSafe
    <2>5. CASE callback = "look" /\ CallbackCheck
        <3>1. /\ callback' = (IF Found = Nothing THEN "post" ELSE "enqueue") /\ Look("audio")
            BY <2>5 DEF CallbackCheck, Goes
        <3>2. Found # Nothing => found'["audio"] \in Fitting /\ found'["audio"].of = buffer_
            BY <1>a, <3>1, FoundFacts DEF Look, DataTypes
        <3> QED BY <1>a, <1>c, <2>5, <2>c, <2>d, <3>1, <3>2 DEF Look, CallbackOK, FoundOK,
                   QueueOK, BufferSafe
    <2>6. CASE callback = "enqueue" /\ CallbackCheck
        <3>1. callback' = "set" /\ Enqueue("audio")
            BY <2>6 DEF CallbackCheck, Goes
        <3>2. found["audio"] \in Fitting /\ found["audio"].of = buffer_
            BY <1>a, <2>6 DEF FoundOK
        <3>3. queue' \in Seq(Fitting) /\ \A i \in 1 .. Len(queue') : queue'[i].of = buffer_
            BY <1>a, <3>1, <3>2, QueueAppend DEF Enqueue
        <3> QED BY <1>a, <1>c, <2>6, <2>c, <2>d, <3>1, <3>2, <3>3 DEF Enqueue, CallbackOK,
                   FoundOK, QueueOK, BufferSafe
    <2>7. CASE callback = "set" /\ CallbackCheck
        <3>1. callback' = "post" /\ SetPlaying("audio")
            BY <2>7 DEF CallbackCheck, Goes
        <3> QED BY <1>a, <1>c, <2>7, <2>c, <2>d, <3>1 DEF SetPlaying, CallbackOK, FoundOK,
                   QueueOK, BufferSafe
    <2>8. CASE CallbackPost
        BY <1>a, <1>c, <2>8, <2>c, <2>d DEF CallbackPost, Goes, CallbackOK, FoundOK, QueueOK,
           BufferSafe
    <2> QED BY <1>2, <2>1, <2>2, <2>3, <2>4, <2>5, <2>6, <2>7, <2>8 DEF CallbackStep,
               CallbackCheck, Goes
<1> QED BY <1>a, <1>1, <1>2

-----------------------------------------------------------------------------
(* The control: steps of the client *)

\* A code that is sent is the last one.
LEMMA CodeSent ==
    ASSUME DataTypes, NEW code \in {"map", "fds", "start", "stop"}, Send(code)
    PROVE  /\ Len(sock) \in Nat /\ Len(sock') = Len(sock) + 1 /\ sock' # <<>>
           /\ sock'[Len(sock) + 1] = code
           /\ \A i \in 1 .. Len(sock) : sock'[i] = sock[i]
           /\ sock = <<>> <=> Len(sock) = 0
<1> DEFINE C == {"map", "fds", "start", "stop"}
<1>1. sock \in Seq(C) /\ code \in C /\ sock' = Append(sock, code)
    BY DEF DataTypes, Send
<1> HIDE DEF C
<1>2. /\ Len(sock') = Len(sock) + 1 /\ sock'[Len(sock) + 1] = code
      /\ \A i \in 1 .. Len(sock) : sock'[i] = sock[i]
    BY <1>1, AppendProperties
<1>3. Len(sock) \in Nat /\ (sock = <<>> <=> Len(sock) = 0)
    BY <1>1, LenProperties, EmptySeq
<1>4. sock' # <<>>
    BY <1>1, AppendProperties
<1> QED BY <1>2, <1>3, <1>4

\* The first one is read.
LEMMA CodeRead ==
    ASSUME DataTypes, sock # <<>>, sock' = Tail(sock)
    PROVE  /\ Len(sock) \in Nat /\ Len(sock') = Len(sock) - 1 /\ Len(sock) > 0
           /\ sock' \in Seq({"map", "fds", "start", "stop"})
           /\ \A i \in 1 .. Len(sock') : sock'[i] = sock[i + 1]
           /\ Head(sock) = sock[1] /\ sock[1] \in {"map", "fds", "start", "stop"}
           /\ sock' = <<>> <=> Len(sock') = 0
<1> DEFINE C == {"map", "fds", "start", "stop"}
<1>1. sock \in Seq(C)
    BY DEF DataTypes
<1> HIDE DEF C
<1>2. /\ Len(sock) \in Nat /\ Len(sock) > 0 /\ Head(sock) = sock[1] /\ sock' \in Seq(C)
      /\ Len(sock') = Len(sock) - 1 /\ \A i \in 1 .. Len(sock') : sock'[i] = sock[i + 1]
    BY <1>1, HeadTailProperties, LenProperties, EmptySeq
<1>3. sock[1] \in C
    <2>1. 1 \in 1 .. Len(sock)
        BY <1>2
    <2> QED BY <1>1, <2>1, ElementOfSeq
<1>4. sock' = <<>> <=> Len(sock') = 0
    BY <1>2, EmptySeq
<1> QED BY <1>2, <1>3, <1>4 DEF C

\* What a step of the client has to keep
LEMMA ClientKeeps ==
    ASSUME ControlInv, DataTypes', SockOK', UNCHANGED <<ringless, serverVars>>
    PROVE  ControlInv'
    BY DEF ringless, serverVars, ControlInv, LoopOK, FoundOK, CallbackOK, QueueOK, CountsOK,
           BufferSafe

\* The ring after a write is a ring.
LEMMA CopiedType ==
    ASSUME DataTypes, NEW n \in Nat \ {0}, Cell(shm.write) + n <= Size, next + n - 1 <= MaxBytes
    PROVE  /\ Copied(shm, next, n) \in [write : Nat, read : Nat, data : [Cells -> 0 .. MaxBytes]]
           /\ next + n \in 1 .. MaxBytes + 1
<1>1. shm.write \in Nat /\ next \in 1 .. MaxBytes + 1 /\ MaxBytes \in Nat
    BY AudioAssumption DEF DataTypes
<1>2. ASSUME NEW c \in Cells, c \in Cell(shm.write) .. Cell(shm.write) + n - 1
      PROVE  next + c - Cell(shm.write) \in 0 .. MaxBytes
    <2>1. Cell(shm.write) \in Nat /\ c \in Int /\ c >= Cell(shm.write)
          /\ c <= Cell(shm.write) + n - 1
        BY <1>1, <1>2, CellType, SizeAssumption DEF Cells
    <2> QED BY <1>1, <2>1
<1>3. [c \in Cells |-> IF c \in Cell(shm.write) .. Cell(shm.write) + n - 1
                       THEN next + c - Cell(shm.write) ELSE shm.data[c]]
        \in [Cells -> 0 .. MaxBytes]
    BY <1>2 DEF DataTypes
<1>4. next + n \in 1 .. MaxBytes + 1
    BY <1>1
<1> QED BY <1>3, <1>4 DEF DataTypes, Copied

\* The client's steps keep the types.
LEMMA ClientTypes ==
    ASSUME ControlInv, due' \in BOOLEAN, ClientRuns \/ ClientChooses \/ ClientLeaves
    PROVE  DataTypes'
<1> USE DEF ringless, serverVars
<1>a. DataTypes
    BY DEF ControlInv
<1>b. ASSUME Touches PROVE upset' \subseteq Reasons
    BY <1>a, <1>b DEF Touches, DataTypes, Reasons
<1>1. CASE SendCode /\ UNCHANGED <<shm, ringless, serverVars>>
    <2>1. sock' \in Seq({"map", "fds", "start", "stop"})
        BY <1>1, <1>a, SendType DEF SendCode
    <2> QED BY <1>1, <1>a, <2>1 DEF SendCode, DataTypes
<1>2. CASE SendFds /\ UNCHANGED <<shm, ringless, serverVars>>
    <2>1. sock' \in Seq({"map", "fds", "start", "stop"})
        BY <1>2, <1>a, SendType DEF SendFds
    <2> QED BY <1>2, <1>a, <2>1 DEF SendFds, DataTypes
<1>3. CASE Prepare /\ UNCHANGED <<shm, ringless, serverVars>>
    BY SMTT(30), <1>3, <1>a DEF Prepare, DataTypes, Pointers
<1>4. ASSUME NEW size \in 1 .. Size, WriteCopy(size), UNCHANGED <<ringless, serverVars>>
      PROVE  DataTypes'
    <2> DEFINE m == IF size > Period THEN Period ELSE size
               n == Contiguous(shm.write, m)
    <2>1. shm.write \in Nat /\ m \in Nat \ {0} /\ m <= Period
        BY <1>a, PeriodAssumption, SizeAssumption DEF DataTypes
    <2> HIDE DEF m
    <2>2. n \in Nat \ {0} /\ n <= m /\ Cell(shm.write) + n <= Size
        BY <2>1, Granted
    <2>3. n \in 0 .. Period
        BY <2>1, <2>2, PeriodAssumption
    <2>4. /\ next + n - 1 <= MaxBytes /\ shm' = Copied(shm, next, n) /\ next' = next + n
          /\ copied' = [at |-> shm.write, n |-> n] /\ client' = "copied" /\ Touches
          /\ UNCHANGED <<sock, words, alsa, stops, begins>>
        BY <1>4 DEF WriteCopy, m
    <2> HIDE DEF n
    <2>5. /\ shm' \in [write : Nat, read : Nat, data : [Cells -> 0 .. MaxBytes]]
          /\ next' \in 1 .. MaxBytes + 1
        BY <1>a, <2>2, <2>4, CopiedType
    <2>6. copied' \in [at : Nat, n : 0 .. Period]
        BY <2>1, <2>3, <2>4
    <2> QED BY <1>4, <1>a, <1>b, <2>4, <2>5, <2>6 DEF DataTypes
<1>5. CASE WriteFinish /\ UNCHANGED <<ringless, serverVars>>
    <2>1. PICK write \in {copied.at, shm.write} : shm' = [shm EXCEPT !.write = write + copied.n]
        BY <1>5 DEF WriteFinish
    <2>2. write + copied.n \in Nat /\ alsa.appl + copied.n \in Nat
        <3>1. copied.at \in Nat /\ copied.n \in Nat /\ shm.write \in Nat
            BY <1>a, PeriodAssumption DEF DataTypes
        <3>2. alsa.appl \in Nat
            BY <1>a DEF DataTypes, Pointers
        <3> QED BY <3>1, <3>2
    <2>3. /\ shm' \in [write : Nat, read : Nat, data : [Cells -> 0 .. MaxBytes]]
        BY <1>a, <2>1, <2>2 DEF DataTypes
    <2>4. alsa' \in Pointers
        BY <1>5, <1>a, <2>2 DEF WriteFinish, DataTypes, Pointers
    <2>5. copied' \in [at : Nat, n : 0 .. Period]
        BY <1>5, PeriodAssumption DEF WriteFinish
    <2> QED BY <1>5, <1>a, <1>b, <2>3, <2>4, <2>5 DEF WriteFinish, DataTypes
<1>6. CASE PointerReceive /\ UNCHANGED <<shm, ringless, serverVars>>
    BY <1>6, <1>a DEF PointerReceive, DataTypes
<1>7. CASE PointerRead /\ UNCHANGED <<shm, ringless, serverVars>>
    <2>1. shm.read \in Nat /\ alsa.hw \in Int /\ alsa.last \in Nat /\ alsa \in Pointers
        BY <1>a DEF DataTypes, Pointers
    <2>2. alsa.hw + (IF shm.read >= alsa.last THEN 0 ELSE Size) + shm.read - alsa.last \in Int
        BY <2>1, SizeAssumption
    <2>3. alsa' \in Pointers
        BY <1>7, <2>1, <2>2 DEF PointerRead, HwUpdated, Pointers
    <2> QED BY <1>7, <1>a, <1>b, <2>3 DEF PointerRead, DataTypes
<1>8. CASE PollRevents /\ UNCHANGED <<shm, ringless, serverVars>>
    BY <1>8, <1>a DEF PollRevents, DataTypes
<1>9. CASE SparkleStart /\ UNCHANGED <<shm, ringless, serverVars>>
    <2>1. sock' \in Seq({"map", "fds", "start", "stop"})
        BY <1>9, <1>a, SendType DEF SparkleStart
    <2> QED BY <1>9, <1>a, <2>1 DEF SparkleStart, DataTypes, Pointers
<1>10. CASE SparkleStop /\ UNCHANGED <<shm, ringless, serverVars>>
    <2>1. sock' \in Seq({"map", "fds", "start", "stop"})
        BY <1>10, <1>a, SendType DEF SparkleStop
    <2>2. stops' \in 0 .. MaxStops
        <3>1. stops \in 0 .. MaxStops /\ stops < MaxStops /\ stops' = stops + 1
            BY <1>10, <1>a DEF SparkleStop, DataTypes
        <3> QED BY <3>1, AudioAssumption
    <2>3. upset' \subseteq Reasons
        BY <1>10, <1>a DEF SparkleStop, DataTypes, Reasons
    <2>4. alsa' \in Pointers
        BY <1>10, <1>a DEF SparkleStop, DataTypes, Pointers
    <2> QED BY <1>10, <1>a, <2>1, <2>2, <2>3, <2>4 DEF SparkleStop, DataTypes
<1>11. CASE Leave /\ UNCHANGED <<shm, ringless, serverVars>>
    BY <1>11, <1>a DEF Leave, DataTypes
<1> QED BY <1>1, <1>2, <1>3, <1>4, <1>5, <1>6, <1>7, <1>8, <1>9, <1>10, <1>11
        DEF ClientRuns, ClientChooses, ClientLeaves

\* The client keeps the control: it sends its codes in order.
LEMMA ClientControl ==
    ASSUME ControlInv, due' \in BOOLEAN, ClientRuns \/ ClientChooses \/ ClientLeaves
    PROVE  ControlInv'
<1> USE DEF ringless, serverVars
<1>a. DataTypes /\ SockOK
    BY DEF ControlInv
<1>b. UNCHANGED <<ringless, serverVars>>
    BY DEF ClientRuns, ClientChooses, ClientLeaves
<1>c. SUFFICES SockOK'
    BY <1>b, ClientTypes, ClientKeeps
<1>1. CASE SendCode
    <2>1. sock = <<>> /\ buffer_ = 0 /\ loop # Awaiting /\ client' = "fds" /\ Send("map") /\ connected_
        BY <1>1, <1>a DEF SendCode, SockOK, DataTypes
    <2>2. Len(sock') = 1 /\ sock'[1] = "map" /\ sock' # <<>>
        BY <1>a, <2>1, CodeSent
    <2> QED BY <1>a, <1>b, <2>1, <2>2 DEF SockOK, Codes
<1>2. CASE SendFds
    <2>1. buffer_ = 0 /\ client' = "ready" /\ Send("fds") /\ connected_
        BY <1>2, <1>a DEF SendFds, SockOK, DataTypes
    <2>2. CASE loop = Awaiting
        <3>1. Len(sock) = 0
            BY <1>2, <1>a, <2>2 DEF SendFds, SockOK
        <3>2. Len(sock') = 1 /\ sock'[1] = "fds" /\ sock' # <<>>
            BY <1>a, <2>1, <3>1, CodeSent
        <3> QED BY <1>a, <1>b, <2>1, <2>2, <3>2 DEF SockOK, Codes
    <2>3. CASE loop # Awaiting
        <3>1. Len(sock) = 1 /\ sock[1] = "map"
            BY <1>2, <1>a, <2>1, <2>3 DEF SendFds, SockOK
        <3>2. Len(sock') = 2 /\ sock'[1] = "map" /\ sock'[2] = "fds" /\ sock' # <<>>
            BY <1>a, <2>1, <3>1, CodeSent
        <3> QED BY <1>a, <1>b, <2>1, <2>3, <3>2 DEF SockOK, Codes
    <2> QED BY <2>2, <2>3
<1>3. ASSUME NEW code \in {"start", "stop"}, Send(code), client = "ready", client' = client
      PROVE  SockOK'
    <2>1. /\ Len(sock) \in Nat /\ Len(sock') = Len(sock) + 1 /\ sock' # <<>>
          /\ sock'[Len(sock) + 1] = code
          /\ \A i \in 1 .. Len(sock) : sock'[i] = sock[i]
          /\ sock = <<>> <=> Len(sock) = 0
        BY <1>a, <1>3, CodeSent
    <2>2. ASSUME NEW k \in Nat, Codes(k) PROVE Codes(k)'
        BY <2>1, <2>2 DEF Codes
    <2>3. (Codes(0) => Codes(0)') /\ (Codes(1) => Codes(1)') /\ (Codes(2) => Codes(2)')
        BY <2>2
    <2>4. CASE buffer_ # 0
        BY <1>a, <1>b, <1>3, <2>3, <2>4 DEF SockOK
    <2>5. CASE buffer_ = 0 /\ loop = Awaiting
        <3>1. Len(sock) >= 1 /\ sock[1] = "fds" /\ Codes(1) /\ connected_
            BY <1>a, <1>3, <2>1, <2>5 DEF SockOK, DataTypes
        <3>2. sock'[1] = "fds" /\ Len(sock') >= 1
            BY <2>1, <3>1
        <3> QED BY <1>b, <1>3, <1>a, <2>3, <2>5, <3>1, <3>2 DEF SockOK
    <2>6. CASE buffer_ = 0 /\ loop # Awaiting
        <3>1. Len(sock) >= 2 /\ sock[1] = "map" /\ sock[2] = "fds" /\ Codes(2) /\ connected_
            BY <1>a, <1>3, <2>1, <2>6 DEF SockOK, DataTypes
        <3>2. sock'[1] = "map" /\ sock'[2] = "fds" /\ Len(sock') >= 2
            BY <2>1, <3>1
        <3> QED BY <1>b, <1>3, <1>a, <2>3, <2>6, <3>1, <3>2 DEF SockOK
    <2> QED BY <2>4, <2>5, <2>6
<1>4. CASE SparkleStart
    BY <1>3, <1>4 DEF SparkleStart
<1>5. CASE SparkleStop
    BY <1>3, <1>5 DEF SparkleStop
<1>6. ASSUME UNCHANGED sock, client \notin {"none", "code", "fds", "gone"},
             client' \notin {"none", "code", "fds"}
      PROVE  SockOK'
    BY <1>a, <1>b, <1>6 DEF SockOK, Codes
<1>7. CASE Prepare
    BY <1>6, <1>7 DEF Prepare
<1>8. CASE \E size \in 1 .. Size : WriteCopy(size)
    BY <1>6, <1>8 DEF WriteCopy
<1>9. CASE WriteFinish
    BY <1>6, <1>9 DEF WriteFinish
<1>10. CASE PointerReceive \/ PointerRead \/ PollRevents
    BY <1>6, <1>10 DEF PointerReceive, PointerRead, PollRevents
<1>11. CASE Leave
    BY <1>a, <1>b, <1>11 DEF Leave, SockOK, Codes
<1> QED BY <1>1, <1>2, <1>4, <1>5, <1>7, <1>8, <1>9, <1>10, <1>11
        DEF ClientRuns, ClientChooses, ClientLeaves

-----------------------------------------------------------------------------
(* The control: steps of the server *)

\* Where no ring is mapped, nothing plays.
LEMMA Unmapped ==
    ASSUME ControlInv, buffer_ = 0
    PROVE  /\ state_ = "stopped" /\ (loop \notin Clearing => queue = <<>>)
           /\ callback \in {"idle", "post"} /\ Stop = <<>>
    BY DEF ControlInv, QueueOK, CallbackOK, DataTypes, Stop

\* A client that connects waits to be accepted.
LEMMA ConnectControl ==
    ASSUME ControlInv, Connect
    PROVE  ControlInv'
<1> USE DEF playerVars, clientVars, Connect
<1>1. DataTypes'
    <2>1. opened \in Nat /\ session \in 0 .. opened /\ waiting \in 0 .. opened /\ MaxSessions \in Nat
        BY AudioAssumption DEF ControlInv, DataTypes
    <2>2. session' \in 0 .. opened' /\ waiting' \in 0 .. opened' /\ opened' \in 0 .. MaxSessions
        BY <2>1
    <2> QED BY <2>2 DEF ControlInv, DataTypes
<1>2. CountsOK'
    BY DEF ControlInv, DataTypes, CountsOK
<1>3. LoopOK'
    BY DEF ControlInv, LoopOK, DataTypes
<1> QED BY <1>1, <1>2, <1>3 DEF ControlInv, FoundOK, CallbackOK, QueueOK, SockOK, Codes, BufferSafe

\* An event of the loop's sockets, and the emission of played
LEMMA EventControl ==
    ASSUME ControlInv, KeepsApart, due' \in BOOLEAN,
           NewConnection \/ DataIn \/ Disconnected \/ Played
    PROVE  ControlInv'
<1>a. /\ LoopOK /\ FoundOK /\ QueueOK /\ BufferSafe /\ TypeOK /\ DataTypes /\ CallbackOK
      /\ CountsOK /\ SockOK
    BY ControlTypes DEF ControlInv
<1>b. /\ loop = <<>>
      /\ UNCHANGED <<state_, playing_, buffer_, timer, shm, callback, register, found,
                     device, queue, heard, fault, upset, connected_, session, opened, sock,
                     client, alsa, copied, next, stops, begins>>
    BY DEF NewConnection, DataIn, Disconnected, Played, Does, clientVars, KeepsApart
<1>c. ASSUME LoopOK', loop' # Awaiting, waiting' \in 0 .. opened, waiting' <= waiting,
             words' \in BOOLEAN, posts' \in BOOLEAN, loop' \notin Enqueuing \cup Setting
      PROVE  ControlInv'
    <2>1. DataTypes'
        BY <1>a, <1>b, <1>c DEF DataTypes
    <2>2. CountsOK'
        <3>1. session \in Nat /\ waiting \in Nat /\ opened \in Nat /\ waiting' \in Nat
            BY <1>a, <1>c, AudioAssumption DEF DataTypes
        <3>2. session + waiting <= opened /\ waiting' <= waiting
            BY <1>a, <1>c DEF CountsOK
        <3>3. session + waiting' <= opened
            <4> DEFINE v == waiting'
            <4>1. v \in Nat /\ v <= waiting
                BY <3>1, <3>2
            <4> HIDE DEF v
            <4>2. session + v <= opened
                BY <3>1, <3>2, <4>1
            <4> QED BY <4>2 DEF v
        <3> QED BY <1>a, <1>b, <3>3 DEF CountsOK
    <2>3. loop' \in Inside => callback' \in {"idle", "post"}
        BY NoOverlap
    <2>4. CallbackOK'
        BY <1>a, <1>b, <1>c, <2>3 DEF CallbackOK, LoopOK
    <2>5. FoundOK'
        BY <1>a, <1>b, <1>c DEF FoundOK
    <2>6. SockOK'
        <3>1. loop # Awaiting
            BY <1>b DEF Awaiting
        <3> QED BY <1>a, <1>b, <1>c, <3>1 DEF SockOK, Codes
    <2>7. QueueOK' /\ BufferSafe'
        <3>1. loop \notin Clearing
            BY <1>b, LoopOutside DEF Outside
        <3> QED BY <1>a, <1>b, <3>1 DEF QueueOK, BufferSafe
    <2> QED BY <1>c, <2>1, <2>2, <2>4, <2>5, <2>6, <2>7 DEF ControlInv
<1>d. ASSUME loop' = <<>> PROVE LoopOK' /\ loop' # Awaiting /\ loop' \notin Enqueuing \cup Setting
    <2>1. loop' \in Outside
        BY <1>d DEF Outside
    <2>2. loop' # <<"accept">> /\ loop' # <<"unmap">> /\ loop' # Awaiting
        BY <1>d DEF Awaiting
    <2> QED BY <1>d, <2>1, <2>2, LoopOutside DEF LoopOK
<1>e. waiting \in 0 .. opened /\ words \in BOOLEAN /\ posts \in BOOLEAN /\ opened \in Nat /\ waiting \in Nat
    BY <1>a, AudioAssumption DEF DataTypes
<1>1. CASE NewConnection
    <2>1. CASE connected_
        <3>1. loop' = <<>> /\ waiting > 0 /\ waiting' = waiting - 1 /\ UNCHANGED <<words, posts>>
            BY <1>1, <2>1 DEF NewConnection, Does, clientVars
        <3>2. waiting' \in 0 .. opened /\ waiting' <= waiting
            BY <3>1, <1>e
        <3> QED BY <1>c, <1>d, <1>e, <3>1, <3>2
    <2>2. CASE ~connected_
        <3>1. buffer_ = 0 /\ state_ = "stopped"
            BY <1>a, <2>2, Unmapped DEF SockOK, ControlInv
        <3>2. loop' = <<"accept">> /\ waiting' = waiting /\ waiting > 0 /\ UNCHANGED <<words, posts>>
            BY <1>1, <2>2, <3>1, StopShapes DEF NewConnection, Does, clientVars
        <3>3. loop' \in Outside /\ loop' # Awaiting
            BY <3>2 DEF Outside, Awaiting
        <3>4. LoopOK'
            BY <1>b, <2>2, <3>2, <3>3, LoopOutside DEF LoopOK
        <3> QED BY <1>c, <1>e, <3>2, <3>3, <3>4, LoopOutside
    <2> QED BY <2>1, <2>2
<1>2. CASE DataIn
    <2>1. loop' = <<"read">> /\ connected_ /\ UNCHANGED <<words, posts, waiting>>
        BY <1>2 DEF DataIn, Does, clientVars
    <2>2. loop' \in Outside /\ loop' # Awaiting
        BY <2>1 DEF Outside, Awaiting
    <2>3. LoopOK'
        BY <1>b, <2>1, <2>2, LoopOutside DEF LoopOK
    <2> QED BY <1>c, <1>e, <2>1, <2>2, <2>3, LoopOutside
<1>3. CASE Disconnected
    <2>1. loop' = Stop \o <<"unmap">> /\ connected_ /\ UNCHANGED <<words, posts, waiting>>
        BY <1>3 DEF Disconnected, Disconnect, Does, clientVars
    <2>2. CASE state_ = "stopped"
        <3>1. loop' = <<"unmap">>
            BY <2>1, <2>2, StopShapes
        <3>2. loop' \in Outside /\ loop' # Awaiting
            BY <3>1 DEF Outside, Awaiting
        <3>3. LoopOK'
            <4>1. connected_' /\ state_' = "stopped"
                BY <1>b, <2>1, <2>2
            <4> QED BY <3>1, <3>2, <4>1, LoopOutside DEF LoopOK
        <3> QED BY <1>c, <1>e, <2>1, <3>2, <3>3, LoopOutside
    <2>3. CASE state_ # "stopped"
        <3>1. loop' = <<"halt", "clear", "reset", "zero", "unmap">>
            BY <2>1, <2>3, StopShapes
        <3>2. loop' \in Halting
            BY <3>1 DEF Halting
        <3>3. /\ loop' \notin Clearing \cup Resetting \cup Zeroing \cup Beginning \cup Started
                         \cup Enqueuing \cup Setting
              /\ loop' \in Inside /\ loop' \notin Outside
            BY <3>2, Distinct, Apart DEF Inside
        <3>4. state_ = "playing"
            BY <1>a, <2>3 DEF DataTypes
        <3>5. LoopOK'
            BY <1>b, <2>1, <3>2, <3>3, <3>4 DEF LoopOK, Outside
        <3> QED BY <1>c, <1>e, <2>1, <3>3, <3>5 DEF Outside
    <2> QED BY <2>2, <2>3
<1>4. CASE Played
    <2>1. loop' = <<>> /\ waiting' = waiting /\ words' \in BOOLEAN /\ posts' \in BOOLEAN
        BY <1>4 DEF Played, Does
    <2> QED BY <1>c, <1>d, <1>e, <2>1
<1> QED BY <1>1, <1>2, <1>3, <1>4

\* A client is accepted where there is none, and nothing plays.
LEMMA AcceptControl ==
    ASSUME ControlInv, KeepsApart, due' \in BOOLEAN, Accept
    PROVE  ControlInv'
<1> USE DEF Accept
<1>a. /\ LoopOK /\ FoundOK /\ QueueOK /\ BufferSafe /\ DataTypes /\ CallbackOK /\ CountsOK /\ SockOK
    BY DEF ControlInv
<1>1. loop = <<"accept">> /\ loop' = <<>> /\ UNCHANGED callback
    BY <1>a, NextSteps DEF Step, LoopOK
<1>2. ~connected_ /\ waiting > 0
    BY <1>a, <1>1 DEF LoopOK
<1>3. sock = <<>> /\ buffer_ = 0
    BY <1>a, <1>2 DEF SockOK
<1>4. loop \in Outside /\ loop' \in Outside /\ loop' # Awaiting /\ loop' # <<"accept">> /\ loop' # <<"unmap">>
    BY <1>1 DEF Outside, Awaiting
<1>5. queue = <<>> /\ state_ = "stopped" /\ callback \in {"idle", "post"}
    BY <1>3, <1>4, Unmapped, LoopOutside
<1>6. DataTypes'
    <2>1. /\ session \in Nat /\ waiting \in Nat /\ opened \in Nat /\ session + waiting <= opened
          /\ opened \in 0 .. MaxSessions /\ MaxSessions \in Nat
        BY <1>a, AudioAssumption DEF DataTypes, CountsOK
    <2>2. session' \in 0 .. opened' /\ waiting' \in 0 .. opened' /\ buffer_' \in 0 .. session'
        BY <1>2, <1>3, <2>1
    <2>3. shm' \in [write : Nat, read : Nat, data : [Cells -> 0 .. MaxBytes]]
        BY AudioAssumption DEF Initialized
    <2>4. alsa' \in Pointers /\ copied' \in [at : Nat, n : 0 .. Period]
        BY PeriodAssumption DEF Pointers
    <2> QED BY <1>a, <2>2, <2>3, <2>4 DEF DataTypes, KeepsApart
<1>7. CountsOK' /\ session' > 0
    BY <1>a, <1>2 DEF CountsOK, DataTypes
<1>8. LoopOK'
    BY <1>1, <1>4, LoopOutside DEF LoopOK
<1>9. SockOK'
    BY <1>3, <1>4, <1>7 DEF SockOK, Codes
<1>10. FoundOK' /\ CallbackOK' /\ QueueOK' /\ BufferSafe'
    BY <1>a, <1>1, <1>3, <1>4, <1>5, LoopOutside DEF FoundOK, CallbackOK, QueueOK, BufferSafe
<1> QED BY <1>6, <1>7, <1>8, <1>9, <1>10 DEF ControlInv

\* read() begins what the next code says.
LEMMA ReadControl ==
    ASSUME ControlInv, KeepsApart, due' \in BOOLEAN, Read
    PROVE  ControlInv'
<1>a. /\ LoopOK /\ FoundOK /\ QueueOK /\ BufferSafe /\ DataTypes /\ CallbackOK /\ CountsOK /\ SockOK
    BY DEF ControlInv
<1>b. /\ UNCHANGED <<state_, playing_, buffer_, timer, shm, callback, register, found, posts,
                     device, queue, heard, fault, words, client, alsa, copied, next, stops,
                     begins, connected_, session, waiting, opened, upset>>
      /\ loop # <<>> /\ Head(loop) = "read"
    BY DEF Read, KeepsApart
<1>c. loop = <<"read">> /\ Tail(loop) = <<>>
    BY <1>a, <1>b, NextSteps DEF LoopOK
<1>d. connected_ /\ loop \in Outside /\ loop # Awaiting
    BY <1>a, <1>c DEF LoopOK, Outside, Awaiting
<1>e. ASSUME LoopOK', SockOK', sock' \in Seq({"map", "fds", "start", "stop"}),
             loop' \notin Enqueuing \cup Setting
      PROVE  ControlInv'
    <2>1. DataTypes' /\ CountsOK'
        BY <1>a, <1>b, <1>e DEF DataTypes, CountsOK
    <2>2. loop' \in Inside => callback' \in {"idle", "post"}
        BY NoOverlap
    <2>3. CallbackOK' /\ FoundOK'
        BY <1>a, <1>b, <1>e, <2>2 DEF CallbackOK, LoopOK, FoundOK
    <2>4. QueueOK' /\ BufferSafe'
        BY <1>a, <1>b, <1>d, LoopOutside DEF QueueOK, BufferSafe
    <2> QED BY <1>e, <2>1, <2>3, <2>4 DEF ControlInv
<1>1. CASE sock = <<>>
    <2>1. loop' = <<>> /\ sock' = sock
        BY <1>1, <1>c DEF Read
    <2>2. loop' \in Outside /\ loop' # Awaiting /\ loop' # <<"accept">> /\ loop' # <<"unmap">>
        BY <2>1 DEF Outside, Awaiting
    <2>3. LoopOK'
        BY <2>1, <2>2, LoopOutside DEF LoopOK
    <2>4. SockOK'
        BY <1>a, <1>b, <1>d, <2>1, <2>2 DEF SockOK, Codes
    <2> QED BY <1>a, <1>e, <2>1, <2>2, <2>3, <2>4, LoopOutside DEF DataTypes
<1>2. CASE sock # <<>>
    <2>1. /\ sock' = Tail(sock)
          /\ loop' = (CASE Head(sock) = "map" -> <<"fds">>
                        [] Head(sock) = "start" -> Start
                        [] Head(sock) = "stop" -> Stop) \o <<"read">>
        BY <1>2, <1>c DEF Read
    <2>2. /\ Len(sock) \in Nat /\ Len(sock') = Len(sock) - 1 /\ Len(sock) > 0
          /\ sock' \in Seq({"map", "fds", "start", "stop"})
          /\ \A i \in 1 .. Len(sock') : sock'[i] = sock[i + 1]
          /\ Head(sock) = sock[1] /\ sock[1] \in {"map", "fds", "start", "stop"}
          /\ sock' = <<>> <=> Len(sock') = 0
        BY <1>a, <1>2, <2>1, CodeRead
    <2>3. CASE buffer_ = 0
        <3>1. /\ sock[1] = "map" /\ Codes(2) /\ (Len(sock) > 1 => sock[2] = "fds")
              /\ client # "code"
            BY <1>a, <1>2, <1>d, <2>3 DEF SockOK
        <3>2. loop' = Awaiting
            BY <2>1, <2>2, <3>1, CheckShapes DEF Awaiting
        <3>3. loop' \in Outside /\ loop' # <<>> /\ loop' # <<"accept">> /\ loop' # <<"unmap">>
            BY <3>2 DEF Outside, Awaiting
        <3>4. LoopOK'
            BY <1>b, <1>d, <3>2, <3>3, LoopOutside DEF LoopOK
        <3>5. Codes(1)'
            BY <2>2, <3>1 DEF Codes
        <3>6. sock' # <<>> => sock'[1] = "fds"
            BY <2>2, <3>1
        <3>7. /\ client = "fds" => Len(sock') = 0
              /\ client \notin {"none", "code", "fds", "gone"} => Len(sock') >= 1
            BY <1>a, <1>d, <2>2, <2>3 DEF SockOK
        <3>8. SockOK'
            BY <1>a, <1>b, <1>d, <2>3, <3>1, <3>2, <3>5, <3>6, <3>7 DEF SockOK
        <3> QED BY <1>e, <2>2, <3>3, <3>4, <3>8, LoopOutside
    <2>4. CASE buffer_ # 0
        <3>1. /\ sock[1] \in {"start", "stop"} /\ Codes(0) /\ client \notin {"code", "fds"}
            BY <1>a, <2>2, <2>4 DEF SockOK, Codes
        <3>2. Codes(0)'
            BY <2>2, <3>1 DEF Codes
        <3>3. ASSUME loop' # Awaiting PROVE SockOK'
            BY <1>a, <1>b, <1>d, <2>4, <3>1, <3>2, <3>3 DEF SockOK
        <3>4. CASE loop' = <<"read">>
            <4>1. loop' \in Outside /\ loop' # Awaiting /\ loop' # <<"accept">> /\ loop' # <<"unmap">>
                BY <3>4 DEF Outside, Awaiting
            <4>2. LoopOK'
                BY <1>b, <1>d, <4>1, LoopOutside DEF LoopOK
            <4> QED BY <1>e, <2>2, <3>3, <4>1, <4>2, LoopOutside
        <3>5. CASE loop' = <<"play", "zero", "look", "arm", "read">> /\ state_ # "playing"
            <4>1. loop' \in Beginning
                BY <3>5 DEF Beginning
            <4>2. /\ loop' \notin Halting \cup Clearing \cup Resetting \cup Zeroing \cup Started
                             \cup Enqueuing \cup Setting
                  /\ loop' \in Inside /\ loop' \notin Outside
                BY <4>1, Distinct, Apart DEF Inside
            <4>3. state_ = "stopped"
                BY <1>a, <3>5 DEF DataTypes
            <4>4. LoopOK'
                BY <1>b, <1>d, <2>4, <4>1, <4>2, <4>3 DEF LoopOK, Outside
            <4> QED BY <1>e, <2>2, <3>3, <4>2, <4>4 DEF Outside
        <3>6. CASE loop' = <<"halt", "clear", "reset", "zero", "read">> /\ state_ # "stopped"
            <4>1. loop' \in Halting
                BY <3>6 DEF Halting
            <4>2. /\ loop' \notin Clearing \cup Resetting \cup Zeroing \cup Beginning \cup Started
                             \cup Enqueuing \cup Setting
                  /\ loop' \in Inside /\ loop' \notin Outside
                BY <4>1, Distinct, Apart DEF Inside
            <4>3. state_ = "playing"
                BY <1>a, <3>6 DEF DataTypes
            <4>4. LoopOK'
                BY <1>b, <1>d, <4>1, <4>2, <4>3 DEF LoopOK, Outside
            <4> QED BY <1>e, <2>2, <3>3, <4>2, <4>4 DEF Outside
        <3>7. sock[1] = "start" => loop' = Start \o <<"read">>
            BY <2>1, <2>2
        <3>8. sock[1] = "stop" => loop' = Stop \o <<"read">>
            BY <2>1, <2>2
        <3> QED BY <3>1, <3>4, <3>5, <3>6, <3>7, <3>8, StopShapes
    <2> QED BY <2>3, <2>4
<1> QED BY <1>1, <1>2

\* The ring is mapped, or the client has ended meanwhile.
LEMMA ReadFdsControl ==
    ASSUME ControlInv, KeepsApart, due' \in BOOLEAN, ReadFds
    PROVE  ControlInv'
<1>a. /\ LoopOK /\ FoundOK /\ QueueOK /\ BufferSafe /\ DataTypes /\ CallbackOK /\ CountsOK /\ SockOK
    BY DEF ControlInv
<1>b. /\ UNCHANGED <<state_, playing_, timer, shm, callback, register, found, posts,
                     device, queue, heard, fault, words, client, alsa, copied, next, stops,
                     begins, connected_, session, waiting, opened, upset>>
      /\ loop # <<>> /\ Head(loop) = "fds"
    BY DEF ReadFds, KeepsApart
<1>c. loop = Awaiting /\ Tail(loop) = <<"read">>
    BY <1>a, <1>b, NextSteps DEF LoopOK
<1>d. /\ loop \in Outside /\ loop # <<>> /\ loop # <<"accept">> /\ loop # <<"expire">>
      /\ Awaiting # <<"read">> /\ Awaiting # <<"unmap">>
    BY <1>c DEF Outside, Awaiting
<1>e. connected_ /\ session > 0 /\ session \in Nat
    BY <1>a, <1>c, <1>d, AudioAssumption DEF LoopOK, SockOK, DataTypes
<1>f. buffer_ = 0
    BY <1>a, <1>c DEF SockOK
<1>g. queue = <<>> /\ state_ = "stopped" /\ callback \in {"idle", "post"} /\ Stop = <<>>
    BY <1>d, <1>f, Unmapped, LoopOutside
<1>h. ASSUME loop' \in {<<"read">>, <<"unmap">>}, SockOK', buffer_' \in {0, session},
             sock' \in Seq({"map", "fds", "start", "stop"})
      PROVE  ControlInv'
    <2>1. DataTypes' /\ CountsOK'
        BY SMTT(30), <1>a, <1>b, <1>e, <1>h DEF DataTypes, CountsOK
    <2>2. loop' \in Outside /\ loop' # <<"accept">>
        BY <1>h DEF Outside
    <2>3. LoopOK'
        BY <1>b, <1>e, <1>g, <2>2, LoopOutside DEF LoopOK
    <2>4. FoundOK' /\ CallbackOK' /\ QueueOK' /\ BufferSafe'
        BY <1>a, <1>b, <1>g, <2>2, LoopOutside DEF FoundOK, CallbackOK, QueueOK, BufferSafe
    <2> QED BY <1>h, <2>1, <2>3, <2>4 DEF ControlInv
<1>1. CASE sock # <<>>
    <2>1. sock' = Tail(sock) /\ buffer_' = session /\ loop' = <<"read">>
        BY <1>1, <1>c DEF ReadFds
    <2>2. /\ Len(sock) \in Nat /\ Len(sock') = Len(sock) - 1 /\ Len(sock) > 0
          /\ sock' \in Seq({"map", "fds", "start", "stop"})
          /\ \A i \in 1 .. Len(sock') : sock'[i] = sock[i + 1]
        BY <1>a, <1>1, <2>1, CodeRead
    <2>3. Codes(0)'
        BY <1>a, <1>c, <2>2 DEF SockOK, Codes
    <2>4. client \notin {"code", "fds", "none"}
        BY <1>a, <1>c, <1>e, <2>2 DEF SockOK
    <2>5. SockOK'
        BY <1>b, <1>d, <1>e, <2>1, <2>3, <2>4 DEF SockOK
    <2> QED BY <1>h, <2>1, <2>2, <2>5
<1>2. CASE sock = <<>>
    <2>1. /\ client = "gone" /\ UNCHANGED <<sock, buffer_>> /\ loop' = Stop \o <<"unmap">>
        BY <1>2, <1>e DEF ReadFds, Disconnect
    <2>2. loop' = <<"unmap">>
        BY <1>g, <2>1, StopShapes
    <2>3. SockOK'
        BY <1>2, <1>b, <1>d, <1>e, <1>f, <2>1, <2>2 DEF SockOK, Codes
    <2> QED BY <1>a, <1>f, <1>h, <2>1, <2>2, <2>3 DEF DataTypes
<1> QED BY <1>1, <1>2

\* The ring is unmapped when the player is stopped.
LEMMA UnmapControl ==
    ASSUME ControlInv, KeepsApart, due' \in BOOLEAN, Unmap
    PROVE  ControlInv'
<1> USE DEF Unmap
<1>a. /\ LoopOK /\ FoundOK /\ QueueOK /\ BufferSafe /\ DataTypes /\ CallbackOK /\ CountsOK /\ SockOK
    BY DEF ControlInv
<1>1. loop = <<"unmap">> /\ loop' = <<>> /\ UNCHANGED callback
    BY <1>a, NextSteps DEF Step, LoopOK
<1>2. loop \in Outside /\ loop' \in Outside /\ loop' # Awaiting /\ loop' # <<"accept">> /\ loop' # <<"unmap">>
    BY <1>1 DEF Outside, Awaiting
<1>3. state_ = "stopped" /\ queue = <<>> /\ callback \in {"idle", "post"}
    BY <1>a, <1>1, <1>2, LoopOutside DEF LoopOK, QueueOK, CallbackOK
<1>4. DataTypes'
    <2>1. 0 \in 0 .. session /\ <<>> \in Seq({"map", "fds", "start", "stop"})
        BY <1>a, AudioAssumption, EmptySeq DEF DataTypes
    <2> QED BY <1>a, <2>1 DEF DataTypes, KeepsApart
<1>5. LoopOK'
    BY <1>1, <1>2, LoopOutside DEF LoopOK
<1>6. SockOK'
    BY <1>2 DEF SockOK, Codes
<1>7. FoundOK' /\ CallbackOK' /\ QueueOK' /\ BufferSafe' /\ CountsOK'
    BY <1>a, <1>1, <1>2, <1>3, LoopOutside DEF FoundOK, CallbackOK, QueueOK, BufferSafe, CountsOK
<1> QED BY <1>4, <1>5, <1>6, <1>7 DEF ControlInv

-----------------------------------------------------------------------------

\* The control is right at the beginning ...
LEMMA ControlInit == Init => ControlInv
<1> SUFFICES ASSUME Init PROVE ControlInv
    OBVIOUS
<1> USE DEF Init, PlayerInit
<1>1. loop \in Outside /\ loop # Awaiting /\ loop # <<"accept">> /\ loop # <<"unmap">>
    BY DEF Outside, Awaiting
<1>2. DataTypes
    <2>1. shm \in [write : Nat, read : Nat, data : [Cells -> 0 .. MaxBytes]]
        BY AudioAssumption DEF Initialized
    <2>2. <<>> \in Seq({"map", "fds", "start", "stop"})
        BY EmptySeq
    <2>3. alsa \in Pointers /\ copied \in [at : Nat, n : 0 .. Period] /\ playing_ \in 0 .. Period
          /\ register \in [read : Nat, n : 0 .. Period]
        BY PeriodAssumption DEF Pointers
    <2>4. heard \in Seq(0 .. MaxBytes)
        BY AudioAssumption
    <2>5. found \in [{"loop", "audio"} -> Places \cup {Nothing}]
        OBVIOUS
    <2>6. next \in 1 .. MaxBytes + 1 /\ stops \in 0 .. MaxStops /\ opened \in 0 .. MaxSessions
          /\ session \in 0 .. opened /\ waiting \in 0 .. opened /\ buffer_ \in 0 .. session
        BY AudioAssumption
    <2> QED BY <2>1, <2>2, <2>3, <2>4, <2>5, <2>6 DEF DataTypes
<1>3. LoopOK
    BY <1>1, LoopOutside DEF LoopOK
<1>4. FoundOK /\ CallbackOK
    BY <1>1, LoopOutside DEF FoundOK, CallbackOK
<1>5. QueueOK /\ BufferSafe /\ CountsOK
    BY EmptySeq DEF QueueOK, BufferSafe, CountsOK
<1>6. SockOK
    BY <1>1 DEF SockOK, Codes
<1> QED BY <1>2, <1>3, <1>4, <1>5, <1>6 DEF ControlInv

\* The steps that do not bring the two threads together in the player
LEMMA StepsApart ==
    ASSUME Next, "overlap" \notin upset', due \in BOOLEAN
    PROVE  /\ "overlap" \notin upset
           /\ due' \in BOOLEAN
           /\ \/ Connect \/ ClientRuns \/ ClientChooses \/ ClientLeaves
              \/ /\ KeepsApart
                 /\ UNCHANGED <<clientVars, serverVars>>
                 /\ LoopStep \/ Timeout \/ TimerBlocks \/ Play \/ CallbackStep
              \/ /\ KeepsApart
                 /\ \/ Accept \/ Read \/ ReadFds \/ Unmap
                    \/ NewConnection \/ DataIn \/ Disconnected \/ Played
<1>1. ASSUME Watched PROVE KeepsApart /\ "overlap" \notin upset
    BY <1>1 DEF Watched, KeepsApart
<1>2. ASSUME ClientRuns \/ ClientChooses \/ ClientLeaves
      PROVE  "overlap" \notin upset /\ due' \in BOOLEAN
    BY <1>2 DEF ClientRuns, ClientChooses, ClientLeaves, Leave
<1>3. ASSUME Connect PROVE "overlap" \notin upset /\ due' \in BOOLEAN
    BY <1>3 DEF Connect
<1>4. ASSUME Overtaken PROVE due' \in BOOLEAN
    BY <1>4 DEF Overtaken
<1> QED BY <1>1, <1>2, <1>3, <1>4 DEF Next, PlayerRuns, TimerEvent, Serves, Handles

\* ... and after each step that does not.
LEMMA ControlStep ==
    ASSUME ControlInv, "overlap" \notin upset', [Next]_vars
    PROVE  ControlInv'
<1>1. CASE UNCHANGED vars
    BY SMTT(30), <1>1 DEF vars, playerVars, clientVars, ControlInv, DataTypes, CountsOK, LoopOK, FoundOK,
                CallbackOK, QueueOK, SockOK, Codes, BufferSafe
<1>2. CASE Next
    <2>1. due \in BOOLEAN
        BY DEF ControlInv, DataTypes
    <2> QED BY <1>2, <2>1, StepsApart, ConnectControl, ClientControl, LoopControl, TimerControl,
               CallbackControl, AcceptControl, ReadControl, ReadFdsControl, UnmapControl,
               EventControl
<1> QED BY <1>1, <1>2

\* Once the threads have been together in the player, that is remembered.
LEMMA OverlapStays ==
    ASSUME [Next]_vars, "overlap" \in upset
    PROVE  "overlap" \in upset'
<1>1. ASSUME Watched \/ Touches PROVE "overlap" \in upset'
    BY <1>1 DEF Watched, Touches
<1>2. CASE UNCHANGED upset
    BY <1>2
<1>3. upset # {}
    OBVIOUS
<1> QED BY <1>1, <1>2, <1>3 DEF vars, Next, Connect, ClientRuns, ClientChooses, ClientLeaves,
           Leave, PlayerRuns, TimerEvent, Serves, Handles

\* The control is right until then.
LEMMA ControlInvariant == Spec => []("overlap" \notin upset => ControlInv)
<1>1. Init => ("overlap" \notin upset => ControlInv)
    BY ControlInit
<1>2. ("overlap" \notin upset => ControlInv) /\ [Next]_vars => ("overlap" \notin upset => ControlInv)'
    BY ControlStep, OverlapStays
<1> QED BY <1>1, <1>2, PTL DEF Spec

\* disconnect_client unmaps a ring that nobody uses, at whatever point clients come, stop, leave
\* or die, in every behaviour up to the point where the callback and the loop are in the player
\* at once; the sleep in disconnect_client makes that rare, and nothing in the code excludes it.
THEOREM RingUnmappedSafely == Spec => []BufferSafeAlone
<1>1. ("overlap" \notin upset => ControlInv) => BufferSafeAlone
    BY DEF ControlInv, BufferSafeAlone
<1> QED BY <1>1, ControlInvariant, PTL

-----------------------------------------------------------------------------
(* The invariant of the ring: what is with the sound system, and what the client knows *)

\* Nothing is with the sound system.
Silent == queue = <<>> /\ playing_ = 0

\* A place where the ring is to be read next
AtRead(p) == p.at = Cell(shm.read) /\ p.n <= Unread

\* The one place that was enqueued is where the ring is to be read next.
Sounding == \E p \in Fitting : queue = <<p>> /\ AtRead(p) /\ p.n = playing_

\* The callback has been told of bytes that it has not taken yet.
Taking == callback \in {"state", "load", "store"}

PlayOK ==
    /\ Taking => queue = <<>> /\ playing_ \in 1 .. Unread
    /\ callback = "store" => register = [read |-> shm.read, n |-> playing_]
    /\ callback = "clear" => queue = <<>>
    /\ callback = "look" => Silent
    /\ callback = "enqueue" => Silent /\ AtRead(found["audio"])
    /\ callback = "set" => queue = <<found["audio"]>> /\ AtRead(found["audio"])
    /\ callback \in {"idle", "post"} =>
        /\ loop \in Outside \cup Halting => Silent \/ Sounding
        /\ loop \in Started => Silent
        /\ loop \in Beginning => Silent
        /\ loop \in Enqueuing => Silent /\ AtRead(found["loop"])
        /\ loop \in Setting => queue = <<found["loop"]>> /\ AtRead(found["loop"])
    /\ state_ = "stopped" /\ loop \in Outside => playing_ = 0

\* The ring holds what is unread and what is copied.
RoomOK == shm.read <= shm.write /\ Unread + copied.n <= Size

Empty == shm.read = 0 /\ shm.write = 0

\* The client has not ended.
Here == client \notin {"none", "gone"}

Has(code) == \E i \in 1 .. Len(sock) : sock[i] = code

\* A client that has stopped does not start before its stop is done.
SockOrder == \A i, j \in 1 .. Len(sock) : i < j /\ sock[i] = "stop" => sock[j] # "start"

WillPlay == Has("start") \/ loop \in Beginning \/ state_ = "playing"

WillReset == loop \in Clearing \cup Resetting

\* What alsa-lib's pointers have to do with the positions of the ring, if no stop is on its
\* way; if one is, the client has started nothing, and the ring is empty or is reset.
ClientOK ==
    /\ client = "copied" => alsa.state # "setup" /\ ~StopOnItsWay /\ copied.at = shm.write
    /\ client # "copied" => copied.n = 0
    /\ client \in {"pointer", "poll", "woken"} => alsa.state # "setup"
    /\ client \in {"code", "fds"} => alsa.state = "setup"
    /\ ~StopOnItsWay =>
        /\ alsa.state = "setup" => Empty
        /\ alsa.state # "setup" =>
            shm.write = alsa.appl /\ alsa.hw = alsa.last /\ alsa.last <= shm.read
        /\ alsa.state = "running" => WillPlay
    /\ StopOnItsWay =>
        /\ alsa.state # "running"
        /\ alsa.state = "prepared" => alsa.appl = 0 /\ alsa.hw = 0 /\ alsa.last = 0
        /\ ~WillPlay /\ ~WillReset => Empty
    /\ alsa.state # "setup" /\ alsa.appl = 0 => next - copied.n \in begins

\* The number of the byte that is to be played next
Expected == next - copied.n - Unread + IF Taking THEN playing_ ELSE 0

\* It follows the one that was heard last, or begins a stream.
OrderOK ==
    \/ Expected = heard[Len(heard)] + 1
    \/ /\ Expected > heard[Len(heard)]
       /\ \/ Expected \in begins
          \/ Unread = 0 /\ (Here => alsa.state = "setup")

\* The cells hold what was written and what is copied.
RingIntact ==
    \A p \in Nat :
        shm.read <= p /\ p < shm.write + (IF client = "copied" THEN copied.n ELSE 0)
            => shm.data[Cell(p)] = next - copied.n - (shm.write - p)

Stream ==
    \A i \in 2 .. Len(heard) :
        \/ heard[i] = heard[i - 1] + 1
        \/ heard[i] \in begins /\ heard[i] > heard[i - 1]

Ring == PlayOK /\ RoomOK /\ (Here => SockOrder /\ ClientOK) /\ OrderOK /\ RingIntact /\ Stream

RingInv == ControlInv /\ (upset = {} => Ring)

-----------------------------------------------------------------------------
(* Positions and cells *)

\* A position is a number of times around the ring, and a cell.
LEMMA Division ==
    ASSUME NEW p \in Nat
    PROVE  /\ p = Size * (p \div Size) + Cell(p) /\ p \div Size \in Int
           /\ Cell(p) \in Nat /\ Cell(p) < Size
    BY SizeAssumption DEF Cell

\* Each time around is the size of the ring.
LEMMA Multiples ==
    ASSUME NEW a \in Int, NEW b \in Int, a < b
    PROVE  Size * b >= Size * a + Size
    BY SizeAssumption

\* The cell of a position is unique.
LEMMA Quotient ==
    ASSUME NEW a \in Int, NEW b \in Int, NEW r \in Nat, NEW t \in Nat, r < Size, t < Size,
           Size * a + r = Size * b + t
    PROVE  r = t
<1>1. Size * a \in Int /\ Size * b \in Int /\ Size \in Nat
    BY SizeAssumption
<1>2. CASE a < b
    <2>1. Size * b >= Size * a + Size
        BY <1>2, Multiples
    <2> QED BY <1>1, <2>1
<1>3. CASE b < a
    <2>1. Size * a >= Size * b + Size
        BY <1>3, Multiples
    <2> QED BY <1>1, <2>1
<1>4. CASE a = b
    BY <1>1, <1>4
<1> QED BY <1>2, <1>3, <1>4

\* The positions of a contiguous place are in neighbouring cells.
LEMMA Neighbours ==
    ASSUME NEW p \in Nat, NEW k \in Nat, Cell(p) + k < Size
    PROVE  Cell(p + k) = Cell(p) + k
<1> DEFINE a == p \div Size
           b == (p + k) \div Size
           r == Cell(p)
           t == Cell(p + k)
<1>1. p = Size * a + r /\ a \in Int /\ r \in Nat
    BY Division
<1>2. p + k = Size * b + t /\ b \in Int /\ t \in Nat /\ t < Size
    BY Division
<1>3. r + k < Size
    OBVIOUS
<1> HIDE DEF a, b, r, t
<1>4. Size * a \in Int /\ Size * b \in Int /\ Size \in Nat
    BY <1>1, <1>2, SizeAssumption
<1>5. Size * a + (r + k) = Size * b + t /\ r + k \in Nat
    BY <1>1, <1>2, <1>4
<1>6. r + k = t
    BY <1>1, <1>2, <1>3, <1>5, Quotient
<1> QED BY <1>6 DEF r, t

\* Positions less than the size of the ring apart are in different cells.
LEMMA CellsDiffer ==
    ASSUME NEW p \in Nat, NEW q \in Nat, p < q, q < p + Size
    PROVE  Cell(p) # Cell(q)
<1> SUFFICES ASSUME Cell(p) = Cell(q) PROVE FALSE
    OBVIOUS
<1> DEFINE a == p \div Size
           b == q \div Size
           r == Cell(p)
<1>1. p = Size * a + r /\ a \in Int /\ r \in Nat
    BY Division
<1>2. q = Size * b + r /\ b \in Int
    BY Division
<1> HIDE DEF a, b, r
<1>4. Size * a \in Int /\ Size * b \in Int /\ Size \in Nat
    BY <1>1, <1>2, SizeAssumption
<1>5. a < b => Size * b >= Size * a + Size
    BY <1>1, <1>2, Multiples
<1>6. b < a => Size * a >= Size * b + Size
    BY <1>1, <1>2, Multiples
<1>7. a < b \/ b < a \/ a = b
    BY <1>1, <1>2
<1> QED BY <1>1, <1>2, <1>4, <1>5, <1>6, <1>7

-----------------------------------------------------------------------------
(* Facts about the state *)

\* What the invariant counts with is numbers.
LEMMA Numbers ==
    ASSUME ControlInv
    PROVE  /\ shm.read \in Nat /\ shm.write \in Nat /\ Unread \in Int
           /\ copied.n \in Nat /\ copied.at \in Nat /\ next \in Nat \ {0} /\ playing_ \in Nat
           /\ alsa.appl \in Nat /\ alsa.last \in Nat /\ alsa.hw \in Int
           /\ Len(heard) \in Nat \ {0} /\ heard[Len(heard)] \in Int
           /\ heard \in Seq(0 .. MaxBytes)
           /\ Expected \in Int
<1>1. DataTypes /\ CountsOK
    BY DEF ControlInv
<1>2. shm.read \in Nat /\ shm.write \in Nat /\ next \in Nat \ {0}
    BY <1>1, AudioAssumption DEF DataTypes
<1>3. copied.n \in Nat /\ copied.at \in Nat /\ playing_ \in Nat
    BY <1>1, PeriodAssumption DEF DataTypes
<1>4. alsa.appl \in Nat /\ alsa.last \in Nat /\ alsa.hw \in Int
    BY <1>1 DEF DataTypes, Pointers
<1>5. heard \in Seq(0 .. MaxBytes) /\ Len(heard) \in Nat \ {0}
    BY <1>1, LenProperties DEF DataTypes, CountsOK
<1>6. heard[Len(heard)] \in Int
    <2>1. Len(heard) \in 1 .. Len(heard)
        BY <1>5
    <2>2. heard[Len(heard)] \in 0 .. MaxBytes
        BY <1>5, <2>1, ElementOfSeq
    <2> QED BY <2>2, AudioAssumption
<1>7. Unread \in Int
    BY <1>2 DEF Unread
<1>8. Expected \in Int
    BY <1>2, <1>3, <1>7 DEF Expected
<1> QED BY <1>2, <1>3, <1>4, <1>5, <1>6, <1>7, <1>8

\* Whether the loop has a reset left to do
LEMMA ResetIn ==
    ASSUME NEW s \in Inside \cup Outside
    PROVE  (\E i \in 1 .. Len(s) : s[i] = "reset") <=> s \in Halting \cup Clearing \cup Resetting
<1>1. ASSUME NEW u \in Halting \cup Clearing \cup Resetting
      PROVE  \E i \in 1 .. Len(u) : u[i] = "reset"
    <2>1. ASSUME NEW e PROVE /\ Len(<<"halt", "clear", "reset", "zero", e>>) = 5
                             /\ <<"halt", "clear", "reset", "zero", e>>[3] = "reset"
                             /\ Len(<<"clear", "reset", "zero", e>>) = 4
                             /\ <<"clear", "reset", "zero", e>>[2] = "reset"
                             /\ Len(<<"reset", "zero", e>>) = 3
                             /\ <<"reset", "zero", e>>[1] = "reset"
        OBVIOUS
    <2>2. u \in Halting => Len(u) = 5 /\ u[3] = "reset"
        BY <2>1 DEF Halting
    <2>3. u \in Clearing => Len(u) = 4 /\ u[2] = "reset"
        BY <2>1 DEF Clearing
    <2>4. u \in Resetting => Len(u) = 3 /\ u[1] = "reset"
        BY <2>1 DEF Resetting
    <2>5. 3 \in 1 .. 5 /\ 2 \in 1 .. 4 /\ 1 \in 1 .. 3
        OBVIOUS
    <2> QED BY <2>2, <2>3, <2>4, <2>5
<1>2. ASSUME NEW u \in Zeroing \cup Beginning \cup Started \cup Enqueuing \cup Setting \cup Outside
      PROVE  \A i \in 1 .. Len(u) : u[i] # "reset"
    BY DEF Zeroing, Beginning, Started, Enqueuing, Setting, Outside, Awaiting
<1> QED BY <1>1, <1>2 DEF Inside

\* A stop is on its way if it is in the socket, or in what the loop has left to do.
LEMMA StopIsWhere ==
    ASSUME ControlInv, ControlInv'
    PROVE  /\ StopOnItsWay <=> Has("stop") \/ loop \in Halting \cup Clearing \cup Resetting
           /\ StopOnItsWay' <=> Has("stop")' \/ loop' \in Halting \cup Clearing \cup Resetting
    BY ResetIn DEF StopOnItsWay, Has, ControlInv, LoopOK

-----------------------------------------------------------------------------
(* The ring: steps of the loop in the player *)

\* The client's view is kept by a step of the server that keeps the ring.
LEMMA ClientFrame ==
    ASSUME ClientOK, UNCHANGED <<shm, copied, next, begins, client, alsa>>,
           StopOnItsWay' <=> StopOnItsWay,
           ~StopOnItsWay /\ WillPlay => WillPlay',
           ~WillPlay' /\ ~WillReset' => ~WillPlay /\ ~WillReset
    PROVE  ClientOK'
    BY DEF ClientOK, Empty

\* What a step of the server that keeps the ring and the socket has to keep
LEMMA RingFrame ==
    ASSUME Ring, PlayOK',
           UNCHANGED <<shm, copied, next, heard, begins, client, alsa, sock>>,
           Taking' <=> Taking, Taking => playing_' = playing_,
           StopOnItsWay' <=> StopOnItsWay,
           ~StopOnItsWay /\ WillPlay => WillPlay',
           ~WillPlay' /\ ~WillReset' => ~WillPlay /\ ~WillReset
    PROVE  Ring'
<1>1. RoomOK' /\ RingIntact' /\ Stream'
    BY DEF Ring, RoomOK, RingIntact, Stream, Unread
<1>2. Here => SockOrder' /\ ClientOK'
    BY ClientFrame DEF Ring, SockOrder
<1>3. OrderOK'
    <2>1. Expected' = Expected
        BY DEF Expected, Unread
    <2> QED BY <2>1 DEF Ring, OrderOK, Unread, Here
<1> QED BY <1>1, <1>2, <1>3 DEF Ring, Here

\* The steps of the loop in the player keep the ring.
LEMMA LoopRing ==
    ASSUME RingInv, ControlInv', KeepsApart, upset = {}, UNCHANGED <<clientVars, serverVars>>,
           LoopStep \/ Timeout
    PROVE  Ring'
<1> USE DEF clientVars, serverVars
<1>a. /\ UNCHANGED <<clientVars, serverVars>> /\ (LoopStep \/ Timeout)
      /\ ControlInv /\ Ring
    BY DEF RingInv
<1>b. /\ loop \in Inside \cup Outside /\ LoopOK /\ LoopOK' /\ CallbackOK /\ CallbackOK'
      /\ QueueOK /\ QueueOK' /\ PlayOK /\ FoundOK' /\ DataTypes /\ FoundOK
    BY <1>a DEF ControlInv, LoopOK, Ring
<1>c. /\ UNCHANGED <<callback, heard>>
      /\ UNCHANGED <<sock, client, alsa, copied, next, begins>>
      /\ Has("stop")' <=> Has("stop")
      /\ Has("start")' <=> Has("start")
    BY <1>a DEF LoopStep, LoopPlay, LoopArm, LoopHalt, LoopClear, LoopReset, LoopZero,
                LoopCheck, Look, Enqueue, SetPlaying, Timeout, Step, Has
<1>d. /\ StopOnItsWay <=> Has("stop") \/ loop \in Halting \cup Clearing \cup Resetting
      /\ StopOnItsWay' <=> Has("stop") \/ loop' \in Halting \cup Clearing \cup Resetting
    BY <1>a, <1>c, StopIsWhere
<1>e. loop \in Inside => callback \in {"idle", "post"} /\ ~Taking /\ ~Taking'
    BY <1>b, <1>c, Apart DEF CallbackOK, Taking
<1>1. CASE LoopPlay
    <2>1. loop \in Beginning /\ loop' \in Started /\ state_' = "playing"
          /\ UNCHANGED <<shm, queue, playing_>>
        BY <1>1, <1>b, NextSteps DEF LoopPlay, Step
    <2>2. /\ loop' \notin Halting \cup Clearing \cup Resetting \cup Beginning \cup Enqueuing
                          \cup Setting
          /\ loop \notin Halting \cup Clearing \cup Resetting
          /\ loop' \in Inside /\ loop \in Inside /\ loop' \notin Outside
        BY <2>1, Distinct, Apart DEF Inside
    <2>3. PlayOK'
        BY <1>b, <1>c, <1>e, <2>1, <2>2 DEF PlayOK, Taking, Silent
    <2>4. WillPlay' /\ ~WillReset' /\ (StopOnItsWay' <=> StopOnItsWay)
        BY <1>d, <2>1, <2>2 DEF WillPlay, WillReset
    <2> QED BY <1>a, <1>c, <1>e, <2>1, <2>2, <2>3, <2>4, RingFrame
<1>2. CASE LoopArm
    <2>1. loop = <<"arm", "read">> /\ loop' = <<"read">> /\ UNCHANGED <<shm, queue, playing_, state_, register, found>>
        BY <1>2, <1>b, NextSteps DEF LoopArm, Step
    <2>2. loop \in Outside /\ loop' \in Outside
        BY <2>1 DEF Outside
    <2>3. PlayOK'
        BY <1>b, <1>c, <2>1, <2>2, LoopOutside DEF PlayOK, Taking, Silent, Sounding, AtRead, Unread
    <2>4. (WillPlay' <=> WillPlay) /\ ~WillReset' /\ ~WillReset /\ (StopOnItsWay' <=> StopOnItsWay)
        BY <1>c, <1>d, <2>1, <2>2, LoopOutside DEF WillPlay, WillReset
    <2>5. Taking' <=> Taking
        BY <1>c DEF Taking
    <2> QED BY <1>a, <1>c, <2>1, <2>3, <2>4, <2>5, RingFrame
<1>3. CASE LoopHalt
    <2>1. loop \in Halting /\ loop' \in Clearing /\ UNCHANGED <<shm, queue, playing_>>
        BY <1>3, <1>b, NextSteps DEF LoopHalt, Step
    <2>2. /\ loop' \notin Halting \cup Beginning \cup Started \cup Enqueuing \cup Setting
          /\ loop' \in Inside /\ loop \in Inside /\ loop' \notin Outside
        BY <2>1, Distinct, Apart DEF Inside
    <2>3. PlayOK'
        BY <1>b, <1>c, <1>e, <2>2 DEF PlayOK
    <2>4. WillReset' /\ StopOnItsWay' /\ StopOnItsWay
        BY <1>d, <2>1 DEF WillReset
    <2> QED BY <1>a, <1>c, <1>e, <2>1, <2>2, <2>3, <2>4, RingFrame
<1>4. CASE LoopClear
    <2>1. loop \in Clearing /\ loop' \in Resetting /\ UNCHANGED <<shm, playing_>>
        BY <1>4, <1>b, NextSteps DEF LoopClear, Step
    <2>2. /\ loop' \notin Halting \cup Beginning \cup Started \cup Enqueuing \cup Setting
          /\ loop' \in Inside /\ loop \in Inside /\ loop' \notin Outside
        BY <2>1, Distinct, Apart DEF Inside
    <2>3. PlayOK'
        BY <1>b, <1>c, <1>e, <2>2 DEF PlayOK
    <2>4. WillReset' /\ StopOnItsWay' /\ StopOnItsWay
        BY <1>d, <2>1 DEF WillReset
    <2> QED BY <1>a, <1>c, <1>e, <2>1, <2>2, <2>3, <2>4, RingFrame
<1>6. CASE LoopZero
    <2>0. /\ \/ loop \in Zeroing /\ loop' \in {<<"read">>, <<"unmap">>}
             \/ loop \in Started /\ loop' = <<"look", "arm", "read">>
          /\ playing_' = 0 /\ UNCHANGED <<shm, queue, state_, register, found>>
        BY <1>6, <1>b, NextSteps DEF LoopZero, Step
    <2>1. CASE loop \in Zeroing /\ loop' \in {<<"read">>, <<"unmap">>}
        <3>1. loop' \in Outside /\ loop \in Inside
            BY <2>1 DEF Outside, Inside
        <3>2. loop \notin Halting \cup Clearing \cup Resetting \cup Beginning
            BY <2>1, Distinct
        <3>3. state_ = "stopped"
            BY <1>b, <2>1 DEF LoopOK
        <3>4. Silent'
            BY <1>b, <2>0, <3>1, <3>3, LoopOutside DEF QueueOK, Silent
        <3>5. PlayOK'
            BY <1>c, <1>e, <2>0, <3>1, <3>4, LoopOutside DEF PlayOK
        <3>6. (WillPlay' <=> WillPlay) /\ ~WillReset' /\ ~WillReset /\ (StopOnItsWay' <=> StopOnItsWay)
            BY <1>c, <1>d, <2>0, <3>1, <3>2, LoopOutside DEF WillPlay, WillReset
        <3> QED BY <1>a, <1>c, <1>e, <2>0, <3>1, <3>5, <3>6, RingFrame
    <2>2. CASE loop \in Started /\ loop' = <<"look", "arm", "read">>
        <3>1. loop' \in Started
            BY <2>2 DEF Started
        <3>2. /\ loop' \notin Halting \cup Clearing \cup Resetting \cup Beginning
                              \cup Enqueuing \cup Setting
              /\ loop \notin Halting \cup Clearing \cup Resetting \cup Beginning
              /\ loop' \in Inside /\ loop \in Inside /\ loop' \notin Outside
            BY <2>2, <3>1, Distinct, Apart DEF Inside
        <3>3. state_ = "playing"
            BY <1>b, <2>2 DEF LoopOK
        <3>4. PlayOK'
            BY <1>b, <1>c, <1>e, <2>0, <2>2, <3>1, <3>2, <3>3 DEF PlayOK, Silent
        <3>5. WillPlay' /\ WillPlay /\ ~WillReset' /\ ~WillReset /\ (StopOnItsWay' <=> StopOnItsWay)
            BY <1>c, <1>d, <2>0, <3>2, <3>3 DEF WillPlay, WillReset
        <3> QED BY <1>a, <1>c, <1>e, <2>0, <3>2, <3>4, <3>5, RingFrame
    <2> QED BY <2>0, <2>1, <2>2
<1>7. ASSUME Look("loop"), state_ = "playing", callback \in {"idle", "post"}, Silent,
             loop \notin Halting \cup Clearing \cup Resetting,
             \/ loop' \in Enqueuing /\ Found # Nothing
             \/ loop' = <<"arm", "read">>
      PROVE  Ring'
    <2>1. UNCHANGED <<shm, queue, playing_, state_, register>> /\ found'["loop"] = Found
        BY <1>7, <1>b DEF Look, DataTypes
    <2>2. WillPlay' /\ WillPlay /\ ~Taking /\ ~Taking'
        BY <1>7, <1>c, <2>1 DEF WillPlay, Taking
    <2>3. Silent'
        BY <1>7, <2>1 DEF Silent
    <2>4. CASE loop' \in Enqueuing /\ Found # Nothing
        <3>1. /\ loop' \notin Halting \cup Clearing \cup Resetting \cup Beginning
                              \cup Started \cup Setting
              /\ loop' \in Inside /\ loop' \notin Outside
            BY <2>4, Distinct, Apart DEF Inside
        <3>2. AtRead(found["loop"])'
            BY <1>a, <2>1, <2>4, FoundFacts, ControlTypes DEF AtRead, Unread
        <3>3. PlayOK'
            BY <1>7, <1>c, <2>1, <2>3, <3>1, <3>2 DEF PlayOK, Taking
        <3>4. StopOnItsWay' <=> StopOnItsWay
            BY <1>7, <1>d, <3>1
        <3> QED BY <1>a, <1>c, <2>1, <2>2, <3>3, <3>4, RingFrame
    <2>5. CASE loop' = <<"arm", "read">>
        <3>1. loop' \in Outside
            BY <2>5 DEF Outside
        <3>2. PlayOK'
            BY <1>7, <1>c, <2>1, <2>3, <3>1, LoopOutside DEF PlayOK, Taking
        <3>3. StopOnItsWay' <=> StopOnItsWay
            BY <1>7, <1>d, <3>1, LoopOutside
        <3> QED BY <1>a, <1>c, <2>1, <2>2, <3>2, <3>3, RingFrame
    <2> QED BY <1>7, <2>4, <2>5
<1>8. CASE loop # <<>> /\ Head(loop) = "look" /\ LoopCheck
    <2>1. /\ loop \in Started /\ Tail(loop) = <<"arm", "read">> /\ Look("loop")
          /\ loop' = (IF Found = Nothing THEN <<>> ELSE <<"enqueue", "set">>) \o Tail(loop)
        BY <1>8, <1>b, NextSteps DEF LoopCheck, Step
    <2>2. /\ state_ = "playing" /\ callback \in {"idle", "post"} /\ Silent
          /\ loop \notin Halting \cup Clearing \cup Resetting
        BY <1>b, <1>e, <2>1, Distinct DEF LoopOK, Inside, PlayOK
    <2>3. CASE Found = Nothing
        <3>1. <<>> \o <<"arm", "read">> = <<"arm", "read">>
            OBVIOUS
        <3>2. loop' = <<"arm", "read">>
            BY <2>1, <2>3, <3>1
        <3> QED BY <1>7, <2>1, <2>2, <3>2
    <2>4. CASE Found # Nothing
        <3>1. loop' = <<"enqueue", "set", "arm", "read">>
            BY <2>1, <2>4, CheckShapes
        <3>2. loop' \in Enqueuing
            BY <3>1 DEF Enqueuing
        <3> QED BY <1>7, <2>1, <2>2, <2>4, <3>2
    <2> QED BY <2>3, <2>4
<1>9. CASE Step("enqueue") /\ Enqueue("loop")
    <2>1. loop \in Enqueuing /\ loop' \in Setting
        BY <1>9, <1>b, NextSteps DEF Step
    <2>2. /\ loop' \notin Halting \cup Clearing \cup Resetting \cup Beginning \cup Started
                          \cup Enqueuing
          /\ loop \notin Halting \cup Clearing \cup Resetting
          /\ loop' \in Inside /\ loop \in Inside /\ loop' \notin Outside
        BY <2>1, Distinct, Apart DEF Inside
    <2>3. state_ = "playing" /\ UNCHANGED <<shm, state_, found, register, playing_>>
        BY <1>9, <1>b, <2>1 DEF LoopOK, Enqueue
    <2>4. queue' = <<found'["loop"]>> /\ AtRead(found["loop"])'
        <3>1. queue = <<>> /\ AtRead(found["loop"]) /\ queue' = Append(queue, found["loop"])
            BY <1>9, <1>b, <1>e, <2>1, <2>2 DEF PlayOK, Silent, Enqueue
        <3> QED BY <2>3, <3>1 DEF AtRead, Unread
    <2>5. PlayOK'
        BY <1>c, <1>e, <2>1, <2>2, <2>3, <2>4 DEF PlayOK, Taking
    <2>6. WillPlay' /\ WillPlay /\ (StopOnItsWay' <=> StopOnItsWay)
        BY <1>c, <1>d, <2>2, <2>3 DEF WillPlay
    <2> QED BY <1>a, <1>c, <1>e, <2>2, <2>3, <2>5, <2>6, RingFrame
<1>10. CASE Step("set") /\ SetPlaying("loop")
    <2>1. loop \in Setting /\ loop' \in {<<>>, <<"arm", "read">>}
        BY <1>10, <1>b, NextSteps DEF Step
    <2>2. loop' \in Outside /\ loop \in Inside /\ loop \notin Halting \cup Clearing \cup Resetting
        BY <2>1, Distinct DEF Inside, Outside
    <2>3. state_ = "playing" /\ UNCHANGED <<shm, state_, register, queue>> /\ playing_' = found["loop"].n
        BY <1>10, <1>b, <2>1 DEF LoopOK, SetPlaying
    <2>4. Sounding'
        <3>1. queue = <<found["loop"]>> /\ AtRead(found["loop"]) /\ found["loop"] \in Fitting
            BY <1>b, <1>e, <2>1, <2>2 DEF PlayOK, FoundOK
        <3> QED BY <2>3, <3>1 DEF Sounding, AtRead, Unread
    <2>5. PlayOK'
        BY <1>c, <1>e, <2>2, <2>3, <2>4, LoopOutside DEF PlayOK, Taking
    <2>6. WillPlay' /\ WillPlay /\ (StopOnItsWay' <=> StopOnItsWay)
        BY <1>c, <1>d, <2>2, <2>3, LoopOutside DEF WillPlay
    <2> QED BY <1>a, <1>c, <1>e, <2>2, <2>3, <2>5, <2>6, RingFrame
<1>12. CASE Timeout /\ Found = Nothing
    <2>1. /\ loop = <<>> /\ loop' = <<>>
          /\ UNCHANGED <<shm, queue, playing_, state_, register>>
        BY <1>12 DEF Timeout, Look
    <2>2. loop \in Outside /\ loop' \in Outside
        BY <2>1 DEF Outside
    <2>3. found'["audio"] = found["audio"]
        BY <1>b, <1>12 DEF Timeout, Look, DataTypes
    <2>4. PlayOK'
        BY <1>b, <1>c, <2>1, <2>2, <2>3, LoopOutside DEF PlayOK, Taking, Silent, Sounding, AtRead,
           Unread
    <2>5. /\ StopOnItsWay' <=> StopOnItsWay
          /\ WillPlay' <=> WillPlay
          /\ WillReset' <=> WillReset
        BY <1>c, <1>d, <2>1 DEF WillPlay, WillReset
    <2>6. Taking' <=> Taking
        BY <1>c DEF Taking
    <2> QED BY <1>a, <1>c, <2>1, <2>4, <2>5, <2>6, RingFrame
<1>11. CASE Timeout /\ Found # Nothing
    <2>1. /\ loop = <<>> /\ loop' = <<"enqueue", "set">> /\ Found # Nothing /\ Look("loop")
        BY <1>11 DEF Timeout
    <2>2. loop \in Outside /\ loop' \in Enqueuing
        BY <2>1 DEF Outside, Enqueuing
    <2>3. loop' \in Inside
        BY <2>2 DEF Inside
    <2>4. callback \in {"idle", "post"}
        BY <1>a, <1>c, <2>3, NoOverlap
    <2>5. state_ = "playing" /\ playing_ = 0
        BY <1>a, <2>1, FoundFacts, ControlTypes
    <2>6. Silent
        <3>1. Silent \/ Sounding
            BY <1>b, <2>2, <2>4 DEF PlayOK
        <3>2. ~Sounding
            BY <2>5, FittingType DEF Sounding
        <3> QED BY <3>1, <3>2
    <2> QED BY <1>7, <2>1, <2>2, <2>4, <2>5, <2>6, LoopOutside
<1>5. CASE LoopReset
    <2>1. loop \in Resetting /\ loop' \in Zeroing /\ UNCHANGED <<playing_, queue, state_>>
          /\ shm' = IF buffer_ = 0 THEN shm ELSE Reset(shm)
        BY <1>5, <1>b, NextSteps DEF LoopReset, Step
    <2>2. /\ loop' \notin Halting \cup Clearing \cup Resetting \cup Beginning \cup Started
                          \cup Enqueuing \cup Setting
          /\ loop' \in Inside /\ loop \in Inside /\ loop' \notin Outside
        BY <2>1, Distinct, Apart DEF Inside
    <2>3. shm' = [shm EXCEPT !.write = 0, !.read = 0] /\ state_ = "stopped"
        BY <1>b, <2>1 DEF LoopOK, Reset
    <2>4. shm'.read = 0 /\ shm'.write = 0 /\ shm'.data = shm.data
        BY <1>b, <2>3 DEF DataTypes
    <2>n. /\ shm.read \in Nat /\ shm.write \in Nat /\ Unread \in Int /\ copied.n \in Nat
          /\ next \in Nat /\ heard[Len(heard)] \in Int /\ Expected \in Int /\ Size \in Nat
        BY <1>a, Numbers, SizeAssumption
    <2>u. Unread' = 0
        BY <2>4 DEF Unread
    <2>5. PlayOK'
        BY <1>c, <1>e, <2>2 DEF PlayOK
    <2>6. RoomOK'
        <3>1. Unread >= 0 /\ Unread + copied.n <= Size
            BY <1>a, <2>n DEF Ring, RoomOK, Unread
        <3>2. copied.n <= Size
            BY <2>n, <3>1
        <3> QED BY <1>c, <2>4, <2>u, <2>n, <3>2 DEF RoomOK
    <2>7. StopOnItsWay /\ ~WillReset' /\ (StopOnItsWay' <=> Has("stop")) /\ Empty'
        BY <1>d, <2>1, <2>2, <2>4 DEF WillReset, Empty
    <2>8. Here => SockOrder' /\ ClientOK'
        <3> SUFFICES ASSUME Here PROVE SockOrder' /\ ClientOK'
            OBVIOUS
        <3>1. SockOrder /\ ClientOK
            BY <1>a DEF Ring
        <3>2. SockOrder'
            BY <1>c, <3>1 DEF SockOrder
        <3>3. client # "copied" /\ alsa.state # "running" /\ copied.n = 0
              /\ (alsa.state = "prepared" => alsa.appl = 0 /\ alsa.hw = 0 /\ alsa.last = 0)
            BY <2>7, <3>1 DEF ClientOK
        <3>4. alsa.state \in {"setup", "prepared", "running"}
            BY <1>b DEF DataTypes, Pointers
        <3>5. ClientOK'
            BY <1>c, <2>4, <2>7, <3>1, <3>3, <3>4 DEF ClientOK
        <3> QED BY <3>2, <3>5
    <2>9. OrderOK'
        <3>1. Expected' = next - copied.n /\ Expected = next - copied.n - Unread /\ Unread >= 0
            BY SMTT(30), <1>a, <1>c, <1>e, <2>2, <2>u, <2>n DEF Expected, Ring, RoomOK, Unread
        <3>2. Expected > heard[Len(heard)]
            BY <1>a, <2>n DEF Ring, OrderOK
        <3>3. Expected' > heard[Len(heard)]
            BY <2>n, <3>1, <3>2
        <3>4. Here /\ alsa.state # "setup" => next - copied.n \in begins
            <4>1. ASSUME Here, alsa.state # "setup" PROVE alsa.appl = 0 /\ ClientOK
                <5>1. alsa.state \in {"setup", "prepared", "running"}
                    BY <1>b DEF DataTypes, Pointers
                <5> QED BY <1>a, <2>7, <4>1, <5>1 DEF Ring, ClientOK
            <4> QED BY <4>1 DEF ClientOK
        <3>5. CASE Here /\ alsa.state # "setup"
            BY <1>c, <3>1, <3>3, <3>4, <3>5 DEF OrderOK
        <3>6. CASE Here => alsa.state = "setup"
            BY <1>c, <2>u, <3>3, <3>6 DEF OrderOK, Here
        <3> QED BY <3>5, <3>6
    <2>10. RingIntact'
        <3>1. client # "copied"
            BY <1>a, <2>7 DEF Ring, ClientOK, Here
        <3> QED BY <1>c, <2>4, <3>1 DEF RingIntact
    <2>11. Stream'
        BY <1>a, <1>c DEF Ring, Stream
    <2> QED BY <1>c, <2>5, <2>6, <2>8, <2>9, <2>10, <2>11 DEF Ring, Here
<1> QED BY <1>a, <1>1, <1>2, <1>3, <1>4, <1>5, <1>6, <1>8, <1>9, <1>10, <1>11, <1>12
       DEF LoopStep, LoopCheck

-----------------------------------------------------------------------------
(* The ring: the sound system plays, and calls back *)

\* The callback takes what was played, and enqueues what follows it.
LEMMA CallbackRing ==
    ASSUME RingInv, ControlInv', KeepsApart, upset = {}, UNCHANGED <<clientVars, serverVars>>,
           CallbackStep
    PROVE  Ring'
<1> USE DEF clientVars, serverVars
<1>a. /\ UNCHANGED <<clientVars, serverVars>> /\ CallbackStep /\ ControlInv /\ Ring
    BY DEF RingInv
<1>b. CallbackOK /\ PlayOK /\ DataTypes /\ TypeOK /\ QueueOK
    BY <1>a, ControlTypes DEF ControlInv, Ring
<1>c. /\ UNCHANGED <<state_, loop, heard, sock, client, alsa, copied, next, begins>>
      /\ Has("stop")' <=> Has("stop")
      /\ Has("start")' <=> Has("start")
    BY <1>a DEF CallbackStep, CallbackState, CallbackLoad, CallbackStore, CallbackClear,
                CallbackCheck, CallbackPost, Goes, Look, Enqueue, SetPlaying, Has
<1>d. /\ StopOnItsWay' <=> StopOnItsWay
      /\ WillPlay' <=> WillPlay
      /\ WillReset' <=> WillReset
    BY <1>c DEF StopOnItsWay, WillPlay, WillReset
<1>e. callback \notin {"idle", "post"} =>
        /\ state_ = "playing" /\ loop \in Outside
        /\ loop \notin Halting \cup Started \cup Beginning \cup Enqueuing \cup Setting
    BY <1>b, LoopOutside DEF CallbackOK
<1>f. ASSUME PlayOK', UNCHANGED shm, Taking' <=> Taking, Taking => playing_' = playing_
      PROVE  Ring'
    BY <1>a, <1>c, <1>d, <1>f, RingFrame
<1>1. CASE CallbackState
    <2>1. callback = "state" /\ callback' = "load" /\ UNCHANGED <<shm, queue, playing_>>
        BY <1>1, <1>e DEF CallbackState, Goes
    <2>2. PlayOK'
        BY <1>b, <1>c, <1>e, <2>1 DEF PlayOK, Taking, Unread
    <2> QED BY <1>f, <2>1, <2>2 DEF Taking
<1>2. CASE CallbackLoad
    <2>1. /\ callback = "load" /\ UNCHANGED <<shm, queue, playing_>>
          /\ register' = [read |-> shm.read, n |-> playing_]
          /\ callback' = IF buffer_ = 0 THEN "idle" ELSE "store"
        BY <1>2 DEF CallbackLoad, Goes
    <2>2. callback' = "store"
        BY <1>b, <1>e, <2>1 DEF QueueOK
    <2>3. PlayOK'
        BY <1>b, <1>c, <1>e, <2>1, <2>2 DEF PlayOK, Taking, Unread
    <2> QED BY <1>f, <2>1, <2>2, <2>3 DEF Taking
<1>4. CASE CallbackClear
    <2>1. callback = "clear" /\ callback' = "look" /\ UNCHANGED <<shm, queue>> /\ playing_' = 0
        BY <1>4 DEF CallbackClear, Goes
    <2>2. PlayOK'
        BY <1>b, <1>c, <1>e, <2>1 DEF PlayOK, Taking, Silent
    <2> QED BY <1>f, <2>1, <2>2 DEF Taking
<1>5. CASE callback = "look" /\ CallbackCheck
    <2>1. /\ callback' = (IF Found = Nothing THEN "post" ELSE "enqueue")
          /\ UNCHANGED <<shm, queue, playing_>> /\ found'["audio"] = Found
        BY <1>5, <1>b DEF CallbackCheck, Goes, Look, DataTypes
    <2>2. Silent'
        BY <1>5, <1>b, <2>1 DEF PlayOK, Silent
    <2>3. Found # Nothing => AtRead(found["audio"])'
        BY <1>b, <2>1, FoundFacts DEF AtRead, Unread
    <2>4. PlayOK'
        BY <1>5, <1>c, <1>e, <2>1, <2>2, <2>3 DEF PlayOK, Taking
    <2> QED BY <1>5, <1>f, <2>1, <2>4 DEF Taking
<1>6. CASE callback = "enqueue" /\ CallbackCheck
    <2>1. /\ callback' = "set" /\ UNCHANGED <<shm, playing_, found>>
          /\ queue' = Append(queue, found["audio"])
        BY <1>6 DEF CallbackCheck, Goes, Enqueue
    <2>2. queue = <<>> /\ AtRead(found["audio"])
        BY <1>6, <1>b DEF PlayOK, Silent
    <2>3. queue' = <<found'["audio"]>> /\ AtRead(found["audio"])'
        BY <2>1, <2>2 DEF AtRead, Unread
    <2>4. PlayOK'
        BY <1>6, <1>c, <1>e, <2>1, <2>3 DEF PlayOK, Taking
    <2> QED BY <1>6, <1>f, <2>1, <2>4 DEF Taking
<1>7. CASE callback = "set" /\ CallbackCheck
    <2>1. /\ callback' = "post" /\ UNCHANGED <<shm, queue>> /\ playing_' = found["audio"].n
        BY <1>7 DEF CallbackCheck, Goes, SetPlaying
    <2>2. queue = <<found["audio"]>> /\ AtRead(found["audio"]) /\ found["audio"] \in Fitting
        BY <1>7, <1>a DEF Ring, PlayOK, ControlInv, FoundOK
    <2>3. Sounding'
        BY <2>1, <2>2 DEF Sounding, AtRead, Unread
    <2>4. PlayOK'
        BY <1>7, <1>c, <1>e, <2>1, <2>3 DEF PlayOK, Taking
    <2> QED BY <1>7, <1>f, <2>1, <2>4 DEF Taking
<1>8. CASE CallbackPost
    <2>1. callback = "post" /\ callback' = "idle" /\ UNCHANGED <<shm, queue, playing_, found>>
        BY <1>8 DEF CallbackPost, Goes
    <2>2. PlayOK'
        BY <1>b, <1>c, <2>1 DEF PlayOK, Taking, Silent, Sounding, AtRead, Unread
    <2> QED BY <1>f, <2>1, <2>2 DEF Taking
<1>3. CASE CallbackStore
    <2>1. /\ callback = "store" /\ callback' = "clear" /\ UNCHANGED <<queue, playing_>>
          /\ register = [read |-> shm.read, n |-> playing_]
          /\ queue = <<>> /\ playing_ \in 1 .. Unread
        BY <1>3, <1>b DEF CallbackStore, Goes, PlayOK, Taking
    <2>2. shm' = [shm EXCEPT !.read = shm.read + playing_]
        BY <1>3, <2>1 DEF CallbackStore
    <2>n. /\ shm.read \in Nat /\ shm.write \in Nat /\ Unread \in Int /\ copied.n \in Nat
          /\ next \in Nat /\ heard[Len(heard)] \in Int /\ Expected \in Int /\ Size \in Nat
          /\ playing_ \in Nat /\ Unread = shm.write - shm.read
        BY <1>a, Numbers, SizeAssumption DEF Unread
    <2>3. /\ shm'.read = shm.read + playing_ /\ shm'.write = shm.write /\ shm'.data = shm.data
        BY <1>b, <2>2 DEF DataTypes
    <2>4. playing_ >= 1 /\ playing_ <= Unread
        BY <2>1, <2>n
    <2>5. Unread' = Unread - playing_
        BY <2>3, <2>n DEF Unread
    <2>6. PlayOK'
        BY <1>c, <1>e, <2>1 DEF PlayOK, Taking
    <2>7. RoomOK'
        <3>1. Unread + copied.n <= Size
            BY <1>a DEF Ring, RoomOK
        <3>2. shm.read + playing_ <= shm.write /\ Unread - playing_ + copied.n <= Size
            BY SMTT(30), <2>n, <2>4, <3>1
        <3> QED BY <1>c, <2>3, <2>5, <3>2 DEF RoomOK
    <2>8. Here => SockOrder' /\ ClientOK'
        <3> SUFFICES ASSUME Here PROVE SockOrder' /\ ClientOK'
            OBVIOUS
        <3>1. SockOrder /\ ClientOK
            BY <1>a DEF Ring
        <3>2. ~Empty
            BY <2>4, <2>n DEF Empty
        <3>3. alsa.last <= shm.read => alsa.last <= shm'.read
            BY <1>a, <2>3, <2>n, Numbers
        <3>4. ClientOK'
            BY <1>c, <1>d, <2>3, <3>1, <3>2, <3>3 DEF ClientOK
        <3> QED BY <1>c, <3>1, <3>4 DEF SockOrder
    <2>9. OrderOK'
        <3>1. Expected' = Expected
            <4>1. Expected = next - copied.n - Unread + playing_
                BY <2>1 DEF Expected, Taking
            <4>2. Expected' = next - copied.n - (Unread - playing_) + 0
                BY <1>c, <2>1, <2>5 DEF Expected, Taking
            <4> QED BY <2>n, <4>1, <4>2
        <3>2. Unread # 0
            BY <2>4, <2>n
        <3> QED BY <1>a, <1>c, <3>1, <3>2 DEF Ring, OrderOK
    <2>10. RingIntact'
        <3>1. ASSUME NEW p \in Nat, shm'.read <= p PROVE shm.read <= p
            BY <2>3, <2>n, <3>1
        <3> QED BY <1>a, <1>c, <2>3, <3>1 DEF Ring, RingIntact
    <2>11. Stream'
        BY <1>a, <1>c DEF Ring, Stream
    <2> QED BY <1>c, <2>6, <2>7, <2>8, <2>9, <2>10, <2>11 DEF Ring, Here
<1> QED BY <1>a, <1>1, <1>2, <1>3, <1>4, <1>5, <1>6, <1>7, <1>8 DEF CallbackStep, CallbackCheck,
           Goes

\* What is played is what was to be played next.
LEMMA PlayRing ==
    ASSUME RingInv, ControlInv', KeepsApart, upset = {}, UNCHANGED <<clientVars, serverVars>>,
           Play
    PROVE  Ring'
<1> USE DEF clientVars, serverVars
<1>a. /\ UNCHANGED <<clientVars, serverVars>> /\ Play /\ ControlInv /\ Ring
    BY DEF RingInv
<1>b. /\ CallbackOK /\ PlayOK /\ DataTypes /\ CallbackOK' /\ BufferSafe /\ QueueOK
    BY <1>a DEF ControlInv, Ring
<1>c. /\ UNCHANGED <<state_, loop, shm, playing_, found, sock, client, alsa, copied, next, begins>>
      /\ callback = "idle" /\ callback' = "state" /\ queue # <<>> /\ queue' = Tail(queue)
    BY <1>a DEF Play
<1>d. loop \in Outside /\ state_ = "playing"
    BY <1>b, <1>c DEF CallbackOK
<1>1. PICK p \in Fitting : queue = <<p>> /\ AtRead(p) /\ p.n = playing_
    BY <1>b, <1>c, <1>d DEF PlayOK, Silent, Sounding
<1>2. Head(queue) = p /\ queue' = <<>> /\ queue[1] = p /\ Len(queue) = 1
    BY <1>1, <1>c
<1>3. p.of = buffer_
    BY <1>2, <1>b DEF BufferSafe
<1>4. heard' = <<Last(heard)>> \o Bytes(shm, p.at, p.n)
    BY <1>a, <1>2, <1>3 DEF Play
<1>n. /\ shm.read \in Nat /\ shm.write \in Nat /\ Unread \in Int /\ copied.n \in Nat
      /\ next \in Nat /\ heard[Len(heard)] \in Int /\ Expected \in Int /\ Size \in Nat
      /\ playing_ \in Nat /\ Unread = shm.write - shm.read /\ Len(heard) \in Nat \ {0}
      /\ heard \in Seq(0 .. MaxBytes)
    BY <1>a, Numbers, SizeAssumption DEF Unread
<1>5. /\ p.n \in Nat \ {0} /\ p.at = Cell(shm.read) /\ p.at + p.n <= Size /\ p.n <= Unread
      /\ p.at \in Nat
    BY <1>1, <1>n, FittingType, CellType DEF AtRead
<1> DEFINE first == next - copied.n - Unread
           last == heard[Len(heard)]
<1>6. Expected = first /\ first \in Int /\ last \in Int /\ last = Last(heard)
    BY <1>c, <1>n DEF Expected, Taking, Last
<1>7. first > last /\ (first = last + 1 \/ first \in begins)
    <2>1. Unread # 0
        BY <1>5, <1>n
    <2> QED BY <1>a, <1>6, <2>1 DEF Ring, OrderOK
<1>8. ASSUME NEW i \in 1 .. p.n PROVE Bytes(shm, p.at, p.n)[i] = first + i - 1
    <2>a. i \in Int /\ i >= 1 /\ i <= p.n /\ p.n \in Int
        BY <1>5
    <2>b. i - 1 \in Nat /\ p.at + (i - 1) < Size
        BY <1>5, <1>n, <2>a
    <2>c. i <= shm.write - shm.read
        BY <1>5, <1>n, <2>a
    <2>d. shm.read + (i - 1) \in Nat /\ shm.read <= shm.read + (i - 1)
          /\ shm.read + (i - 1) < shm.write
        BY <1>n, <2>a, <2>c
    <2>1. i - 1 \in Nat /\ Cell(shm.read) + (i - 1) < Size /\ shm.read + (i - 1) \in Nat
          /\ shm.read <= shm.read + (i - 1) /\ shm.read + (i - 1) < shm.write
        BY <1>5, <2>b, <2>d
    <2>2. Cell(shm.read + (i - 1)) = p.at + (i - 1)
        BY <1>5, <1>n, <2>1, Neighbours
    <2>3. shm.read + (i - 1) < shm.write + (IF client = "copied" THEN copied.n ELSE 0)
        BY <1>n, <2>1
    <2>4. shm.data[Cell(shm.read + (i - 1))] = next - copied.n - (shm.write - (shm.read + (i - 1)))
        BY <1>a, <2>1, <2>3 DEF Ring, RingIntact
    <2>5. Bytes(shm, p.at, p.n)[i] = shm.data[p.at + i - 1]
        BY DEF Bytes
    <2>6. p.at + i - 1 = p.at + (i - 1)
        BY <1>5, <2>1
    <2>7. next - copied.n - (shm.write - (shm.read + (i - 1))) = first + i - 1
        BY SMTT(30), <1>n, <2>a
    <2> QED BY <2>2, <2>4, <2>5, <2>6, <2>7
<1> HIDE DEF first, last
<1>9. /\ Len(heard') = p.n + 1 /\ heard'[1] = last
      /\ \A i \in 2 .. p.n + 1 : heard'[i] = first + i - 2
    <2> DEFINE b == Bytes(shm, p.at, p.n)
    <2>1. b \in [1 .. p.n -> Int]
        <3>1. ASSUME NEW i \in 1 .. p.n PROVE b[i] \in Int
            BY <1>6, <1>8, <3>1
        <3>2. b = [i \in 1 .. p.n |-> b[i]]
            BY DEF Bytes
        <3> QED BY <3>1, <3>2
    <2>2. b \in Seq(Int) /\ Len(b) = p.n
        BY <1>5, <2>1, FunctionIsSeq
    <2>3. <<last>> \in Seq(Int) /\ Len(<<last>>) = 1 /\ <<last>>[1] = last
        BY <1>6
    <2> DEFINE l == <<last>>
    <2>4. heard' = l \o b
        BY <1>4, <1>6
    <2>5. l \in Seq(Int) /\ Len(l) = 1 /\ l[1] = last
        BY <2>3
    <2>i. \A i \in 1 .. p.n : b[i] = first + i - 1
        BY <1>8
    <2> HIDE DEF l, b
    <2>6. /\ Len(l \o b) = Len(l) + Len(b)
          /\ \A i \in 1 .. Len(l) + Len(b) : (l \o b)[i] = IF i <= Len(l) THEN l[i] ELSE b[i - Len(l)]
        <3>1. l \in Seq(Int) /\ b \in Seq(Int)
            BY <2>2, <2>5
        <3> QED BY ONLY <3>1, ConcatProperties
    <2>7. Len(heard') = p.n + 1
        BY <1>5, <2>2, <2>4, <2>5, <2>6
    <2>8. heard'[1] = last
        <3>1. 1 \in 1 .. Len(l) + Len(b)
            BY <1>5, <2>2, <2>5
        <3> QED BY <2>4, <2>5, <2>6, <3>1
    <2>9. ASSUME NEW i \in 2 .. p.n + 1 PROVE heard'[i] = first + i - 2
        <3>1. i \in 1 .. Len(l) + Len(b) /\ ~(i <= Len(l)) /\ i - 1 \in 1 .. p.n
            BY <1>5, <2>2, <2>5
        <3>2. heard'[i] = b[i - 1]
            BY <2>4, <2>5, <2>6, <3>1
        <3>3. b[i - 1] = first + (i - 1) - 1
            BY <2>i, <3>1
        <3> QED BY <1>6, <3>1, <3>2, <3>3
    <2> QED BY <2>7, <2>8, <2>9
<1>10. heard'[Len(heard')] = first + p.n - 1
    <2>1. p.n + 1 \in 2 .. p.n + 1
        BY <1>5
    <2>2. heard'[p.n + 1] = first + (p.n + 1) - 2
        BY <1>9, <2>1
    <2> QED BY <1>5, <1>6, <1>9, <2>2
<1>11. Stream'
    <2> SUFFICES ASSUME NEW i \in 2 .. p.n + 1
                 PROVE  \/ heard'[i] = heard'[i - 1] + 1
                        \/ heard'[i] \in begins /\ heard'[i] > heard'[i - 1]
        BY <1>c, <1>9 DEF Stream
    <2>1. heard'[i] = first + i - 2
        BY <1>9
    <2>2. CASE i = 2
        <3>1. heard'[i] = first /\ heard'[i - 1] = last
            BY <1>6, <1>9, <2>1, <2>2
        <3> QED BY <1>7, <3>1
    <2>3. CASE i # 2
        <3>1. i - 1 \in 2 .. p.n + 1
            BY <1>5, <2>3
        <3>2. heard'[i - 1] = first + (i - 1) - 2
            BY <1>9, <3>1
        <3> QED BY <1>6, <2>1, <3>1, <3>2
    <2> QED BY <2>2, <2>3
<1>12. OrderOK'
    <2>1. Expected' = first + p.n
        <3>1. Expected' = next - copied.n - Unread + playing_
            BY <1>c DEF Expected, Taking, Unread
        <3> QED BY <1>1, <1>n, <3>1 DEF first
    <2> QED BY <1>5, <1>6, <1>10, <2>1 DEF OrderOK
<1>13. PlayOK'
    <2>1. playing_' \in 1 .. Unread'
        BY <1>1, <1>5, <1>c, <1>n DEF Unread
    <2> QED BY <1>c, <1>d, <1>2, <2>1 DEF PlayOK, Taking
<1>14. RoomOK' /\ RingIntact'
    BY <1>a, <1>c DEF Ring, RoomOK, RingIntact, Unread
<1>15. Here => SockOrder' /\ ClientOK'
    BY <1>a, <1>c DEF Ring, SockOrder, ClientOK, StopOnItsWay, WillPlay, WillReset, Has, Empty
<1> QED BY <1>c, <1>11, <1>12, <1>13, <1>14, <1>15 DEF Ring, Here

-----------------------------------------------------------------------------
(* The ring: steps of the client *)

\* What is with the sound system is kept by a client that only adds to the ring.
LEMMA PlayFrame ==
    ASSUME ControlInv, PlayOK, UNCHANGED ringless, shm'.read = shm.read, shm'.write \in Nat,
           shm'.write >= shm.write
    PROVE  PlayOK'
<1> USE DEF ringless
<1>1. /\ shm.read \in Nat /\ shm.write \in Nat /\ playing_ \in Nat
      /\ Unread \in Int /\ Unread' \in Int /\ Unread <= Unread'
    BY SMTT(30), Numbers DEF Unread
<1>2. ASSUME NEW p, p.n \in Nat, AtRead(p) PROVE p.at = Cell(shm'.read) /\ p.n <= Unread'
    BY <1>1, <1>2 DEF AtRead
<1>3. Sounding => Sounding'
    BY <1>2, FittingType DEF Sounding, AtRead
<1>4. playing_ \in 1 .. Unread => playing_ \in 1 .. Unread'
    BY <1>1
<1>5. callback \in {"enqueue", "set"} /\ AtRead(found["audio"]) => AtRead(found["audio"])'
    <2> SUFFICES ASSUME callback \in {"enqueue", "set"}, AtRead(found["audio"])
                 PROVE  AtRead(found["audio"])'
        OBVIOUS
    <2>1. found["audio"].n \in Nat
        BY FittingType DEF ControlInv, FoundOK
    <2> QED BY <1>2, <2>1 DEF AtRead
<1>6. loop \in Enqueuing \cup Setting /\ AtRead(found["loop"]) => AtRead(found["loop"])'
    <2> SUFFICES ASSUME loop \in Enqueuing \cup Setting, AtRead(found["loop"])
                 PROVE  AtRead(found["loop"])'
        OBVIOUS
    <2>1. found["loop"].n \in Nat
        BY FittingType DEF ControlInv, FoundOK
    <2> QED BY <1>2, <2>1 DEF AtRead
<1> QED BY <1>3, <1>4, <1>5, <1>6 DEF PlayOK, Taking, Silent

\* A code is added to the ones on their way.
LEMMA HasSent ==
    ASSUME ControlInv, NEW code \in {"map", "fds", "start", "stop"}, Send(code)
    PROVE  /\ Has("stop")' <=> Has("stop") \/ code = "stop"
           /\ Has("start")' <=> Has("start") \/ code = "start"
           /\ SockOrder /\ (code = "start" => ~Has("stop")) => SockOrder'
<1>1. /\ Len(sock) \in Nat /\ Len(sock') = Len(sock) + 1 /\ sock'[Len(sock) + 1] = code
      /\ \A i \in 1 .. Len(sock) : sock'[i] = sock[i]
    BY CodeSent DEF ControlInv
<1>2. \A i \in 1 .. Len(sock') : i \in 1 .. Len(sock) \/ i = Len(sock) + 1
    BY <1>1
<1>3. 1 .. Len(sock) \subseteq 1 .. Len(sock') /\ Len(sock) + 1 \in 1 .. Len(sock')
    BY <1>1
<1>4. ASSUME NEW c
      PROVE  (\E i \in 1 .. Len(sock') : sock'[i] = c)
                <=> (\E i \in 1 .. Len(sock) : sock[i] = c) \/ code = c
    BY <1>1, <1>2, <1>3
<1>5. ASSUME SockOrder, code = "start" => ~Has("stop") PROVE SockOrder'
    <2> SUFFICES ASSUME NEW i \in 1 .. Len(sock'), NEW j \in 1 .. Len(sock'), i < j,
                        sock'[i] = "stop"
                 PROVE  sock'[j] # "start"
        BY DEF SockOrder
    <2>1. i \in 1 .. Len(sock)
        BY <1>1
    <2>2. sock[i] = "stop" /\ Has("stop")
        BY <1>1, <2>1 DEF Has
    <2>3. CASE j \in 1 .. Len(sock)
        BY <1>1, <1>5, <2>1, <2>2, <2>3 DEF SockOrder
    <2>4. CASE j = Len(sock) + 1
        BY <1>1, <1>5, <2>2, <2>4
    <2> QED BY <1>2, <2>3, <2>4
<1> QED BY <1>4, <1>5 DEF Has

\* The client writes where there is room, and knows less than was read.
LEMMA ClientRing ==
    ASSUME RingInv, ControlInv', upset' = {}, upset = {},
           ClientRuns \/ ClientChooses \/ ClientLeaves
    PROVE  Ring'
<1> USE DEF ringless, serverVars
<1>a. /\ UNCHANGED <<ringless, serverVars>> /\ ControlInv /\ Ring /\ DataTypes
    BY DEF ClientRuns, ClientChooses, ClientLeaves, RingInv, ControlInv
<1>n. /\ shm.read \in Nat /\ shm.write \in Nat /\ Unread \in Int /\ copied.n \in Nat
      /\ next \in Nat /\ heard[Len(heard)] \in Int /\ Expected \in Int /\ Size \in Nat
      /\ playing_ \in Nat /\ Unread = shm.write - shm.read
      /\ alsa.appl \in Nat /\ alsa.last \in Nat /\ alsa.hw \in Int
    BY <1>a, Numbers, SizeAssumption DEF Unread
<1>s. alsa.state \in {"setup", "prepared", "running"}
    BY <1>a DEF DataTypes, Pointers
<1>t. Taking' <=> Taking
    BY <1>a DEF Taking
<1>w. /\ UNCHANGED sock => (StopOnItsWay' <=> StopOnItsWay) /\ (WillPlay' <=> WillPlay)
      /\ WillReset' <=> WillReset
    BY <1>a DEF StopOnItsWay, WillPlay, WillReset, Has
<1>x. ASSUME NEW code \in {"map", "fds", "start", "stop"}, Send(code)
      PROVE  /\ StopOnItsWay' <=> StopOnItsWay \/ code = "stop"
             /\ WillPlay' <=> WillPlay \/ code = "start"
             /\ SockOrder /\ (code = "start" => ~StopOnItsWay) => SockOrder'
    <2>1. /\ Has("stop")' <=> Has("stop") \/ code = "stop"
          /\ Has("start")' <=> Has("start") \/ code = "start"
          /\ SockOrder /\ (code = "start" => ~Has("stop")) => SockOrder'
        BY <1>a, <1>x, HasSent
    <2>2. Has("stop") => StopOnItsWay
        BY DEF Has, StopOnItsWay
    <2>3. /\ StopOnItsWay <=> Has("stop") \/ loop \in Halting \cup Clearing \cup Resetting
          /\ StopOnItsWay' <=> Has("stop")' \/ loop' \in Halting \cup Clearing \cup Resetting
        BY <1>a, StopIsWhere
    <2> QED BY <1>a, <2>1, <2>2, <2>3 DEF WillPlay
<1>y. Touches => ~StopOnItsWay
    BY DEF Touches
\* The ring is not touched, and nothing that is copied becomes visible.
<1>f. ASSUME UNCHANGED <<shm, copied, next>>, client # "copied", client' # "copied",
             begins \subseteq begins', Here' => SockOrder' /\ ClientOK',
             Unread = 0 /\ (Here => alsa.state = "setup") =>
                Expected \in begins' \/ (Here' => alsa'.state = "setup")
      PROVE  Ring'
    <2>1. PlayOK'
        BY <1>a, <1>f, <1>n, PlayFrame DEF Ring
    <2>2. RoomOK' /\ RingIntact'
        BY <1>a, <1>f DEF Ring, RoomOK, RingIntact, Unread
    <2>3. Stream'
        BY <1>a, <1>f DEF Ring, Stream
    <2>4. Expected' = Expected /\ Unread' = Unread
        BY <1>a, <1>f, <1>t DEF Expected, Unread
    <2>5. OrderOK'
        BY <1>a, <1>f, <2>4 DEF Ring, OrderOK
    <2> QED BY <1>f, <2>1, <2>2, <2>3, <2>5 DEF Ring
<1>1. CASE (SendCode \/ SendFds) /\ UNCHANGED shm
    <2>1. PICK code \in {"map", "fds"} : Send(code)
        BY <1>1 DEF SendCode, SendFds
    <2>2. /\ client \in {"code", "fds"} /\ client' \in {"fds", "ready"} /\ Here
          /\ UNCHANGED <<copied, next, alsa, begins>>
        BY <1>1 DEF SendCode, SendFds, Here
    <2>3. (StopOnItsWay' <=> StopOnItsWay) /\ (WillPlay' <=> WillPlay) /\ (SockOrder => SockOrder')
        BY <1>x, <2>1
    <2>4. SockOrder' /\ ClientOK' /\ alsa.state = "setup"
        BY <1>1, <1>a, <1>w, <2>2, <2>3 DEF Ring, ClientOK, Empty
    <2> QED BY <1>1, <1>f, <2>2, <2>4
<1>2. CASE Prepare /\ UNCHANGED shm
    <2>1. /\ client = "ready" /\ client' = "ready" /\ alsa.state = "setup" /\ Here
          /\ alsa'.state = "prepared" /\ alsa'.appl = 0 /\ alsa'.hw = 0 /\ alsa'.last = 0
          /\ begins' = begins \cup {next} /\ UNCHANGED <<sock, copied, next>>
        BY <1>2 DEF Prepare, Here
    <2>2. SockOrder /\ ClientOK /\ SockOrder' /\ copied.n = 0
        BY <1>a, <2>1 DEF Ring, SockOrder, ClientOK
    <2>3. next - copied.n = next
        BY <1>n, <2>2
    <2>4. ClientOK'
        BY <1>2, <1>n, <1>w, <2>1, <2>2, <2>3 DEF ClientOK, Empty
    <2>5. Unread = 0 => Expected = next
        <3> SUFFICES ASSUME Unread = 0 PROVE Expected = next
            OBVIOUS
        <3>1. ~Taking
            BY <1>a, <1>n DEF Ring, PlayOK
        <3> QED BY <1>n, <2>2, <3>1 DEF Expected
    <2> QED BY <1>2, <1>f, <2>1, <2>2, <2>4, <2>5
<1>3. ASSUME NEW size \in 1 .. Size, WriteCopy(size) PROVE Ring'
    <2> DEFINE m == IF size > Period THEN Period ELSE size
               n == Contiguous(shm.write, m)
    <2>1. m \in Nat \ {0} /\ m <= size /\ size \in Nat
        BY <1>n, PeriodAssumption
    <2> HIDE DEF m
    <2>2. n \in Nat \ {0} /\ n <= m /\ Cell(shm.write) + n <= Size
        BY <1>n, <2>1, Granted
    <2>3. /\ client = "ready" /\ client' = "copied" /\ alsa.state # "setup" /\ size <= Avail
          /\ shm' = Copied(shm, next, n) /\ copied' = [at |-> shm.write, n |-> n]
          /\ next' = next + n /\ ~StopOnItsWay /\ UNCHANGED <<sock, alsa, begins>>
        BY <1>3, <1>y DEF WriteCopy, m
    <2> HIDE DEF n
    <2>4. Here /\ Here' /\ SockOrder /\ ClientOK /\ copied.n = 0
        BY <1>a, <2>3 DEF Ring, Here, ClientOK
    <2>5. shm.write = alsa.appl /\ alsa.hw = alsa.last /\ alsa.last <= shm.read
        BY <2>3, <2>4 DEF ClientOK
    <2>6. Unread + n <= Size
        <3>1. n <= Size - (alsa.appl - alsa.hw)
            BY <1>n, <2>1, <2>2, <2>3 DEF Avail
        <3> QED BY <1>n, <2>2, <2>5, <3>1
    <2>7. /\ shm'.read = shm.read /\ shm'.write = shm.write /\ copied'.n = n /\ copied'.at = shm.write
          /\ Unread' = Unread
        BY <1>a, <2>3 DEF DataTypes, Copied, Unread
    <2>8. next' - copied'.n = next - copied.n
        BY <1>n, <2>2, <2>3, <2>4, <2>7
    <2>9. PlayOK'
        BY <1>a, <1>n, <2>7, PlayFrame DEF Ring
    <2>10. RoomOK'
        BY <1>a, <2>6, <2>7 DEF Ring, RoomOK
    <2>11. SockOrder' /\ ClientOK'
        BY <1>w, <2>3, <2>4, <2>7, <2>8 DEF ClientOK, SockOrder, Empty
    <2>12. OrderOK'
        <3>1. Expected' = Expected
            BY <1>a, <1>t, <2>7, <2>8 DEF Expected
        <3> QED BY <1>a, <2>3, <2>4, <2>7, <3>1 DEF Ring, OrderOK
    <2>13. RingIntact'
        <3> SUFFICES ASSUME NEW p \in Nat, shm.read <= p, p < shm.write + n
                     PROVE  shm'.data[Cell(p)] = next - (shm.write - p)
            <4>1. next' - copied'.n = next
                BY <1>n, <2>4, <2>8
            <4> QED BY <2>3, <2>7, <4>1 DEF RingIntact
        <3> DEFINE w == Cell(shm.write)
        <3>1. w \in Nat /\ Cell(p) \in Nat /\ Cell(p) \in Cells
            BY <1>n, CellType
        <3>2. shm'.data[Cell(p)] = IF Cell(p) \in w .. w + n - 1 THEN next + Cell(p) - w
                                   ELSE shm.data[Cell(p)]
            BY <1>a, <2>3, <3>1 DEF Copied, DataTypes
        <3>3. CASE p < shm.write
            <4>1. Cell(p) \notin w .. w + n - 1
                <5> SUFFICES ASSUME Cell(p) \in w .. w + n - 1 PROVE FALSE
                    OBVIOUS
                <5> DEFINE k == Cell(p) - w
                           q == shm.write + k
                <5>1. k \in Nat /\ k < n /\ w + k = Cell(p)
                    BY <2>2, <3>1
                <5> HIDE DEF k
                <5>2. w + k < Size
                    BY <1>n, <2>2, <3>1, <5>1
                <5>3. Cell(q) = w + k
                    BY <1>n, <5>1, <5>2, Neighbours
                <5>4. q \in Nat /\ p < q /\ q < p + Size
                    <6>1. (shm.write - shm.read) + n <= Size
                        BY <1>n, <2>6
                    <6>2. shm.write \in Int /\ shm.read \in Int /\ Size \in Int /\ n \in Int
                        BY SMTT(30), <1>n, <2>2
                    <6>3. shm.write + k < shm.read + Size
                        BY ONLY <6>1, <6>2, <5>1
                    <6>4. p < shm.write + k /\ shm.write + k \in Nat
                        BY SMTT(30), <1>n, <3>3, <5>1
                    <6>5. shm.read + Size <= p + Size
                        BY <6>2
                    <6> QED BY <6>2, <6>3, <6>4, <6>5
                <5> HIDE DEF q
                <5> QED BY <5>1, <5>3, <5>4, CellsDiffer
            <4>2. p < shm.write + (IF client = "copied" THEN copied.n ELSE 0)
                BY <1>n, <3>3
            <4>3. shm.data[Cell(p)] = next - copied.n - (shm.write - p)
                BY <1>a, <4>2 DEF Ring, RingIntact
            <4>4. next - copied.n = next
                BY <1>n, <2>4
            <4> QED BY <3>2, <4>1, <4>3, <4>4
        <3>4. CASE ~(p < shm.write)
            <4> DEFINE k == p - shm.write
            <4>1. k \in Nat /\ k < n /\ shm.write + k = p
                <5>1. shm.write \in Nat /\ n \in Nat /\ p \in Nat
                    BY <1>n, <2>2
                <5>2. p < shm.write + n
                    OBVIOUS
                <5> QED BY ONLY <3>4, <5>1, <5>2 DEF k
            <4> HIDE DEF k
            <4>2. w + k < Size
                BY <1>n, <2>2, <3>1, <4>1
            <4>3. Cell(p) = w + k
                BY <1>n, <4>1, <4>2, Neighbours
            <4>4. Cell(p) \in w .. w + n - 1
                BY <2>2, <3>1, <4>1, <4>3
            <4>5. next + Cell(p) - w = next - (shm.write - p)
                <5>1. next + (w + k) - w = next - (shm.write - (shm.write + k))
                    BY <1>n, <3>1, <4>1
                <5> QED BY <4>1, <4>3, <5>1
            <4> QED BY <3>2, <4>4, <4>5
        <3> QED BY <3>3, <3>4
    <2>14. Stream'
        BY <1>a, <2>3 DEF Ring, Stream
    <2> QED BY <2>9, <2>10, <2>11, <2>12, <2>13, <2>14 DEF Ring
<1>4. CASE WriteFinish
    <2>1. /\ client = "copied" /\ client' = "ready" /\ ~StopOnItsWay
          /\ alsa' = [alsa EXCEPT !.appl = @ + copied.n] /\ copied' = [at |-> 0, n |-> 0]
          /\ UNCHANGED <<sock, next, begins>>
        BY <1>4, <1>y DEF WriteFinish
    <2>2. Here /\ Here' /\ SockOrder /\ ClientOK /\ copied.at = shm.write /\ alsa.state # "setup"
        BY <1>a, <2>1 DEF Ring, Here, ClientOK
    <2>3. shm' = [shm EXCEPT !.write = shm.write + copied.n]
        BY <1>4, <2>2 DEF WriteFinish
    <2>4. /\ shm'.read = shm.read /\ shm'.write = shm.write + copied.n /\ shm'.data = shm.data
          /\ copied'.n = 0
        BY <1>a, <2>1, <2>3 DEF DataTypes
    <2>5. /\ alsa'.state = alsa.state /\ alsa'.appl = alsa.appl + copied.n
          /\ alsa'.hw = alsa.hw /\ alsa'.last = alsa.last
        BY <1>a, <2>1 DEF DataTypes, Pointers
    <2>6. Unread' = Unread + copied.n
        BY <1>n, <2>4 DEF Unread
    <2>7. PlayOK'
        BY <1>a, <1>n, <2>4, PlayFrame DEF Ring
    <2>8. RoomOK'
        <3>1. shm.read <= shm.write /\ Unread + copied.n <= Size
            BY <1>a DEF Ring, RoomOK
        <3>2. shm.read <= shm.write + copied.n /\ Unread + copied.n + 0 <= Size
            BY SMTT(30), <1>n, <3>1
        <3> QED BY <2>4, <2>6, <3>2 DEF RoomOK
    <2>9. SockOrder' /\ ClientOK'
        <3>1. shm.write = alsa.appl /\ alsa.hw = alsa.last /\ alsa.last <= shm.read
            BY <2>1, <2>2 DEF ClientOK
        <3>2. ASSUME alsa'.appl = 0 PROVE next - copied'.n \in begins
            <4>1. alsa.appl = 0 /\ copied.n = 0
                BY <1>n, <2>5, <3>2
            <4> QED BY <2>2, <2>4, <4>1 DEF ClientOK
        <3> QED BY <1>w, <2>1, <2>2, <2>4, <2>5, <3>1, <3>2 DEF ClientOK, SockOrder
    <2>10. OrderOK'
        <3>1. Expected' = Expected
            <4> DEFINE extra == IF Taking THEN playing_ ELSE 0
            <4>1. Expected = next - copied.n - Unread + extra /\ extra \in Int
                BY <1>n DEF Expected
            <4>2. Expected' = next - 0 - (Unread + copied.n) + extra
                BY <1>a, <1>t, <2>1, <2>4, <2>6 DEF Expected
            <4> HIDE DEF extra
            <4> QED BY <1>n, <4>1, <4>2
        <3> QED BY <1>a, <2>1, <2>2, <3>1 DEF Ring, OrderOK
    <2>11. RingIntact'
        <3> SUFFICES ASSUME NEW p \in Nat, shm.read <= p, p < shm.write + copied.n
                     PROVE  shm.data[Cell(p)] = next - 0 - ((shm.write + copied.n) - p)
            <4>1. (shm.write + copied.n) + 0 = shm.write + copied.n
                BY <1>n
            <4> QED BY <2>1, <2>4, <4>1 DEF RingIntact
        <3>1. shm.data[Cell(p)] = next - copied.n - (shm.write - p)
            BY <1>a, <2>1 DEF Ring, RingIntact
        <3>2. next - copied.n - (shm.write - p) = next - 0 - ((shm.write + copied.n) - p)
            BY SMTT(30), <1>n
        <3> QED BY <3>1, <3>2
    <2>12. Stream'
        BY <1>a, <2>1 DEF Ring, Stream
    <2> QED BY <2>7, <2>8, <2>9, <2>10, <2>11, <2>12 DEF Ring
<1>5. CASE (PointerReceive \/ PollRevents) /\ UNCHANGED shm
    <2>1. /\ client \in {"ready", "woken", "poll"} /\ client' \in {"pointer", "woken"} /\ Here
          /\ UNCHANGED <<sock, copied, next, alsa, begins>>
          /\ (client = "poll" \/ alsa.state # "setup")
        BY <1>5 DEF PointerReceive, PollRevents, Here
    <2>2. SockOrder' /\ ClientOK' /\ alsa.state # "setup"
        BY <1>5, <1>a, <1>w, <2>1 DEF Ring, ClientOK, SockOrder, Empty
    <2> QED BY <1>5, <1>f, <2>1, <2>2
<1>6. CASE PointerRead /\ UNCHANGED shm
    <2>1. /\ client = "pointer" /\ Here /\ ~StopOnItsWay /\ alsa' = HwUpdated(shm.read)
          /\ client' \in {"ready", "poll"} /\ UNCHANGED <<sock, copied, next, begins>>
        BY <1>6, <1>y DEF PointerRead, Here
    <2>2. SockOrder /\ ClientOK /\ alsa.state # "setup"
        BY <1>a, <2>1 DEF Ring, ClientOK
    <2>3. alsa.hw = alsa.last /\ alsa.last <= shm.read
        BY <2>1, <2>2 DEF ClientOK
    <2>4. /\ alsa'.state = alsa.state /\ alsa'.appl = alsa.appl /\ alsa'.last = shm.read
          /\ alsa'.hw = alsa.hw + (IF shm.read >= alsa.last THEN 0 ELSE Size) + shm.read - alsa.last
        BY <1>a, <2>1 DEF DataTypes, Pointers, HwUpdated
    <2>5. alsa'.hw = shm.read
        BY <1>n, <2>3, <2>4
    <2>6. SockOrder' /\ ClientOK'
        BY <1>6, <1>n, <1>w, <2>1, <2>2, <2>4, <2>5 DEF ClientOK, SockOrder
    <2> QED BY <1>6, <1>f, <2>1, <2>2, <2>6
<1>7. CASE SparkleStart /\ UNCHANGED shm
    <2>1. /\ client = "ready" /\ client' = "ready" /\ Here /\ alsa.state = "prepared" /\ alsa.appl > 0
          /\ Send("start") /\ UNCHANGED <<copied, next, begins>>
          /\ alsa' = [alsa EXCEPT !.state = "running"]
        BY <1>7 DEF SparkleStart, Here
    <2>2. SockOrder /\ ClientOK
        BY <1>a, <2>1 DEF Ring
    <2>3. ~StopOnItsWay
        BY <1>n, <2>1, <2>2 DEF ClientOK
    <2>4. ~StopOnItsWay' /\ WillPlay' /\ SockOrder'
        BY <1>x, <2>1, <2>2, <2>3
    <2>5. /\ alsa'.state = "running" /\ alsa'.appl = alsa.appl
          /\ alsa'.hw = alsa.hw /\ alsa'.last = alsa.last
        BY <1>a, <2>1 DEF DataTypes, Pointers
    <2>6. ClientOK'
        BY <1>7, <2>1, <2>2, <2>3, <2>4, <2>5 DEF ClientOK
    <2> QED BY <1>7, <1>f, <2>1, <2>4, <2>6
<1>8. CASE SparkleStop /\ UNCHANGED shm
    <2>1. /\ client = "ready" /\ client' = "ready" /\ Here /\ alsa.state # "setup"
          /\ Send("stop") /\ UNCHANGED <<copied, next, begins>>
          /\ alsa' = [alsa EXCEPT !.state = "setup"]
          /\ ~(alsa.state = "prepared" /\ alsa.appl > 0)
        BY <1>8 DEF SparkleStop, Here
    <2>2. SockOrder /\ ClientOK
        BY <1>a, <2>1 DEF Ring
    <2>3. StopOnItsWay' /\ SockOrder' /\ (WillPlay' <=> WillPlay)
        BY <1>x, <2>1, <2>2
    <2>4. alsa'.state = "setup"
        BY <1>a, <2>1 DEF DataTypes, Pointers
    <2>5. ~WillPlay /\ ~WillReset => Empty
        <3> SUFFICES ASSUME ~WillPlay, ~WillReset, ~StopOnItsWay PROVE Empty
            BY <2>2 DEF ClientOK
        <3>1. alsa.state = "prepared"
            BY <1>s, <2>1, <2>2 DEF ClientOK
        <3>2. alsa.appl = 0
            BY <1>n, <2>1, <3>1
        <3>3. shm.write = 0
            BY <2>1, <2>2, <3>2 DEF ClientOK
        <3>4. shm.read <= shm.write
            BY <1>a DEF Ring, RoomOK
        <3> QED BY <1>n, <3>3, <3>4 DEF Empty
    <2>6. ClientOK'
        BY <1>8, <1>w, <2>1, <2>2, <2>3, <2>4, <2>5 DEF ClientOK, Empty
    <2> QED BY <1>8, <1>f, <2>1, <2>3, <2>4, <2>6
<1>9. CASE Leave /\ UNCHANGED shm
    <2>1. client' = "gone" /\ ~Here' /\ UNCHANGED <<sock, copied, next, alsa, begins>>
        BY <1>9 DEF Leave, Here
    <2>2. PlayOK'
        BY <1>9, <1>a, <1>n, PlayFrame DEF Ring
    <2>3. RoomOK' /\ Stream'
        BY <1>9, <1>a, <2>1 DEF Ring, RoomOK, Stream, Unread
    <2>4. RingIntact'
        <3> SUFFICES ASSUME NEW p \in Nat, shm.read <= p, p < shm.write + 0
                     PROVE  shm.data[Cell(p)] = next - copied.n - (shm.write - p)
            BY <1>9, <2>1 DEF RingIntact
        <3>1. p < shm.write + (IF client = "copied" THEN copied.n ELSE 0)
            BY <1>n
        <3> QED BY <1>a, <3>1 DEF Ring, RingIntact
    <2>5. OrderOK'
        <3>1. Expected' = Expected /\ Unread' = Unread
            BY <1>9, <1>a, <1>t, <2>1 DEF Expected, Unread
        <3> QED BY <1>a, <2>1, <3>1 DEF Ring, OrderOK
    <2> QED BY <2>1, <2>2, <2>3, <2>4, <2>5 DEF Ring
<1> QED BY <1>1, <1>2, <1>3, <1>4, <1>5, <1>6, <1>7, <1>8, <1>9
        DEF ClientRuns, ClientChooses, ClientLeaves

-----------------------------------------------------------------------------
(* The ring: steps of the server *)

\* The first code is read.
LEMMA HasRead ==
    ASSUME ControlInv, sock # <<>>, sock' = Tail(sock)
    PROVE  /\ Has("stop") <=> sock[1] = "stop" \/ Has("stop")'
           /\ Has("start") <=> sock[1] = "start" \/ Has("start")'
           /\ SockOrder => SockOrder' /\ (sock[1] = "stop" => ~Has("start"))
<1>1. /\ Len(sock) \in Nat /\ Len(sock') = Len(sock) - 1 /\ Len(sock) > 0
      /\ \A i \in 1 .. Len(sock') : sock'[i] = sock[i + 1]
    BY CodeRead DEF ControlInv
<1>2. \A i \in 1 .. Len(sock') : i + 1 \in 1 .. Len(sock)
    BY <1>1
<1>3. ASSUME NEW i \in 1 .. Len(sock), i # 1 PROVE i - 1 \in 1 .. Len(sock') /\ sock'[i - 1] = sock[i]
    <2>1. i - 1 \in 1 .. Len(sock') /\ (i - 1) + 1 = i
        BY <1>1, <1>3
    <2>2. sock'[i - 1] = sock[(i - 1) + 1]
        BY <1>1, <2>1
    <2> QED BY <2>1, <2>2
<1>4. 1 \in 1 .. Len(sock)
    BY <1>1
<1>5. ASSUME NEW c
      PROVE  (\E i \in 1 .. Len(sock) : sock[i] = c)
                <=> sock[1] = c \/ (\E i \in 1 .. Len(sock') : sock'[i] = c)
    <2>1. ASSUME NEW i \in 1 .. Len(sock), sock[i] = c, sock[1] # c
          PROVE  \E j \in 1 .. Len(sock') : sock'[j] = c
        <3>1. i - 1 \in 1 .. Len(sock') /\ sock'[i - 1] = c
            BY <1>3, <2>1
        <3> QED BY <3>1
    <2>2. ASSUME NEW i \in 1 .. Len(sock'), sock'[i] = c
          PROVE  \E j \in 1 .. Len(sock) : sock[j] = c
        <3>1. i + 1 \in 1 .. Len(sock) /\ sock[i + 1] = c
            BY <1>1, <1>2, <2>2
        <3> QED BY <3>1
    <2> QED BY <1>4, <2>1, <2>2
<1>6. ASSUME SockOrder PROVE SockOrder' /\ (sock[1] = "stop" => ~Has("start"))
    <2>1. SockOrder'
        <3> SUFFICES ASSUME NEW i \in 1 .. Len(sock'), NEW j \in 1 .. Len(sock'), i < j,
                            sock'[i] = "stop"
                     PROVE  sock'[j] # "start"
            BY DEF SockOrder
        <3>1. i + 1 \in 1 .. Len(sock) /\ j + 1 \in 1 .. Len(sock) /\ i + 1 < j + 1
            BY <1>1, <1>2
        <3>2. sock[i + 1] = "stop" /\ sock'[j] = sock[j + 1]
            BY <1>1
        <3> QED BY <1>6, <3>1, <3>2 DEF SockOrder
    <2>2. ASSUME sock[1] = "stop", NEW j \in 1 .. Len(sock) PROVE sock[j] # "start"
        <3>1. j = 1 \/ 1 < j
            OBVIOUS
        <3> QED BY <1>4, <1>6, <2>2, <3>1 DEF SockOrder
    <2> QED BY <2>1, <2>2 DEF Has
<1> QED BY <1>5, <1>6 DEF Has

\* What is with the sound system, when the loop goes from outside to outside of the player
LEMMA PlayOutside ==
    ASSUME PlayOK, loop \in Outside, loop' \in Outside,
           UNCHANGED <<state_, playing_, shm, callback, register, found, queue>>
    PROVE  PlayOK'
    BY LoopOutside DEF PlayOK, Taking, Silent, Sounding, AtRead, Unread

\* Events, and the loop's read(), leave the ring alone.
LEMMA EventRing ==
    ASSUME RingInv, ControlInv', KeepsApart, upset = {},
           NewConnection \/ DataIn \/ Disconnected \/ Played
    PROVE  Ring'
<1>a. ControlInv /\ Ring /\ PlayOK
    BY DEF RingInv, Ring
<1>b. /\ loop = <<>> /\ loop \in Outside
      /\ UNCHANGED <<state_, playing_, buffer_, timer, shm, callback, register, found, queue, heard,
                     sock, client, alsa, copied, next, begins, connected_>>
    BY DEF NewConnection, DataIn, Disconnected, Played, Does, clientVars, Outside
<1>c. loop \notin Halting \cup Clearing \cup Resetting \cup Beginning
    BY <1>b, LoopOutside
<1>d. Has("stop")' = Has("stop") /\ Has("start")' = Has("start") /\ (Taking' <=> Taking)
    BY <1>b DEF Has, Taking
<1>e. /\ StopOnItsWay <=> Has("stop")
      /\ StopOnItsWay' <=> Has("stop") \/ loop' \in Halting \cup Clearing \cup Resetting
    BY <1>a, <1>c, <1>d, StopIsWhere
<1>1. CASE loop' \in Outside
    <2>1. PlayOK'
        BY <1>1, <1>a, <1>b, PlayOutside
    <2>2. (StopOnItsWay' <=> StopOnItsWay) /\ (WillPlay' <=> WillPlay) /\ ~WillReset /\ ~WillReset'
        BY <1>1, <1>b, <1>c, <1>d, <1>e, LoopOutside DEF WillPlay, WillReset
    <2> QED BY <1>a, <1>b, <1>d, <2>1, <2>2, RingFrame
<1>2. CASE Disconnected /\ loop' \notin Outside
    <2>1. loop' = Stop \o <<"unmap">> /\ client = "gone" /\ connected_
        BY <1>2 DEF Disconnected, Disconnect, Does
    <2>2. state_ # "stopped"
        BY <1>2, <2>1, StopShapes DEF Outside
    <2>3. loop' = <<"halt", "clear", "reset", "zero", "unmap">>
        BY <2>1, <2>2, StopShapes
    <2>4. loop' \in Halting
        BY <2>3 DEF Halting
    <2>5. /\ loop' \notin Clearing \cup Resetting \cup Beginning \cup Started \cup Enqueuing
                          \cup Setting
          /\ loop' \in Inside
        BY <2>4, Distinct DEF Inside
    <2>6. callback' \in {"idle", "post"}
        BY <2>5, NoOverlap
    <2>7. PlayOK'
        BY <1>2, <1>a, <1>b, <2>2, <2>4, <2>5, <2>6 DEF PlayOK, Taking, Silent, Sounding, AtRead,
           Unread
    <2>8. ~Here /\ ~Here'
        BY <1>b, <2>1 DEF Here
    <2>9. RoomOK' /\ RingIntact' /\ Stream'
        BY <1>a, <1>b DEF Ring, RoomOK, RingIntact, Stream, Unread
    <2>10. OrderOK'
        <3>1. Expected' = Expected /\ Unread' = Unread
            BY <1>b, <1>d DEF Expected, Unread
        <3> QED BY <1>a, <1>b, <2>8, <3>1 DEF Ring, OrderOK
    <2> QED BY <2>7, <2>8, <2>9, <2>10 DEF Ring
<1>3. ASSUME ~Disconnected PROVE loop' \in Outside
    <2>1. CASE NewConnection /\ ~connected_
        <3>1. buffer_ = 0
            BY <1>a, <2>1 DEF ControlInv, SockOK
        <3>2. state_ = "stopped"
            BY <1>a, <3>1, Unmapped
        <3>3. loop' = <<"accept">>
            BY <2>1, <3>2, StopShapes DEF NewConnection, Does
        <3> QED BY <3>3 DEF Outside
    <2>2. CASE NewConnection /\ connected_
        BY <2>2 DEF NewConnection, Does, Outside
    <2>3. CASE DataIn \/ Played
        BY <2>3 DEF DataIn, Played, Does, Outside
    <2> QED BY <1>3, <2>1, <2>2, <2>3
<1> QED BY <1>1, <1>2, <1>3

\* A client that connects does not touch the ring.
LEMMA ConnectRing ==
    ASSUME RingInv, upset = {}, Connect
    PROVE  Ring'
<1> USE DEF Connect, playerVars, clientVars
<1>1. Ring
    BY DEF RingInv
<1>2. PlayOK' /\ RoomOK' /\ RingIntact' /\ Stream'
    BY <1>1 DEF Ring, PlayOK, Taking, Silent, Sounding, AtRead, Unread, RoomOK, RingIntact, Stream
<1>3. Here => SockOrder' /\ ClientOK'
    BY <1>1 DEF Ring, SockOrder, ClientOK, StopOnItsWay, WillPlay, WillReset, Has, Empty
<1>4. OrderOK'
    BY <1>1 DEF Ring, OrderOK, Expected, Unread, Taking, Here
<1> QED BY <1>2, <1>3, <1>4 DEF Ring, Here

\* A new client has a new ring.
LEMMA AcceptRing ==
    ASSUME RingInv, ControlInv', upset = {}, Accept
    PROVE  Ring'
<1> USE DEF Accept
<1>a. ControlInv /\ Ring /\ LoopOK /\ SockOK /\ DataTypes
    BY DEF RingInv, ControlInv
<1>1. loop = <<"accept">> /\ loop' = <<>> /\ UNCHANGED callback
    BY <1>a, NextSteps DEF Step, LoopOK
<1>2. loop \in Outside /\ loop' \in Outside
    BY <1>1 DEF Outside
<1>3. sock = <<>> /\ buffer_ = 0
    BY <1>a, <1>1 DEF SockOK, LoopOK
<1>4. queue = <<>> /\ state_ = "stopped" /\ callback \in {"idle", "post"}
    BY <1>a, <1>2, <1>3, Unmapped, LoopOutside
<1>5. playing_ = 0
    BY <1>a, <1>2, <1>4 DEF Ring, PlayOK
<1>n. /\ Unread \in Int /\ copied.n \in Nat /\ shm.read \in Nat /\ shm.write \in Nat
      /\ next \in Nat /\ heard[Len(heard)] \in Int /\ Size \in Nat
    BY <1>a, Numbers, SizeAssumption
<1>6. shm'.read = 0 /\ shm'.write = 0 /\ copied'.n = 0 /\ Unread' = 0 /\ alsa'.state = "setup"
    BY DEF Initialized, Unread
<1>7. PlayOK'
    BY <1>1, <1>2, <1>4, <1>5, LoopOutside DEF PlayOK, Taking, Silent
<1>8. RoomOK'
    BY <1>6, <1>n DEF RoomOK
<1>9. ~StopOnItsWay' /\ SockOrder'
    BY <1>1, <1>3 DEF StopOnItsWay, SockOrder
<1>10. ClientOK'
    BY <1>6, <1>9 DEF ClientOK, Empty
<1>11. OrderOK'
    <2>1. Expected = next - copied.n - Unread /\ Expected' = next
        BY <1>1, <1>4, <1>6, <1>n DEF Expected, Taking
    <2>2. Expected > heard[Len(heard)]
        BY <1>a, <1>n, <2>1 DEF Ring, OrderOK
    <2>3. Unread >= 0
        BY <1>a, <1>n DEF Ring, RoomOK, Unread
    <2>4. next > heard[Len(heard)]
        BY <1>n, <2>1, <2>2, <2>3
    <2> QED BY <1>6, <2>1, <2>4 DEF OrderOK
<1>12. RingIntact' /\ Stream'
    BY <1>a, <1>6 DEF Ring, RingIntact, Stream
<1> QED BY <1>7, <1>8, <1>9, <1>10, <1>11, <1>12 DEF Ring

\* read() begins to start or to stop; a stop that has nothing to stop finds the ring empty.
LEMMA ReadRing ==
    ASSUME RingInv, ControlInv', KeepsApart, upset = {}, Read
    PROVE  Ring'
<1>a. /\ ControlInv /\ Ring /\ PlayOK /\ LoopOK /\ DataTypes /\ SockOK /\ LoopOK' /\ CallbackOK'
      /\ QueueOK
    BY DEF RingInv, ControlInv, Ring
<1>b. /\ UNCHANGED <<state_, playing_, buffer_, shm, callback, register, found, queue, heard,
                     client, alsa, copied, next, begins>>
      /\ loop # <<>> /\ Head(loop) = "read"
    BY DEF Read
<1>c. loop = <<"read">> /\ Tail(loop) = <<>> /\ loop \in Outside
    BY <1>a, <1>b, NextSteps DEF LoopOK, Outside
<1>d. loop \notin Halting \cup Clearing \cup Resetting \cup Beginning \cup Started
                  \cup Enqueuing \cup Setting
    BY <1>c, LoopOutside
<1>e. Taking' <=> Taking
    BY <1>b DEF Taking
<1>f. ASSUME PlayOK', Here => SockOrder' /\ ClientOK' PROVE Ring'
    <2>1. RoomOK' /\ RingIntact' /\ Stream'
        BY <1>a, <1>b DEF Ring, RoomOK, RingIntact, Stream, Unread
    <2>2. OrderOK'
        <3>1. Expected' = Expected /\ Unread' = Unread
            BY <1>b, <1>e DEF Expected, Unread
        <3> QED BY <1>a, <1>b, <3>1 DEF Ring, OrderOK, Here
    <2> QED BY <1>b, <1>f, <2>1, <2>2 DEF Ring, Here
<1>g. /\ StopOnItsWay <=> Has("stop")
      /\ StopOnItsWay' <=> Has("stop")' \/ loop' \in Halting \cup Clearing \cup Resetting
    BY <1>a, <1>d, StopIsWhere
<1>1. CASE sock = <<>>
    <2>1. loop' = <<>> /\ loop' \in Outside /\ sock' = sock
        BY <1>1, <1>c DEF Read, Outside
    <2>2. PlayOK'
        BY <1>a, <1>b, <1>c, <2>1, PlayOutside
    <2>3. (StopOnItsWay' <=> StopOnItsWay) /\ (WillPlay' <=> WillPlay) /\ ~WillReset /\ ~WillReset'
        BY <1>b, <1>d, <1>g, <2>1, LoopOutside DEF WillPlay, WillReset, Has
    <2> QED BY <1>a, <1>b, <1>e, <2>1, <2>2, <2>3, RingFrame
<1>2. CASE sock # <<>>
    <2>1. /\ sock' = Tail(sock)
          /\ loop' = (CASE Head(sock) = "map" -> <<"fds">>
                        [] Head(sock) = "start" -> Start
                        [] Head(sock) = "stop" -> Stop) \o <<"read">>
        BY <1>2, <1>c DEF Read
    <2>2. Head(sock) = sock[1] /\ sock[1] \in {"map", "fds", "start", "stop"}
        BY <1>2, <1>a, <2>1, CodeRead
    <2>3. sock[1] # "fds"
        <3>1. loop # Awaiting /\ 1 \in 1 .. Len(sock)
            BY <1>a, <1>2, <1>c, <2>1, CodeRead DEF Awaiting
        <3> QED BY <1>a, <1>2, <3>1 DEF SockOK, Codes
    <2>4. /\ Has("stop") <=> sock[1] = "stop" \/ Has("stop")'
          /\ Has("start") <=> sock[1] = "start" \/ Has("start")'
          /\ SockOrder => SockOrder' /\ (sock[1] = "stop" => ~Has("start"))
        BY <1>2, <1>a, <2>1, HasRead
    <2>5. Here => SockOrder /\ SockOrder' /\ ClientOK /\ (sock[1] = "stop" => ~Has("start"))
        BY <1>a, <2>4 DEF Ring
    <2>6. CASE sock[1] = "map"
        <3>1. loop' = Awaiting
            BY <2>1, <2>2, <2>6, CheckShapes DEF Awaiting
        <3>2. loop' \in Outside
            BY <3>1 DEF Outside
        <3>3. PlayOK'
            BY <1>a, <1>b, <1>c, <3>2, PlayOutside
        <3>4. (StopOnItsWay' <=> StopOnItsWay) /\ (WillPlay' <=> WillPlay) /\ ~WillReset /\ ~WillReset'
            BY <1>b, <1>d, <1>g, <2>4, <2>6, <3>2, LoopOutside DEF WillPlay, WillReset
        <3>5. Here => ClientOK'
            BY <1>b, <2>5, <3>4, ClientFrame
        <3> QED BY <1>f, <2>5, <3>3, <3>5
    <2>7. CASE sock[1] = "start"
        <3>1. loop' = Start \o <<"read">>
            BY <2>1, <2>2, <2>7
        <3>2. CASE state_ = "playing"
            <4>1. loop' = <<"read">> /\ loop' \in Outside
                BY <3>1, <3>2, StopShapes DEF Outside
            <4>2. PlayOK'
                BY <1>a, <1>b, <1>c, <4>1, PlayOutside
            <4>3. (StopOnItsWay' <=> StopOnItsWay) /\ WillPlay' /\ WillPlay
                BY <1>b, <1>g, <2>4, <2>7, <3>2, <4>1, LoopOutside DEF WillPlay
            <4>4. Here => ClientOK'
                BY <1>b, <2>5, <4>3, ClientFrame
            <4> QED BY <1>f, <2>5, <4>2, <4>4
        <3>3. CASE state_ # "playing"
            <4>1. loop' = <<"play", "zero", "look", "arm", "read">>
                BY <3>1, <3>3, StopShapes
            <4>2. loop' \in Beginning
                BY <4>1 DEF Beginning
            <4>3. /\ loop' \notin Halting \cup Clearing \cup Resetting \cup Started
                                  \cup Enqueuing \cup Setting
                  /\ loop' \in Inside /\ loop' \notin Outside
                BY <4>2, Distinct, Apart DEF Inside
            <4>4. callback' \in {"idle", "post"} /\ state_ = "stopped"
                BY <1>a, <3>3, <4>3, NoOverlap DEF DataTypes
            <4>5. Silent'
                BY <1>a, <1>b, <1>c, <1>d, <4>4 DEF PlayOK, QueueOK, Silent
            <4>6. PlayOK'
                BY <4>2, <4>3, <4>4, <4>5 DEF PlayOK, Taking
            <4>7. (StopOnItsWay' <=> StopOnItsWay) /\ WillPlay' /\ WillPlay
                BY <1>g, <2>4, <2>7, <4>2, <4>3 DEF WillPlay
            <4>8. Here => ClientOK'
                BY <1>b, <2>5, <4>7, ClientFrame
            <4> QED BY <1>f, <2>5, <4>6, <4>8
        <3> QED BY <3>2, <3>3
    <2>8. CASE sock[1] = "stop"
        <3>1. loop' = Stop \o <<"read">> /\ StopOnItsWay
            BY <1>g, <2>1, <2>2, <2>4, <2>8
        <3>2. CASE state_ = "stopped"
            <4>1. loop' = <<"read">> /\ loop' \in Outside
                BY <3>1, <3>2, StopShapes DEF Outside
            <4>2. PlayOK'
                BY <1>a, <1>b, <1>c, <4>1, PlayOutside
            <4>3. (StopOnItsWay' <=> Has("stop")') /\ (Here => ~WillPlay /\ ~WillPlay') /\ ~WillReset /\ ~WillReset'
                BY <1>b, <1>d, <1>g, <2>4, <2>5, <2>8, <3>2, <4>1, LoopOutside DEF WillPlay,
                   WillReset
            <4>4. Here => ClientOK'
                <5> SUFFICES ASSUME Here PROVE ClientOK'
                    OBVIOUS
                <5>1. ClientOK /\ Empty
                    BY <2>5, <3>1, <4>3 DEF ClientOK
                <5>2. alsa.state \in {"setup", "prepared", "running"}
                    BY <1>a DEF DataTypes, Pointers
                <5> QED BY <1>b, <3>1, <4>3, <5>1, <5>2 DEF ClientOK, Empty
            <4> QED BY <1>f, <2>5, <4>2, <4>4
        <3>3. CASE state_ # "stopped"
            <4>1. loop' = <<"halt", "clear", "reset", "zero", "read">>
                BY <3>1, <3>3, StopShapes
            <4>2. loop' \in Halting
                BY <4>1 DEF Halting
            <4>3. /\ loop' \notin Clearing \cup Resetting \cup Beginning \cup Started
                                  \cup Enqueuing \cup Setting
                  /\ loop' \in Inside /\ loop' \notin Outside
                BY <4>2, Distinct, Apart DEF Inside
            <4>4. callback' \in {"idle", "post"} /\ state_ = "playing"
                BY <1>a, <3>3, <4>3, NoOverlap DEF DataTypes
            <4>5. PlayOK'
                BY <1>a, <1>b, <1>c, <4>2, <4>3, <4>4 DEF PlayOK, Taking, Silent, Sounding,
                   AtRead, Unread
            <4>6. StopOnItsWay' /\ WillPlay'
                BY <1>b, <1>g, <4>2, <4>4 DEF WillPlay
            <4>7. Here => ClientOK'
                BY <1>b, <2>5, <3>1, <4>6, ClientFrame
            <4> QED BY <1>f, <2>5, <4>5, <4>7
        <3> QED BY <3>2, <3>3
    <2> QED BY <2>2, <2>3, <2>6, <2>7, <2>8
<1> QED BY <1>1, <1>2

\* The descriptor is not a code.
LEMMA ReadFdsRing ==
    ASSUME RingInv, ControlInv', KeepsApart, upset = {}, ReadFds
    PROVE  Ring'
<1>a. /\ ControlInv /\ Ring /\ PlayOK /\ LoopOK /\ DataTypes /\ SockOK
    BY DEF RingInv, ControlInv, Ring
<1>b. /\ UNCHANGED <<state_, playing_, shm, callback, register, found, queue, heard,
                     client, alsa, copied, next, begins, connected_>>
      /\ loop # <<>> /\ Head(loop) = "fds"
    BY DEF ReadFds
<1>c. loop = Awaiting /\ Tail(loop) = <<"read">> /\ loop \in Outside
    BY <1>a, <1>b, NextSteps DEF LoopOK, Outside
<1>d. loop \notin Halting \cup Clearing \cup Resetting \cup Beginning
    BY <1>c, LoopOutside
<1>e. loop' \in Outside
    <2>1. CASE sock # <<>>
        BY <1>c, <2>1 DEF ReadFds, Outside
    <2>2. CASE sock = <<>>
        <3>1. buffer_ = 0 /\ connected_
            BY <1>a, <1>c DEF SockOK, LoopOK, Awaiting
        <3>2. state_ = "stopped"
            BY <1>a, <3>1, Unmapped
        <3>3. loop' = <<"unmap">>
            BY <2>2, <3>1, <3>2, StopShapes DEF ReadFds, Disconnect
        <3> QED BY <3>3 DEF Outside
    <2> QED BY <2>1, <2>2
<1>f. PlayOK'
    BY <1>a, <1>b, <1>c, <1>e, PlayOutside
<1>g. (StopOnItsWay <=> Has("stop")) /\ (StopOnItsWay' <=> Has("stop")')
    BY <1>a, <1>d, <1>e, StopIsWhere, LoopOutside
<1>1. (Has("stop")' <=> Has("stop")) /\ (Has("start")' <=> Has("start")) /\ (SockOrder => SockOrder')
    <2>1. CASE sock # <<>>
        <3>1. sock' = Tail(sock) /\ sock[1] = "fds"
            BY <1>a, <1>c, <2>1 DEF ReadFds, SockOK
        <3> QED BY <1>a, <2>1, <3>1, HasRead
    <2>2. CASE sock = <<>>
        BY <2>2 DEF ReadFds, Has, SockOrder
    <2> QED BY <2>1, <2>2
<1>2. (WillPlay' <=> WillPlay) /\ ~WillReset /\ ~WillReset' /\ (StopOnItsWay' <=> StopOnItsWay)
    BY <1>1, <1>b, <1>d, <1>e, <1>g, LoopOutside DEF WillPlay, WillReset
<1>3. Here => SockOrder' /\ ClientOK'
    BY <1>1, <1>2, <1>a, <1>b, ClientFrame DEF Ring
<1>4. RoomOK' /\ RingIntact' /\ Stream'
    BY <1>a, <1>b DEF Ring, RoomOK, RingIntact, Stream, Unread
<1>5. OrderOK'
    <2>1. Expected' = Expected /\ Unread' = Unread
        BY <1>b DEF Expected, Unread, Taking
    <2> QED BY <1>a, <1>b, <2>1 DEF Ring, OrderOK, Here
<1> QED BY <1>3, <1>4, <1>5, <1>b, <1>f DEF Ring, Here

\* What a client has left in its ring is not played.
LEMMA UnmapRing ==
    ASSUME RingInv, ControlInv', upset = {}, Unmap
    PROVE  Ring'
<1> USE DEF Unmap
<1>a. ControlInv /\ Ring /\ LoopOK /\ DataTypes /\ PlayOK
    BY DEF RingInv, ControlInv, Ring
<1>1. loop = <<"unmap">> /\ loop' = <<>> /\ UNCHANGED callback
    BY <1>a, NextSteps DEF Step, LoopOK
<1>2. loop \in Outside /\ loop' \in Outside
    BY <1>1 DEF Outside
<1>3. PlayOK'
    BY <1>a, <1>1, <1>2, PlayOutside
<1>4. RoomOK' /\ Stream' /\ ~Here'
    BY <1>a DEF Ring, RoomOK, Stream, Unread, Here
<1>5. RingIntact'
    <2>n. shm.write \in Nat /\ copied.n \in Nat
        BY <1>a, Numbers
    <2> SUFFICES ASSUME NEW p \in Nat, shm.read <= p, p < shm.write + 0
                 PROVE  shm.data[Cell(p)] = next - copied.n - (shm.write - p)
        BY DEF RingIntact
    <2>1. p < shm.write + (IF client = "copied" THEN copied.n ELSE 0)
        BY <2>n
    <2> QED BY <1>a, <2>1 DEF Ring, RingIntact
<1>6. OrderOK'
    <2>1. Expected' = Expected /\ Unread' = Unread
        BY <1>1 DEF Expected, Unread, Taking
    <2> QED BY <1>a, <1>4, <2>1 DEF Ring, OrderOK
<1> QED BY <1>3, <1>4, <1>5, <1>6 DEF Ring

-----------------------------------------------------------------------------

\* The ring is right at the beginning ...
LEMMA RingInit == Init => RingInv
<1> SUFFICES ASSUME Init PROVE Ring
    BY ControlInit DEF RingInv
<1> USE DEF Init, PlayerInit, Initialized
<1>1. loop \in Outside
    BY DEF Outside
<1>2. PlayOK
    BY <1>1, LoopOutside DEF PlayOK, Taking, Silent
<1>3. RoomOK /\ RingIntact
    BY SizeAssumption DEF RoomOK, RingIntact, Unread
<1>4. ~Here
    BY DEF Here
<1>5. Stream
    BY DEF Stream
<1>6. OrderOK
    BY DEF OrderOK, Expected, Unread, Taking
<1> QED BY <1>2, <1>3, <1>4, <1>5, <1>6 DEF Ring

\* A loop that is blocked in the timer's read does not touch the ring.
LEMMA TimerRing ==
    ASSUME RingInv, ControlInv', upset = {}, UNCHANGED <<clientVars, serverVars>>, TimerBlocks
    PROVE  Ring'
<1> USE DEF clientVars, serverVars
<1>a. ControlInv /\ Ring /\ PlayOK
    BY DEF RingInv, Ring
<1>b. /\ loop = <<>> /\ loop' = <<"expire">>
      /\ UNCHANGED <<state_, playing_, buffer_, shm, callback, register, found, queue, heard,
                     sock, client, alsa, copied, next, begins>>
    BY DEF TimerBlocks
<1>c. loop \in Outside /\ loop' \in Outside
    BY <1>b DEF Outside
<1>d. Has("stop")' = Has("stop") /\ Has("start")' = Has("start") /\ (Taking' <=> Taking)
    BY <1>b DEF Has, Taking
<1>e. /\ StopOnItsWay <=> Has("stop")
      /\ StopOnItsWay' <=> Has("stop")
    BY <1>a, <1>c, <1>d, LoopOutside, StopIsWhere
<1>1. PlayOK'
    BY <1>a, <1>b, <1>c, PlayOutside
<1>2. (WillPlay' <=> WillPlay) /\ ~WillReset /\ ~WillReset'
    BY <1>b, <1>c, <1>d, LoopOutside DEF WillPlay, WillReset
<1> QED BY <1>a, <1>b, <1>d, <1>e, <1>1, <1>2, RingFrame

\* ... and after each step that keeps the threads apart.
LEMMA RingStep ==
    ASSUME RingInv, "overlap" \notin upset', [Next]_vars
    PROVE  RingInv'
<1>1. ControlInv'
    BY ControlStep DEF RingInv
<1>2. ASSUME upset' = {} PROVE upset = {}
    BY <1>2 DEF Next, ClientRuns, ClientChooses, ClientLeaves, Leave, Connect, PlayerRuns, Serves,
                TimerEvent, Handles, Watched, vars
<1> SUFFICES ASSUME upset' = {}, upset = {} PROVE Ring'
    BY <1>1, <1>2 DEF RingInv
<1>3. CASE UNCHANGED vars
    <2> USE DEF vars, playerVars, clientVars
    <2>1. Ring
        BY DEF RingInv
    <2>2. PlayOK' /\ RoomOK' /\ RingIntact' /\ Stream'
        BY <1>3, <2>1 DEF Ring, PlayOK, Taking, Silent, Sounding, AtRead, Unread, RoomOK,
                          RingIntact, Stream
    <2>3. Here => SockOrder' /\ ClientOK'
        BY <1>3, <2>1 DEF Ring, SockOrder, ClientOK, StopOnItsWay, WillPlay, WillReset, Has, Empty
    <2>4. OrderOK'
        BY <1>3, <2>1 DEF Ring, OrderOK, Expected, Unread, Taking, Here
    <2> QED BY <1>3, <2>2, <2>3, <2>4 DEF Ring, Here
<1>4. CASE Next
    <2>1. due \in BOOLEAN
        BY DEF RingInv, ControlInv, DataTypes
    <2> QED BY <1>1, <1>4, <2>1, StepsApart, ConnectRing, ClientRing, LoopRing, TimerRing,
               CallbackRing, PlayRing, AcceptRing, ReadRing, ReadFdsRing, UnmapRing, EventRing
<1> QED BY <1>3, <1>4

\* The ring is right until the threads have been together in the player.
LEMMA RingInvariant == Spec => []("overlap" \notin upset => RingInv)
<1>1. Init => ("overlap" \notin upset => RingInv)
    BY RingInit
<1>2. ("overlap" \notin upset => RingInv) /\ [Next]_vars => ("overlap" \notin upset => RingInv)'
    BY RingStep, OverlapStays
<1> QED BY <1>1, <1>2, PTL DEF Spec

\* What sparkle_player plays is in the order in which sparkle_write was given it, for every size
\* of the ring and of a period and any number of clients, bytes and stops: nothing is played twice
\* or left out within a stream, although check() runs by the timer, by the callback and by start.
\* It holds up to the first of the three Reasons: a client that uses the ring while its stop is
\* on its way or stops what it has not started, and threads that are in the player at once.
THEOREM PlayedInOrder == Spec => []StreamInOrder
<1>1. ("overlap" \notin upset => RingInv) => StreamInOrder
    BY DEF RingInv, Ring, Stream, StreamInOrder
<1> QED BY <1>1, RingInvariant, PTL

\* sparkle_write, which checks nothing, never overwrites a byte that is still to be played, also
\* where it goes around the end of the ring: alsa-lib's pointer is never ahead of the position of
\* the reader, up to the first of the three Reasons.
THEOREM UnreadNeverOverwritten == Spec => []UnreadIntact
<1>1. ("overlap" \notin upset => RingInv) => UnreadIntact
    <2> SUFFICES ASSUME RingInv, upset = {}, NEW p \in shm.read .. shm.write - 1
                 PROVE  shm.data[Cell(p)] = next - copied.n - (shm.write - p)
        BY DEF UnreadIntact
    <2>1. ControlInv /\ RingIntact
        BY DEF RingInv, Ring
    <2>2. shm.read \in Nat /\ shm.write \in Nat /\ copied.n \in Nat
        BY <2>1, Numbers
    <2>3. p \in Nat /\ shm.read <= p /\ p < shm.write
        BY <2>2
    <2>4. p < shm.write + (IF client = "copied" THEN copied.n ELSE 0)
        BY <2>2, <2>3
    <2> QED BY <2>1, <2>3, <2>4 DEF RingIntact
<1> QED BY <1>1, RingInvariant, PTL

=============================================================================
