------------------------------- MODULE Player -------------------------------
(***************************************************************************)
(* sparkle_player: start, stop and the timer's check run on the thread of   *)
(* the event loop; the callback of the sound system, which runs check too,  *)
(* runs on a thread of its own (UNSAFE is 1) and takes no lock.  The steps  *)
(* are the accesses to what the two threads share.                          *)
(*                                                                         *)
(* What the loop has left to do is a sequence of steps.  OpenSL ES is       *)
(* modelled by what the player uses of it: a queue of places in memory,     *)
(* which are read when they are played, and one callback at a time.         *)
(***************************************************************************)
EXTENDS RingBuffer

CONSTANT Period     \* 8192 bytes

ASSUME PeriodAssumption == Period \in Nat \ {0}

VARIABLES
    state_,         \* "playing" or "stopped"
    playing_,       \* bytes given to the sound system
    buffer_,        \* the mapped buffer, by the number of its session, or 0
    timer,          \* check_timer_ is armed
    shm,            \* the ring buffer in memory shared with the client
    loop,           \* steps the loop has yet to do
    callback,       \* where the callback is, "idle" outside of it
    register,       \* what the callback has read of playing_ and of shm
    found,          \* what the check of either thread is about to enqueue
    posts,          \* emissions of played wait in the loop's handler
    device,         \* the sound system is in the playing state
    queue,          \* the places it has yet to play
    heard,          \* history: the bytes it has played last, after the one before
    fault           \* memory that is not mapped was used

playerVars == <<state_, playing_, buffer_, timer, shm, loop, callback, register,
                found, posts, device, queue, heard, fault>>

Places == [of : Nat, at : Cells, n : Nat \ {0}]

Nothing == [of |-> 0, at |-> 0, n |-> 0]

-----------------------------------------------------------------------------
(* check(), by either thread *)

\* Fault: check() does not look at playing_.
FoundAgain ==
    LET n == BytesAvailable(shm)
    IN IF state_ = "playing" /\ buffer_ # 0 /\ n >= 1
       THEN [of |-> buffer_, at |-> Cell(shm.read),
             n |-> Contiguous(shm.read, IF n > Period THEN Period ELSE n)]
       ELSE Nothing

Found ==
    LET n == BytesAvailable(shm)
    IN IF state_ = "playing" /\ playing_ = 0 /\ buffer_ # 0 /\ n >= 1
       THEN [of |-> buffer_, at |-> Cell(shm.read),
             n |-> Contiguous(shm.read, IF n > Period THEN Period ELSE n)]
       ELSE Nothing

Look(t) ==
    /\ found' = [found EXCEPT ![t] = Found]
    /\ UNCHANGED <<state_, playing_, buffer_, timer, shm, register, posts, device,
                   queue, heard, fault>>

Enqueue(t) ==
    /\ queue' = Append(queue, found[t])
    /\ UNCHANGED <<state_, playing_, buffer_, timer, shm, register, found, posts,
                   device, heard, fault>>

SetPlaying(t) ==
    /\ playing_' = found[t].n
    /\ found' = [found EXCEPT ![t] = Nothing]
    /\ UNCHANGED <<state_, buffer_, timer, shm, register, posts, device, queue,
                   heard, fault>>

-----------------------------------------------------------------------------
(* start() and stop(), by the loop *)

\* Fault: start() leaves the timer alone.
StartWithoutTimer == IF state_ = "playing" THEN <<>> ELSE <<"play", "zero", "look">>

Start ==
    IF state_ = "playing" THEN <<>> ELSE <<"play", "zero", "look", "arm">>

Stop ==
    IF state_ = "stopped" THEN <<>> ELSE <<"halt", "clear", "reset", "zero">>

\* The next step of the loop is called name, and is done.
Step(name) ==
    /\ loop # <<>>
    /\ Head(loop) = name
    /\ loop' = Tail(loop)
    /\ UNCHANGED callback

\* The device is not playing before, so that the two assignments are one step.
LoopPlay ==
    /\ Step("play")
    /\ state_' = "playing"
    /\ device' = TRUE
    /\ UNCHANGED <<playing_, buffer_, timer, shm, register, found, posts, queue,
                   heard, fault>>

LoopArm ==
    /\ Step("arm")
    /\ timer' = TRUE
    /\ UNCHANGED <<state_, playing_, buffer_, shm, register, found, posts, device,
                   queue, heard, fault>>

LoopHalt ==
    /\ Step("halt")
    /\ timer' = FALSE
    /\ state_' = "stopped"
    /\ UNCHANGED <<playing_, buffer_, shm, register, found, posts, device, queue,
                   heard, fault>>

LoopClear ==
    /\ Step("clear")
    /\ device' = FALSE
    /\ queue' = <<>>
    /\ UNCHANGED <<state_, playing_, buffer_, timer, shm, register, found, posts,
                   heard, fault>>

LoopReset ==
    /\ Step("reset")
    /\ shm' = IF buffer_ = 0 THEN shm ELSE Reset(shm)
    /\ UNCHANGED <<state_, playing_, buffer_, timer, register, found, posts, device,
                   queue, heard, fault>>

LoopZero ==
    /\ Step("zero")
    /\ playing_' = 0
    /\ UNCHANGED <<state_, buffer_, timer, shm, register, found, posts, device,
                   queue, heard, fault>>

LoopCheck ==
    \/ /\ loop # <<>>
       /\ Head(loop) = "look"
       /\ loop' = (IF Found = Nothing THEN <<>> ELSE <<"enqueue", "set">>) \o Tail(loop)
       /\ UNCHANGED callback
       /\ Look("loop")
    \/ Step("enqueue") /\ Enqueue("loop")
    \/ Step("set") /\ SetPlaying("loop")

\* check_timer_ times out: the read of were_timer returns, and check() runs.
Timeout ==
    /\ loop = <<>>
    /\ timer
    /\ loop' = IF Found = Nothing THEN <<>> ELSE <<"enqueue", "set">>
    /\ Look("loop")
    /\ UNCHANGED callback

\* The timer was stopped by an event of the batch in which its own comes later:
\* there is nothing to read, were_timer's descriptor is a blocking one, and only
\* the loop could start the timer again.
TimerBlocks ==
    /\ loop = <<>>
    /\ ~timer
    /\ loop' = <<"expire">>
    /\ UNCHANGED <<state_, playing_, buffer_, timer, shm, callback, register, found,
                   posts, device, queue, heard, fault>>

Hung == loop = <<"expire">>

-----------------------------------------------------------------------------
(* The sound system plays, and calls back. *)

\* The next place has been played: its bytes are those it holds now.
Play ==
    LET place == Head(queue)
    IN /\ device
       /\ queue # <<>>
       /\ callback = "idle"
       /\ IF place.of = buffer_
          THEN /\ heard' = <<Last(heard)>> \o Bytes(shm, place.at, place.n)
               /\ UNCHANGED fault
          ELSE /\ fault' = TRUE
               /\ UNCHANGED heard
       /\ queue' = Tail(queue)
       /\ callback' = "state"
       /\ UNCHANGED <<state_, playing_, buffer_, timer, shm, loop, register, found,
                      posts, device>>

\* The callback goes from one step to another.
Goes(from, to) ==
    /\ callback = from
    /\ callback' = to
    /\ UNCHANGED loop

CallbackState ==
    /\ Goes("state", IF state_ = "playing" THEN "load" ELSE "idle")
    /\ UNCHANGED <<state_, playing_, buffer_, timer, shm, register, found, posts,
                   device, queue, heard, fault>>

\* read_finish: read_position += playing_ ...
CallbackLoad ==
    /\ Goes("load", IF buffer_ = 0 THEN "idle" ELSE "store")
    /\ register' = [read |-> shm.read, n |-> playing_]
    /\ fault' = (fault \/ buffer_ = 0)
    /\ UNCHANGED <<state_, playing_, buffer_, timer, shm, found, posts, device, queue,
                   heard>>

\* ... is not atomic: a reset in between may get lost.
CallbackStore ==
    /\ Goes("store", "clear")
    /\ \E read \in {register.read, shm.read} :
          shm' = [shm EXCEPT !.read = read + register.n]
    /\ register' = [read |-> 0, n |-> 0]
    /\ UNCHANGED <<state_, playing_, buffer_, timer, found, posts, device, queue,
                   heard, fault>>

CallbackClear ==
    /\ Goes("clear", "look")
    /\ playing_' = 0
    /\ UNCHANGED <<state_, buffer_, timer, shm, register, found, posts, device, queue,
                   heard, fault>>

CallbackCheck ==
    \/ Goes("look", IF Found = Nothing THEN "post" ELSE "enqueue") /\ Look("audio")
    \/ Goes("enqueue", "set") /\ Enqueue("audio")
    \/ Goes("set", "post") /\ SetPlaying("audio")

\* Fault: played is emitted only when more is playing.
CallbackPostPlaying ==
    /\ Goes("post", "idle")
    /\ posts' = (posts \/ playing_ # 0)
    /\ UNCHANGED <<state_, playing_, buffer_, timer, shm, register, found, device,
                   queue, heard, fault>>

CallbackPost ==
    /\ Goes("post", "idle")
    /\ posts' = TRUE
    /\ UNCHANGED <<state_, playing_, buffer_, timer, shm, register, found, device,
                   queue, heard, fault>>

-----------------------------------------------------------------------------

PlayerInit ==
    /\ state_ = "stopped" /\ playing_ = 0 /\ buffer_ = 0 /\ timer = FALSE
    /\ shm = Initialized
    /\ loop = <<>>
    /\ callback = "idle" /\ register = [read |-> 0, n |-> 0]
    /\ found = [t \in {"loop", "audio"} |-> Nothing]
    /\ posts = FALSE
    /\ device = FALSE /\ queue = <<>>
    /\ heard = <<0>> /\ fault = FALSE

LoopStep ==
    \/ LoopPlay \/ LoopArm \/ LoopHalt \/ LoopClear \/ LoopReset \/ LoopZero
    \/ LoopCheck

CallbackStep ==
    \/ CallbackState \/ CallbackLoad \/ CallbackStore \/ CallbackClear
    \/ CallbackCheck \/ CallbackPost

\* Both threads are in the code of the player.
Overlap ==
    /\ callback \notin {"idle", "post"}
    /\ \E i \in 1 .. Len(loop) :
          loop[i] \in {"play", "halt", "clear", "reset", "zero", "look", "enqueue", "set"}

=============================================================================
