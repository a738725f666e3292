-------------------------------- MODULE Audio --------------------------------
(***************************************************************************)
(* sparkle_audio and its client, the ALSA plug-in pcm_sparkle: they share   *)
(* the ring buffer of Player and speak over a socket.  The client sends     *)
(* codes and a descriptor and waits for nothing but the word that something *)
(* was played; it may end at any point.  One client is served at a time.    *)
(*                                                                         *)
(* alsa-lib is modelled by what the plug-in gets of it: it counts what it   *)
(* has written and what the plug-in's pointer says was played, and writes   *)
(* when the difference leaves room.  Codes are sent and received whole.     *)
(***************************************************************************)
EXTENDS Player, FiniteSets

CONSTANTS
    MaxSessions,    \* clients that connect
    MaxBytes,       \* bytes they write
    MaxStops,       \* times they stop
    MaxLate         \* bytes written in a behaviour that is followed past an overlap

ASSUME AudioAssumption ==
    MaxSessions \in Nat /\ MaxBytes \in Nat /\ MaxStops \in Nat /\ MaxLate \in Nat

VARIABLES
    connected_,
    due,            \* the event of a timer that was stopped is in the loop's batch
    session,        \* clients accepted so far
    waiting,        \* connections in the queue of the listening socket
    opened,         \* clients that have connected
    sock,           \* codes on their way to the server
    words,          \* words of played are on their way to the client
    client,         \* where the client is, "none" if none is connected
    alsa,           \* alsa-lib's state and pointers
    copied,         \* bytes copied by the write in progress
    next,           \* the number of the next byte the clients write
    stops,          \* times a client has stopped
    begins,         \* history: first bytes of streams
    upset           \* history: see the reasons below

clientVars == <<sock, words, client, alsa, copied, next, stops, begins>>

vars == <<playerVars, clientVars, connected_, due, session, waiting, opened, upset>>

-----------------------------------------------------------------------------
(* What nothing in the code prevents, and what some properties exclude *)

Reasons ==
    {"cross",       \* the client used the ring while its stop was on its way
     "early",       \* the client stopped what it had written and not started
     "overlap"}     \* the callback and the loop were in the player at once

StopOnItsWay ==
    \/ \E i \in 1 .. Len(sock) : sock[i] = "stop"
    \/ \E i \in 1 .. Len(loop) : loop[i] = "reset"

\* The client uses the ring in this step.
Touches == upset' = IF StopOnItsWay THEN upset \cup {"cross"} ELSE upset

\* A thread of the server does this step.
Watched == upset' = IF Overlap' THEN upset \cup {"overlap"} ELSE upset

-----------------------------------------------------------------------------
(* The client: pcm_sparkle called by alsa-lib *)

Avail == Size - (alsa.appl - alsa.hw)

Send(code) == sock' = Append(sock, code)

Connect ==
    /\ opened < MaxSessions
    /\ opened' = opened + 1
    /\ waiting' = waiting + 1
    /\ UNCHANGED <<playerVars, clientVars, connected_, due, session, upset>>

\* sparkle_initialize, of the client that is accepted
SendCode ==
    /\ client = "code"
    /\ Send("map")
    /\ client' = "fds"
    /\ UNCHANGED <<words, alsa, copied, next, stops, begins, upset>>

SendFds ==
    /\ client = "fds"
    /\ Send("fds")
    /\ client' = "ready"
    /\ UNCHANGED <<words, alsa, copied, next, stops, begins, upset>>

Prepare ==
    /\ client = "ready"
    /\ alsa.state = "setup"
    /\ alsa' = [state |-> "prepared", appl |-> 0, hw |-> 0, last |-> 0]
    /\ begins' = begins \cup {next}
    /\ UNCHANGED <<sock, words, client, copied, next, stops, upset>>

\* sparkle_write, up to its memcpy
WriteCopy(size) ==
    LET n == Contiguous(shm.write, IF size > Period THEN Period ELSE size)
    IN /\ client = "ready"
       /\ alsa.state # "setup"
       /\ size <= Avail
       /\ next + n - 1 <= MaxBytes
       /\ shm' = Copied(shm, next, n)
       /\ copied' = [at |-> shm.write, n |-> n]
       /\ next' = next + n
       /\ client' = "copied"
       /\ Touches
       /\ UNCHANGED <<sock, words, alsa, stops, begins>>

\* write_finish; the position may be the one read before the memcpy.
WriteFinish ==
    /\ client = "copied"
    /\ \E write \in {copied.at, shm.write} :
          shm' = [shm EXCEPT !.write = write + copied.n]
    /\ alsa' = [alsa EXCEPT !.appl = @ + copied.n]
    /\ copied' = [at |-> 0, n |-> 0]
    /\ client' = "ready"
    /\ Touches
    /\ UNCHANGED <<sock, words, next, stops, begins>>

\* sparkle_receive, and then the position is read.
PointerReceive ==
    /\ client \in {"ready", "woken"}
    /\ alsa.state # "setup"
    /\ words' = FALSE
    /\ client' = "pointer"
    /\ UNCHANGED <<sock, alsa, copied, next, stops, begins, upset>>

\* alsa-lib adds what was played since the last time; a position less than
\* the last one has gone around the end of the buffer.
HwUpdated(hw) ==
    [alsa EXCEPT !.hw = @ + (IF hw >= alsa.last THEN 0 ELSE Size) + hw - alsa.last,
                 !.last = hw]

\* A writer that finds no room waits for a word.
PointerRead ==
    /\ client = "pointer"
    /\ alsa' = HwUpdated(shm.read)
    /\ client' \in {"ready"} \cup
                   (IF alsa.state = "running" /\ Avail' < 1 THEN {"poll"} ELSE {})
    /\ Touches
    /\ UNCHANGED <<sock, words, copied, next, stops, begins>>

\* sparkle_poll_revents
PollRevents ==
    /\ client = "poll"
    /\ words
    /\ words' = FALSE
    /\ client' = "woken"
    /\ UNCHANGED <<sock, alsa, copied, next, stops, begins, upset>>

SparkleStart ==
    /\ client = "ready"
    /\ alsa.state = "prepared"
    /\ alsa.appl > 0
    /\ Send("start")
    /\ alsa' = [alsa EXCEPT !.state = "running"]
    /\ UNCHANGED <<words, client, copied, next, stops, begins, upset>>

SparkleStop ==
    /\ client = "ready"
    /\ alsa.state # "setup"
    /\ stops < MaxStops
    /\ Send("stop")
    /\ stops' = stops + 1
    /\ alsa' = [alsa EXCEPT !.state = "setup"]
    /\ upset' = IF alsa.state = "prepared" /\ alsa.appl > 0
                THEN upset \cup {"early"} ELSE upset
    /\ UNCHANGED <<words, client, copied, next, begins>>

\* sparkle_close, or the client is killed.
Leave ==
    /\ client \notin {"none", "gone"}
    /\ client' = "gone"
    /\ UNCHANGED <<sock, words, alsa, copied, next, stops, begins, upset>>

-----------------------------------------------------------------------------
(* The server: signals of the sockets, of the timer and of the player *)

\* Fault: disconnect_client leaves the player running.
DisconnectPlaying == IF connected_ THEN <<"unmap">> ELSE <<>>

\* disconnect_client; "unmap" stands for all that follows the sleep.
Disconnect == IF connected_ THEN Stop \o <<"unmap">> ELSE <<>>

Does(steps) ==
    /\ loop = <<>>
    /\ loop' = steps
    /\ UNCHANGED <<state_, playing_, buffer_, timer, shm, callback, register, found,
                   device, queue, heard, fault>>

NewConnection ==
    /\ waiting > 0
    /\ IF connected_
       THEN waiting' = waiting - 1 /\ Does(<<>>)
       ELSE waiting' = waiting /\ Does(Stop \o <<"accept">>)
    /\ UNCHANGED <<posts, clientVars, connected_, session, opened>>

DataIn ==
    /\ connected_
    /\ sock # <<>>
    /\ Does(<<"read">>)
    /\ UNCHANGED <<posts, clientVars, connected_, session, waiting, opened>>

Disconnected ==
    /\ connected_
    /\ client = "gone"
    /\ Does(Disconnect)
    /\ UNCHANGED <<posts, clientVars, connected_, session, waiting, opened>>

\* The handler emits played, once for each callback that has posted it; the slot
\* sends a word, and does not look whether it could.
Played ==
    /\ posts
    /\ posts' = FALSE
    /\ Does(<<>>)
    /\ words' = (words \/ (connected_ /\ client # "gone"))
    /\ UNCHANGED <<sock, client, alsa, copied, next, stops, begins, connected_,
                   session, waiting, opened>>

Accept ==
    /\ Step("accept")
    /\ waiting' = waiting - 1
    /\ session' = session + 1
    /\ connected_' = TRUE
    /\ client' = "code"
    /\ alsa' = [state |-> "setup", appl |-> 0, hw |-> 0, last |-> 0]
    /\ copied' = [at |-> 0, n |-> 0]
    /\ shm' = Initialized
    /\ UNCHANGED <<state_, playing_, buffer_, timer, register, found, posts, device,
                   queue, heard, fault, sock, words, next, stops, begins, opened>>

\* One turn of the loop of read()
Read ==
    /\ loop # <<>>
    /\ Head(loop) = "read"
    /\ IF sock = <<>>
       THEN loop' = Tail(loop) /\ UNCHANGED sock
       ELSE /\ sock' = Tail(sock)
            /\ loop' = (CASE Head(sock) = "map" -> <<"fds">>
                          [] Head(sock) = "start" -> Start
                          [] Head(sock) = "stop" -> Stop) \o loop
    /\ UNCHANGED <<state_, playing_, buffer_, timer, shm, callback, register, found,
                   posts, device, queue, heard, fault, words, client, alsa, copied,
                   next, stops, begins, connected_, session, waiting, opened>>

\* Fault: the end of the client is not noticed here.
ReadFdsOnly ==
    /\ loop # <<>>
    /\ Head(loop) = "fds"
    /\ sock # <<>>
    /\ sock' = Tail(sock)
    /\ buffer_' = session
    /\ loop' = Tail(loop)
    /\ UNCHANGED <<state_, playing_, timer, shm, callback, register, found, posts,
                   device, queue, heard, fault, words, client, alsa, copied, next,
                   stops, begins, connected_, session, waiting, opened>>

\* receive_fds blocks until the descriptor or the end of the client comes.
ReadFds ==
    /\ loop # <<>>
    /\ Head(loop) = "fds"
    /\ \/ /\ sock # <<>>
          /\ sock' = Tail(sock)
          /\ buffer_' = session
          /\ loop' = Tail(loop)
       \/ /\ sock = <<>>
          /\ client = "gone"
          /\ loop' = Disconnect
          /\ UNCHANGED <<sock, buffer_>>
    /\ UNCHANGED <<state_, playing_, timer, shm, callback, register, found, posts,
                   device, queue, heard, fault, words, client, alsa, copied, next,
                   stops, begins, connected_, session, waiting, opened>>

\* The sleep before it waits for nothing: a callback may still be running.
Unmap ==
    /\ Step("unmap")
    /\ buffer_' = 0
    /\ connected_' = FALSE
    /\ client' = "none"
    /\ sock' = <<>>
    /\ words' = FALSE
    /\ UNCHANGED <<state_, playing_, timer, shm, register, found, posts, device,
                   queue, heard, fault, alsa, copied, next, stops, begins, session,
                   waiting, opened>>

-----------------------------------------------------------------------------

Init ==
    /\ PlayerInit
    /\ connected_ = FALSE /\ due = FALSE /\ session = 0 /\ waiting = 0 /\ opened = 0
    /\ sock = <<>> /\ words = FALSE
    /\ client = "none" /\ copied = [at |-> 0, n |-> 0]
    /\ alsa = [state |-> "setup", appl |-> 0, hw |-> 0, last |-> 0]
    /\ next = 1 /\ stops = 0 /\ begins = {} /\ upset = {}

serverVars == <<connected_, session, waiting, opened>>

ringless == <<state_, playing_, buffer_, timer, loop, callback, register, found,
              posts, device, queue, heard, fault>>

\* No property says what a client hears after one of the reasons was met; to
\* bound the model, it then does nothing but leave.
ClientRuns ==
    /\ upset = {}
    /\ \/ WriteFinish
       \/ PointerRead /\ UNCHANGED shm
       \/ PollRevents /\ UNCHANGED shm
       \/ client = "woken" /\ PointerReceive /\ UNCHANGED shm
    /\ UNCHANGED <<ringless, serverVars, due>>

ClientChooses ==
    /\ upset = {}
    /\ \/ \E size \in 1 .. Size : WriteCopy(size)
       \/ /\ \/ SendCode \/ SendFds \/ Prepare \/ SparkleStart \/ SparkleStop
             \/ client = "ready" /\ PointerReceive
          /\ UNCHANGED shm
    /\ UNCHANGED <<ringless, serverVars, due>>

ClientLeaves == Leave /\ UNCHANGED <<shm, ringless, serverVars, due>>

\* The timer is stopped in this step, and may have expired before: its event is
\* in the batch then, and will be handled.
Overtaken == due' \in {due, due \/ (timer /\ ~timer')}

PlayerRuns(A) == A /\ Watched /\ Overtaken /\ UNCHANGED <<clientVars, serverVars>>

Handles(A) == A /\ Watched /\ UNCHANGED due

Serves == (Accept \/ Read \/ ReadFds \/ Unmap) /\ Watched /\ UNCHANGED due

\* The event of the timer: it has expired, or was stopped before its turn.
TimerEvent ==
    /\ Timeout \/ (due /\ TimerBlocks)
    /\ due' = FALSE
    /\ Watched
    /\ UNCHANGED <<clientVars, serverVars>>

Next ==
    \/ Connect \/ ClientRuns \/ ClientChooses \/ ClientLeaves
    \/ PlayerRuns(LoopStep) \/ TimerEvent
    \/ PlayerRuns(Play) \/ PlayerRuns(CallbackStep)
    \/ Serves
    \/ Handles(NewConnection) \/ Handles(DataIn) \/ Handles(Disconnected)
    \/ Handles(Played)

Spec == Init /\ [][Next]_vars

(* Each thread goes on; what was written is started at some time; epoll_wait *)
(* reports all that is ready, in turn, so that no event waits for ever.      *)
Fairness ==
    /\ WF_vars(ClientRuns)
    /\ WF_vars(PlayerRuns(LoopStep) \/ Serves)
    /\ WF_vars(PlayerRuns(Play)) /\ WF_vars(PlayerRuns(CallbackStep))
    /\ WF_vars(TimerEvent) /\ WF_vars(Handles(DataIn))
    /\ WF_vars(Handles(Disconnected)) /\ WF_vars(Handles(Played))

\* A bound for model checking: most properties end with an overlap, so that only
\* small behaviours are followed past one.  Those that are cut off are not fair.
Followed == "overlap" \in upset => next <= MaxLate + 1

FairSpec == Init /\ [][Next /\ Followed]_vars /\ Fairness

-----------------------------------------------------------------------------
(* Properties *)

Steps == {"play", "arm", "halt", "clear", "reset", "zero", "look", "enqueue", "set",
          "accept", "read", "fds", "unmap", "expire"}

Pointers == [state : {"setup", "prepared", "running"}, appl : Nat, hw : Int, last : Nat]

\* Types of the variables of the player, of the service and of the client, for
\* all that sparkle_player.cpp, sparkle_audio.cpp and pcm_sparkle.c keep
TypeOK ==
    /\ state_ \in {"playing", "stopped"} /\ playing_ \in 0 .. Period
    /\ buffer_ \in 0 .. session /\ timer \in BOOLEAN
    /\ shm \in [write : Nat, read : Nat, data : [Cells -> 0 .. MaxBytes]]
    /\ loop \in Seq(Steps)
    /\ callback \in {"idle", "state", "load", "store", "clear", "look", "enqueue", "set", "post"}
    /\ register \in [read : Nat, n : 0 .. Period]
    /\ found \in [{"loop", "audio"} -> Places \cup {Nothing}]
    /\ posts \in BOOLEAN /\ device \in BOOLEAN /\ queue \in Seq(Places)
    /\ heard \in Seq(0 .. MaxBytes) /\ fault \in BOOLEAN
    /\ connected_ \in BOOLEAN /\ due \in BOOLEAN
    /\ session \in 0 .. opened /\ waiting \in 0 .. opened /\ opened \in 0 .. MaxSessions
    /\ sock \in Seq({"map", "fds", "start", "stop"}) /\ words \in BOOLEAN
    /\ client \in {"none", "code", "fds", "ready", "copied", "pointer", "poll",
                   "woken", "gone"}
    /\ alsa \in Pointers /\ copied \in [at : Nat, n : 0 .. Period]
    /\ next \in 1 .. MaxBytes + 1 /\ stops \in 0 .. MaxStops
    /\ begins \subseteq 1 .. MaxBytes + 1 /\ upset \subseteq Reasons

\* What sparkle_player plays is what the clients wrote: each byte is followed by
\* the next of its stream or by the first of a later one, over the timer, stops and
\* new clients.  Not so once the client has used the ring or stopped it too early
\* for the loop to follow ("cross", "early"), nor once the callback and the loop
\* were in the player at once ("overlap"), when both may enqueue the same bytes.
StreamInOrder ==
    upset = {} =>
        \A i \in 2 .. Len(heard) :
            \/ heard[i] = heard[i - 1] + 1
            \/ heard[i] \in begins /\ heard[i] > heard[i - 1]

\* sparkle_write checks nothing, and yet never overwrites a byte that is still to
\* be played, also where it goes around the end of the ring; again up to the first
\* of the three reasons, each of which can move a position behind the client's back.
UnreadIntact ==
    upset = {} =>
        \A p \in shm.read .. shm.write - 1 :
            shm.data[Cell(p)] = next - copied.n - (shm.write - p)

\* When disconnect_client unmaps the ring, after "usleep(100000); /* Callback */",
\* neither the sound system nor the callback has a place in it left; no place of
\* one client's ring is played for another.
BufferSafe ==
    /\ ~fault
    /\ \A i \in 1 .. Len(queue) : queue[i].of = buffer_

\* As long as the callback has never been in the player together with the loop,
\* disconnect_client does unmap nothing that is in use: the stop before it is
\* enough, whichever socket event or failed read leads to it.
BufferSafeAlone ==
    "overlap" \notin upset => BufferSafe

\* A byte that is written while the player plays is heard: the callback does not
\* see it if it found nothing, and the timer has to.
EveryByteHeard ==
    (state_ = "playing" /\ BytesAvailable(shm) > 0)
        ~> (BytesAvailable(shm) = 0 \/ state_ = "stopped" \/ upset # {})

\* A client that waits in poll for room is woken: sparkle_receive may drop a word,
\* but then sparkle_pointer has not read the position yet.  A loop that is blocked
\* in the timer's read sends no word.
WriterWoken ==
    client = "poll" ~> (client # "poll" \/ upset # {} \/ Hung)

\* However a client ends, and whatever it was in the middle of, disconnect_client
\* makes room for the next one, which is otherwise rejected; unless the loop is
\* blocked in the timer's read.
ClientReleased ==
    client = "gone" ~> (~connected_ \/ Hung)

=============================================================================
