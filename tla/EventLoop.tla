------------------------------ MODULE EventLoop ------------------------------
(***************************************************************************)
(* were_thread, the loop that waits in epoll_wait and calls event_() of the *)
(* were_fd objects of a batch of events, with the descriptors of the audio  *)
(* service in it: the listening socket of were_unix_server, the sockets of  *)
(* its clients, and the timer that the clients' codes start and stop.  On   *)
(* Android, which has this service, the loop does not end.                  *)
(*                                                                         *)
(* A batch holds plain pointers, and was made before its first event is     *)
(* handled.  epoll is modelled by its list of ready descriptors: one is put *)
(* there when something happens to it and taken away when it is reported;   *)
(* the listening socket, which is not edge-triggered, is put back.          *)
(* Sockets and the timer are blocking: a read without data stops the loop.  *)
(***************************************************************************)
EXTENDS Integers, FiniteSets, SequencesExt

CONSTANTS
    Clients,        \* the sockets of clients
    Server,         \* the listening socket
    Timer,          \* check_timer_ of the player
    Nobody,         \* no client
    MaxEvents,      \* MAX_EVENTS
    MaxCodes,       \* bound: messages a client sends
    MaxTicks        \* bound: expirations of the timer

\* Descriptors differ; epoll_wait is given room for an event.
EventLoopConstants ==
    /\ Nobody \notin Clients /\ Server \notin Clients /\ Timer \notin Clients
    /\ Server # Timer
    /\ MaxEvents \in Nat \ {0} /\ MaxCodes \in Nat /\ MaxTicks \in Nat

ASSUME EventLoopAssumption == EventLoopConstants

Fds == Clients \cup {Server, Timer}

VARIABLES
    peer,           \* what the client does: "none", "open" or "closed"
    backlog,        \* connections that wait to be accepted
    unread,         \* messages in each socket
    sent,           \* how many messages each client has sent
    object,         \* its were_unix_socket: "none", "open", "closed", "deleted"
    holders,        \* who has a reference to it
    connected,      \* the client that sparkle_audio serves, or Nobody
    armed,          \* the timer runs
    expired,        \* it has expired and was not read
    ticks,
    ready,          \* epoll's list of ready descriptors
    batch,          \* the events yet to be handled, the current one first
    phase           \* "wait", "event", "reading", "receiving", "leaving", "blocked"

vars == <<peer, backlog, unread, sent, object, holders, connected, armed, expired,
          ticks, ready, batch, phase>>

outside == <<peer, sent>>
service == <<object, holders, connected>>
timerVars == <<armed, expired, ticks>>

Woken(f) == IF Contains(ready, f) THEN ready ELSE Append(ready, f)

\* epoll's list without f, which is on it once at most
Without(f) ==
    IF Contains(ready, f)
    THEN RemoveAt(ready, CHOOSE i \in 1 .. Len(ready) : ready[i] = f)
    ELSE ready

-----------------------------------------------------------------------------
(* What happens outside *)

PeerConnect(c) ==
    /\ peer[c] = "none"
    /\ peer' = [peer EXCEPT ![c] = "open"]
    /\ backlog' = Append(backlog, c)
    /\ ready' = Woken(Server)
    /\ UNCHANGED <<unread, sent, service, timerVars, batch, phase>>

Messages == {"map", "fds", "start", "stop"}

\* What the plug-in sends after n messages: the code of the ring, its
\* descriptor, and then any codes.
Sends(n) ==
    IF n = 0 THEN {"map"} ELSE IF n = 1 THEN {"fds"} ELSE {"start", "stop"}

PeerSend(c, code) ==
    /\ peer[c] = "open"
    /\ sent[c] < MaxCodes
    /\ code \in Sends(sent[c])
    /\ sent' = [sent EXCEPT ![c] = @ + 1]
    /\ unread' = [unread EXCEPT ![c] = Append(@, code)]
    /\ ready' = IF object[c] = "open" THEN Woken(c) ELSE ready
    /\ UNCHANGED <<peer, backlog, service, timerVars, batch, phase>>

PeerClose(c) ==
    /\ peer[c] = "open"
    /\ peer' = [peer EXCEPT ![c] = "closed"]
    /\ ready' = IF object[c] = "open" THEN Woken(c) ELSE ready
    /\ UNCHANGED <<backlog, unread, sent, service, timerVars, batch, phase>>

Expire ==
    /\ armed
    /\ ticks < MaxTicks
    /\ ticks' = ticks + 1
    /\ expired' = TRUE
    /\ ready' = Woken(Timer)
    /\ UNCHANGED <<outside, backlog, unread, service, armed, batch, phase>>

-----------------------------------------------------------------------------
(* process_events *)

\* What epoll_wait says of a descriptor, or "" if there is nothing to report.
Mask(f) ==
    CASE f \in Clients ->
            IF peer[f] = "closed" THEN "hangup" ELSE IF unread[f] # <<>> THEN "in" ELSE ""
      [] f = Server -> IF backlog # <<>> THEN "in" ELSE ""
      [] f = Timer -> IF expired THEN "in" ELSE ""

\* How many of the ready descriptors are looked at
Looked == IF Len(ready) < MaxEvents THEN Len(ready) ELSE MaxEvents

\* The places of those that have something to report, ...
Reported == {i \in 1 .. Looked : Mask(ready[i]) # ""}

\* ... in the order of the list
InOrder(places) ==
    {order \in Bijection(1 .. Cardinality(places), places) :
        \A i, j \in DOMAIN order : i < j => order[i] < order[j]}

EpollWait ==
    /\ phase = "wait"
    /\ ready # <<>>
    /\ \E order \in InOrder(Reported) :
          batch' = [i \in 1 .. Cardinality(Reported) |->
                       [fd |-> ready[order[i]], mask |-> Mask(ready[order[i]])]]
    /\ ready' = SubSeq(ready, Looked + 1, Len(ready))
                    \o (IF \E i \in Reported : ready[i] = Server THEN <<Server>> ELSE <<>>)
    /\ phase' = IF Reported = {} THEN "wait" ELSE "event"
    /\ UNCHANGED <<outside, backlog, unread, service, timerVars>>

Current == Head(batch).fd

\* Fault: the loop over the batch is left after one event.
HandledFirst ==
    /\ batch' = Tail(batch)
    /\ phase' = "wait"

\* event_() has returned; after the last of the batch, run() goes on.
Handled ==
    /\ batch' = Tail(batch)
    /\ phase' = IF Tail(batch) = <<>> THEN "wait" ELSE "event"

-----------------------------------------------------------------------------
(* were_unix_server::event_ and connect_client *)

\* were_new<were_unix_socket>: the integrator registers the descriptor, which
\* is ready at once if something has happened to it.
Registered(c, list) ==
    IF unread[c] # <<>> \/ peer[c] = "closed" THEN Append(list, c) ELSE list

\* Fault: a new client replaces the one before instead of being rejected.
NewConnectionReplaces ==
    LET c == Head(backlog)
    IN /\ phase = "event" /\ Current = Server
       /\ backlog # <<>>
       /\ backlog' = Tail(backlog)
       /\ object' = [d \in Clients |-> IF d = c THEN "open"
                        ELSE IF d = connected THEN "deleted" ELSE object[d]]
       /\ holders' = [d \in Clients |-> IF d = c THEN {"loop", "connections"}
                        ELSE IF d = connected THEN {} ELSE holders[d]]
       /\ connected' = c
       /\ ready' = Registered(c, ready)
       /\ UNCHANGED <<outside, unread, timerVars>>
       /\ Handled

NewConnection ==
    LET c == Head(backlog)
    IN /\ phase = "event" /\ Current = Server
       /\ backlog # <<>>
       /\ backlog' = Tail(backlog)
       /\ IF connected # Nobody
          THEN UNCHANGED <<service, ready>>
          ELSE /\ object' = [object EXCEPT ![c] = "open"]
               /\ holders' = [holders EXCEPT ![c] = {"loop", "connections"}]
               /\ connected' = c
               /\ ready' = Registered(c, ready)
       /\ UNCHANGED <<outside, unread, timerVars>>
       /\ Handled

-----------------------------------------------------------------------------
(* were_unix_socket::event_, read and disconnect_client *)

\* event_() takes a reference, and emits data_in ...
SocketIn ==
    /\ phase = "event" /\ Current \in Clients
    /\ Head(batch).mask = "in"
    /\ holders' = [holders EXCEPT ![Current] = @ \cup {"call"}]
    /\ phase' = "reading"
    /\ UNCHANGED <<outside, backlog, unread, object, connected, timerVars, ready, batch>>

\* ... or disconnected.
SocketHangup ==
    /\ phase = "event" /\ Current \in Clients
    /\ Head(batch).mask = "hangup"
    /\ holders' = [holders EXCEPT ![Current] = @ \cup {"call"}]
    /\ phase' = "leaving"
    /\ UNCHANGED <<outside, backlog, unread, object, connected, timerVars, ready, batch>>

\* timerfd_settime forgets expirations that were not read.
Settime(on) == armed' = on /\ expired' = FALSE /\ UNCHANGED ticks

\* A turn of read(): start and stop reach the timer if they change the player;
\* after the code of the ring, its descriptor is received.
ReadCode ==
    LET code == Head(unread[Current])
    IN /\ phase = "reading"
       /\ unread[Current] # <<>>
       /\ unread' = [unread EXCEPT ![Current] = Tail(@)]
       /\ IF code = "map" \/ armed = (code = "start")
          THEN UNCHANGED timerVars ELSE Settime(code = "start")
       /\ phase' = IF code = "map" THEN "receiving" ELSE "reading"
       /\ UNCHANGED <<outside, backlog, service, ready, batch>>

\* receive_fds sleeps until there is something to receive.
ReceiveFds ==
    /\ phase = "receiving"
    /\ unread[Current] # <<>>
    /\ unread' = [unread EXCEPT ![Current] = Tail(@)]
    /\ phase' = "reading"
    /\ UNCHANGED <<outside, backlog, service, timerVars, ready, batch>>

\* It fails if the client ends before, and read() disconnects the client.
ReceiveFails ==
    /\ phase = "receiving"
    /\ unread[Current] = <<>> /\ peer[Current] = "closed"
    /\ phase' = "leaving"
    /\ UNCHANGED <<outside, backlog, unread, service, timerVars, ready, batch>>

\* Fault: read() returns with codes left.
ReadEndsEarly ==
    /\ phase = "reading"
    /\ sent[Current] > Len(unread[Current])
    /\ holders' = [holders EXCEPT ![Current] = @ \ {"call"}]
    /\ UNCHANGED <<outside, backlog, unread, object, connected, timerVars, ready>>
    /\ Handled

\* Fault: read() goes on until the client closes the socket.
ReadEndsLate ==
    /\ phase = "reading"
    /\ unread[Current] = <<>>
    /\ peer[Current] = "closed"
    /\ holders' = [holders EXCEPT ![Current] = @ \ {"call"}]
    /\ UNCHANGED <<outside, backlog, unread, object, connected, timerVars, ready>>
    /\ Handled

\* read() ends when bytes_available is 0.  event_() drops its reference.
ReadEnds ==
    /\ phase = "reading"
    /\ unread[Current] = <<>>
    /\ holders' = [holders EXCEPT ![Current] = @ \ {"call"}]
    /\ UNCHANGED <<outside, backlog, unread, object, connected, timerVars, ready>>
    /\ Handled

\* Fault: close() leaves the loop its reference.
CollapseRegistered ==
    /\ phase = "leaving"
    /\ connected = Current
    /\ connected' = Nobody
    /\ object' = [object EXCEPT ![Current] = "closed"]
    /\ holders' = [holders EXCEPT ![Current] = @ \ {"connections"}]
    /\ unread' = [unread EXCEPT ![Current] = <<>>]
    /\ IF armed THEN Settime(FALSE) ELSE UNCHANGED timerVars
    /\ ready' = Without(Current)
    /\ UNCHANGED <<outside, backlog, batch, phase>>

\* disconnect_client: the player and its timer are stopped, and the socket
\* collapses.  close() unregisters it, and its connections are broken.
Collapse ==
    /\ phase = "leaving"
    /\ connected = Current
    /\ connected' = Nobody
    /\ object' = [object EXCEPT ![Current] = "closed"]
    /\ holders' = [holders EXCEPT ![Current] = @ \ {"loop", "connections"}]
    /\ unread' = [unread EXCEPT ![Current] = <<>>]
    /\ IF armed THEN Settime(FALSE) ELSE UNCHANGED timerVars
    /\ ready' = Without(Current)
    /\ UNCHANGED <<outside, backlog, batch, phase>>

\* event_() drops its reference, which may be the last.
Left ==
    LET others == holders[Current] \ {"call"}
    IN /\ phase = "leaving"
       /\ connected # Current
       /\ holders' = [holders EXCEPT ![Current] = others]
       /\ object' = [object EXCEPT ![Current] = IF others = {} THEN "deleted" ELSE @]
       /\ UNCHANGED <<outside, backlog, unread, connected, timerVars, ready>>
       /\ Handled

-----------------------------------------------------------------------------
(* were_timer *)

\* The slot of data_in reads the count of expirations; without one, read blocks.
TimerIn ==
    /\ phase = "event" /\ Current = Timer
    /\ expired' = FALSE
    /\ UNCHANGED <<outside, backlog, unread, service, armed, ticks, ready>>
    /\ IF expired THEN Handled ELSE phase' = "blocked" /\ UNCHANGED batch

-----------------------------------------------------------------------------

Init ==
    /\ peer = [c \in Clients |-> "none"] /\ backlog = <<>>
    /\ unread = [c \in Clients |-> <<>>] /\ sent = [c \in Clients |-> 0]
    /\ object = [c \in Clients |-> "none"] /\ holders = [c \in Clients |-> {}]
    /\ connected = Nobody
    /\ armed = FALSE /\ expired = FALSE /\ ticks = 0
    /\ ready = <<>> /\ batch = <<>> /\ phase = "wait"

Outside ==
    \/ \E c \in Clients : \/ PeerConnect(c) \/ PeerClose(c)
                          \/ \E code \in Messages : PeerSend(c, code)
    \/ Expire

Run ==
    \/ EpollWait \/ NewConnection \/ SocketIn \/ SocketHangup
    \/ ReadCode \/ ReceiveFds \/ ReceiveFails \/ ReadEnds
    \/ Collapse \/ Left \/ TimerIn

Next == Outside \/ Run

Spec == Init /\ [][Next]_vars

(* The loop's thread goes on. *)
FairSpec == Spec /\ WF_vars(Run)

-----------------------------------------------------------------------------
(* Properties *)

Events == [fd : Fds, mask : {"in", "hangup"}]

\* Types; where the loop is decides what the batch holds
TypeOK ==
    /\ peer \in [Clients -> {"none", "open", "closed"}]
    /\ backlog \in Seq(Clients) /\ unread \in [Clients -> Seq(Messages)]
    /\ sent \in [Clients -> 0 .. MaxCodes]
    /\ object \in [Clients -> {"none", "open", "closed", "deleted"}]
    /\ holders \in [Clients -> SUBSET {"loop", "connections", "call"}]
    /\ connected \in Clients \cup {Nobody}
    /\ armed \in BOOLEAN /\ expired \in BOOLEAN /\ ticks \in 0 .. MaxTicks
    /\ ready \in Seq(Fds) /\ batch \in Seq(Events) /\ Len(batch) <= MaxEvents
    /\ phase \in {"wait", "event", "reading", "receiving", "leaving", "blocked"}
    /\ phase = "wait" <=> batch = <<>>

\* The plain pointers of a batch are good: whatever the events before do, the
\* were_fd of an event that process_events has yet to handle exists and is open.
EventsAlive ==
    \A i \in 1 .. Len(batch) :
        batch[i].fd \in Clients =>
            \/ object[batch[i].fd] = "open"
            \/ i = 1 /\ phase = "leaving" /\ "call" \in holders[batch[i].fd]

\* While the loop sleeps in epoll_wait there is nothing left to do: no connection,
\* no code and no end of a client is missed, though the sockets of the clients are
\* edge-triggered and may have been written to before they were registered.
NothingStranded ==
    (phase = "wait" /\ ready = <<>>) =>
        /\ backlog = <<>>
        /\ connected # Nobody => unread[connected] = <<>> /\ peer[connected] = "open"

\* Between two batches, a were_unix_socket is held exactly by the loop and by its
\* connections if it is open, and was deleted if it has collapsed.
SocketsFreed ==
    phase = "wait" =>
        \A c \in Clients :
            /\ object[c] = "open" => holders[c] = {"loop", "connections"}
            /\ object[c] \in {"none", "deleted"} \/ c = connected

\* The timer's slot throws if it does not read a count, so that it takes for
\* granted that there is one when it is called.
TimerReadReturns == phase # "blocked"

\* The loop sleeps in receive_fds, and the client that it serves neither sends
\* the descriptor nor ends.
Stalled ==
    phase = "receiving" /\ unread[Current] = <<>> /\ peer[Current] = "open"

\* A connection is accepted or rejected at last, unless the loop sleeps for ever
\* in the timer's read or in receive_fds for a client that stalls.
ConnectionServed ==
    \A c \in Clients :
        Contains(backlog, c) ~> (~Contains(backlog, c) \/ [](phase = "blocked" \/ Stalled))

=============================================================================
