# Sparkle: models, checks and proofs

Sparkle is a small Wayland compositor. A Wayland client draws into shared
memory; Sparkle shows each surface as a window of another window system
(an Android view, or an X11 window), and passes input back. It is built on
`were`, an object system of its own with reference counts, signals, links and
event loops.

This directory holds TLA+ models of the parts that carry the program's logic,
TLC configurations for small instances, and TLAPS proofs for all instances.

## 1. Inventory

| Part | Source | State | Operations | Talks to |
|---|---|---|---|---|
| Handler | `were/were_handler.cpp` | call queue, mutex, eventfd | `post`, `process_queue` | threads through queued connections, the audio callback, the event loop |
| Event loop | `were/were_thread.cpp`, `were_fd.cpp`, `were_timer.cpp` | epoll set, flag for exit | register, unregister, `process_events`, `run` | every descriptor: handler, display, xcb, timers, sockets |
| Object kernel | `were/were_pointer.h`, `were_signal.h`, `were_connect.h`, `were_capability_*.cpp` | reference counts, connection lists, integration state | `were_new`, `connect`, `link`, `collapse` | everything |
| Wayland surface | `sparkle_common/sparkle_surface.cpp`, `sparkle_resource.cpp`, `sparkle_bouncer.h`, `sparkle_compositor.h`, `sparkle_shell.h` | attached buffer, pending frame callback, listeners on `wl_resource`s | requests of `wl_surface`, end of resources | libwayland, the consumer of the surface |
| Seat | `sparkle_common/sparkle.cpp`, `sparkle_seat.h`, `sparkle_keyboard.h`, `sparkle_pointer.h`, `sparkle_touch.h` | connections between surfaces and devices | new surface, new device, enter, leave | surfaces, consumers |
| Damage rectangle | `were/math/were_rect.h` | four ints | `expand`, `limit` | both consumers |
| Android view | `sparkle_android/sparkle_view.cpp`, `SparkleView.java`, `were/were_upload.cpp` | window, its geometry and lock, damage; marks of the right click | `update`, `set_window`, motion and key events | surface, Android |
| X11 surface | `were/were_x11_surface.cpp`, `were1_xcb.c` | window with shared memory, damage | `update`, X events | surface, X server |
| Audio | `sparkle_android/sparkle_audio.cpp`, `sparkle_player.cpp`, `were1_ring_buffer.c`, `pcm_sparkle/` | player, ring buffer in shared memory, one client | connect, start, stop, callback, check, write, pointer | ALSA clients, the sound system's thread, timer, socket |
| Unix socket | `were/were_unix_server.cpp`, `were_unix_socket.cpp`, `were1_unix_socket.c` | descriptors, references | `send_all`, `receive_all` | audio |
| Application and service | `sparkle_android/*application*`, `*service*`, `*activity*`, Java | activities, service, the user's script on a thread of its own, the pipe to the log | create, start, stop, destroy | Java, settings, event loop |
| Settings and log | `were/were_settings.cpp`, `were_settings.h`, `were_log.cpp` | a map under a mutex, a file | `load`, `get` | view, application |
| Debug | `were/were_debug.cpp`, `were_backtrace.cpp` | - | - | - |

How they interact. A client's request comes from libwayland through a
generated dispatcher to a signal of a wrapper object, on the thread that
dispatches the display. `sparkle_surface` turns it into signals of its own
(`damage`, `commit`), which the consumer (view or X11 surface) has slots for;
the consumer reads the surface's pixels back with `data()`. Input goes the other
way through signals of the surface, to the devices that registered with it.
Objects of different threads talk through queued connections, which
`were_handler` carries.

What is hard, and what must hold:

* **Handler.** Posts of several threads interleave with the loop, with an
  edge-triggered eventfd written outside of the mutex. No call may be left in
  the queue with the loop asleep; the loop may not block in `read`; calls are
  started once and in order; `post` returns, also from within a call.
* **Object kernel.** `destroyed` is emitted over a snapshot of its slots, which
  collapse further objects, break connections and drop last references. Every
  object is cleaned up exactly once, the cascade is complete and ends, and
  nothing collapsed stays referenced by a connection.
* **Wayland surface.** Wrappers of `wl_resource`s are freed by counting while
  libwayland has raw pointers to their listeners; requests and ends of resources
  come in any order. No dangling pointer, no leak, callbacks answered once and in
  order, buffers given back.
* **Seat.** Surfaces and devices are announced to each other in both directions.
  Input reaches each device of the client exactly once, whatever came first.
* **View and X11 surface.** Client, window manager, and window system act
  independently. No damage is lost, whatever the uploader; nothing is drawn
  outside of the window.
* **Input.** A contact may be a touch, a left or a right click; what makes it
  one may change while it lasts, and Android may take it back. What is released
  is what was pressed.
* **Audio.** A loop, a callback's thread and another process share a ring
  without a lock, and a message without answer resets it. Bytes are played in
  order, all of them, and none is overwritten; the ring is not used after it is
  unmapped; nobody waits for ever.
* **Event loop.** A batch of events has plain pointers and was made before its
  first event was handled. No event reaches a deleted object, no edge is missed,
  sockets are freed.
* **Application.** The main thread waits for threads and pipes that may wait for
  the main thread. Callbacks return, a thread does not outlive its object, and a
  script comes from a complete configuration.

`PROJECT.json` lists every hazard at its line, with the properties that cover it.

## 2. Modules

```
CallQueue  <--refined by--  Handler  <--  KernelProofs, MCHandlerView
Lifecycle  <--  KernelProofs, MCLifecycle
EventLoop  <--  EventLoopProofs, MCEventLoop
Surface    <--  SurfaceProofs, MCSurface
Seat       <--  InputProofs, MCDevices
Input      <--  InputProofs, MCDevices
Rect       <--  RectProofs
  ^-- Upload  <--  View  <--  ViewProofs (with RectProofs), MCView, MCHandlerView
  ^-- X11Surface         <--  X11SurfaceProofs (with RectProofs), MCX11Surface
Application  <--  AndroidProofs, MCApplication
RingBuffer <--  Player  <--  Audio  <--  AndroidProofs (with Application), MCAudio
```

`KernelProofs`, `InputProofs` and `AndroidProofs` each extend two components, and so
do the modules of two runs, `MCHandlerView` and `MCDevices`; for this, the names that every specification has carry the name of the module in `Handler`, `Seat` and
`Application` (`HandlerInit`, `SeatNext`, `AppSpec`).

**CallQueue / Handler.** `CallQueue` is what `were_handler` promises: a log of
calls, and a number of them that were started, which only grows in steps of one.
`Handler` has one action per step between which threads can interleave: taking
the mutex, the push, the write to the eventfd; `epoll_wait`, the read, the test
of the queue under the mutex, the call. Edge triggering is modelled as the
kernel's ready list: a write puts the eventfd on it, `epoll_wait` takes it off
and reports it only if the counter is not 0. The refinement mapping is
`log = ran \o queue`, `started = Len(ran)`.

**Lifecycle.** Objects with links, other connections, and parts. A collapse is
not one step: the model keeps the stack of `disintegrate()` calls and
destructors, each with the snapshot of slots `emit` took, and runs slot by slot.
Reference counts are derived: an object is deleted as soon as nobody outside, no
living owner, no connection, and no frame of the stack refers to it. Each
connection brings the two breakers `were::connect` makes; the two that a
connection of an object to itself has at the same signal are one, as the second
finds nothing. A destructor gives up its pointer to a part when it has collapsed it,
where the member lasts to the end of the destructor in the code: the part is deleted a
little earlier, which no property tells apart. Connections are a set, and their ids, which grow, give the order
of the slots (`Before`). The program only links an object to, and makes it a part
of, another one without cycles; the numbering of the objects stands for that. Nor
is an object both part of another one and an end of a link: the members that
destructors collapse (`server_`, `player_`, `check_timer_`, `fd_`, the globals of
`sparkle`, a surface's `buffer_`) are not among the objects `were::link` is
called with. That matters: the state is set to disintegrated only after the
emission, and with parts that are ends of links, four objects suffice for
`disintegrate()` to be entered a second time from within itself. The search for
an inductive invariant showed this. Three objects, as in the run, are too few for
it: that it does not happen to this program is what the proof shows.

**Surface.** The surface's `buffer_` and `callback_` index a sequence of all
wrappers ever made, each with its count, its listener, and whether it believes
in its resource. A request is one step, as everything runs on one thread. Commit
notifies the consumer, answers and destroys the callback, and unsets it;
attach releases, collapses and replaces the wrapper. A client that leaves has
its resources destroyed in any order, which includes libwayland's.
`owed`, and for each surface `asked` and `done`, are history variables.

**Seat.** Counts of connections: from a device to `surface_created`, from a
surface to the three device signals, and from a surface's input to a device. An
emission is one step, since the order of its slots makes no difference to the
counts.

**Rect.** `expand`, `limit`, and the damage slots with int addition that wraps
(`Plus`). `Pixels` gives a rectangle its meaning.

**View.** `update(full)` with its early returns as disjuncts: nothing to draw,
the size changes (asks for a new layout and returns), the lock fails, the
buffer has the wrong size (returns with the window locked), draw. Android's
`lock` may enlarge the rectangle to the whole buffer; both outcomes are
allowed. `owed` (a history variable) holds the pixels that the client has
damaged, or that were lost with a window, and that were not drawn since. What a
draw takes off it is what the uploader for the window's format draws. Clients
attach, damage and commit in any order, with any damage; a request whose edges
wrap around changes `damage_` as the code does, and adds nothing to `owed`.

**Upload.** The two uploaders that are used, as the set of pixels of the
destination that get the pixel of the source at the same place. `uploader_0`
copies rows; `uploader_2`, which exchanges red and blue, handles two pixels at a
time, with the rounding of its columns and of the distance of its rows.

**X11Surface.** `update` resizes the window at once, with new, empty shared
memory, and draws; the X server's expose events arrive at any later time. Each
drawing is a request whose result is asked for, and with that answer xcb may read
an expose event that has come meanwhile. The connection is edge-triggered, so the
model has two places for an event: on its way to the loop (`wire`), which the loop
is woken for, and in xcb's queue (`queued`), where it waits for the next event of any
kind (`Checked`, `GetEvents`). Damage may lie outside of the surface.

**Input.** What `onMotionEvent`, `onKeyDown` and `onKeyUp` make of the events of
a finger, a stylus, a mouse and keys. Variables for what is physically held,
the view's two marks (`rmb_`, `rmb_down_`), and what the client was told. Android's
part is nondeterministic: it takes a contact back (`Cancel`), or hides the view
with something held; `losses` counts that. `onKeyDown` does not ask whether a key
repeats: each repetition of a mouse's back key presses the right button once more, and
its one release releases it once; `repeats` counts that. Each of the codes 8
and 16 reads its own place behind `button_map`.

**RingBuffer / Player / Audio.** `RingBuffer` is the data structure: two
positions that only grow, and cells. `Player` adds the two threads: what the
event loop has left to do of `start`, `stop` or `check` is a sequence of steps,
the callback is at one of its steps, and each step is one access to what they
share. `read_position += playing_` is two steps. OpenSL ES is a queue of places
whose bytes are read when they are played. `Audio` adds the service, the socket
and the client, which is the plug-in as alsa-lib calls it; a byte is its number
in the order of writing, so that what is heard can be compared with what was
written. The client may end at every point. Nothing keeps the
callback and the loop apart: the callback may be at any of its steps at any step of
the loop, also when `disconnect_client` unmaps the ring, since its sleep waits for
nothing. The timer's event begins with the read of `were_timer`, which blocks for
ever if the timer was stopped earlier in the batch (`due`, `TimerBlocks`, `Hung`).
Three things the code does not prevent are recorded in `upset`: the client uses
the ring while its stop is on its way (`cross`), or stops what it has written
and not started, which the player, being stopped, does not reset (`early`), or the
callback and the loop have been in the player at once (`overlap`). The properties
about bytes end with the first of them; to bound the model, the client then does
nothing but leave.

**EventLoop.** The same service as seen by the loop: epoll's ready list, batches
of events, the listening socket (level-triggered), the sockets of clients
(edge-triggered), and the player's timer. A client's socket is an object with
holders; its deletion is the loss of the last one. A client sends the code of the
ring, its descriptor, and then `start` and `stop`, which reach the timer. After the
code of the ring, `read` sleeps in `receive_fds`, and the whole loop with it, until
the descriptor or the end of the client comes (`ReceiveFds`, `ReceiveFails`).

**Application.** The main thread runs one callback at a time, and the event loop
when there is none; a callback is split where it can wait: printing into the
pipe, taking the settings' mutex, joining a thread. The user's script is a
process that prints, uses the server, and exits. An exception ends the process
(`Dead`).

The definitions that follow a comment `Fault:` are wrong versions of the
definition after them: each property is shown to fail when the right one is
replaced by one of these (`mutants` in `PROJECT.json`), so that no property holds
for nothing.

## 3. Runs

| Run | Shows | Bounds |
|---|---|---|
| `handler_view` | `Handler`: no lost wake-up, no blocking read, `CallQueue` with its liveness, `post` returns | two posting threads and the loop, two posts each: the loop is caught between any two steps of a post by another |
| | `View`: no damage is lost | sizes of up to 3 by 3 pixels, three of them, one with an odd stride; damage inside, across the edges, outside, and with an edge that wraps around; both formats |
| `lifecycle` | cleaned up once, not entered again, cascade complete, ends, and leaves nothing referenced | 3 objects, 5 connections, 2 of the objects with a slot of their own: chains and diamonds of links, parts with connections, a part collapsed before its owner, links made twice |
| `surface` | good pointers, shared listeners, no leak, callbacks in order, buffers given back | 2 surfaces, 2 buffers, 3 callbacks, 4 wrappers: a buffer on both surfaces, a callback replaced, a buffer replaced |
| `devices` | `Seat`: input reaches the client's devices once per shell surface and nobody else | 2 clients, 3 surfaces, 4 devices of all three kinds, 2 shell surfaces |
| | `Input`: what is held is down, and nothing else but repeated presses until Android takes something back | finger or stylus, three mouse buttons of which two lie beyond `button_map` and one of these acts as the third, the mouse's back key with two repetitions, the volume key and one more, two losses |
| `x11_surface` | no damage is lost, a window that lost pixels shows them again unless a commit has read the event | the same sizes as for `View`; damage inside, across, outside and wrapping |
| `audio` | bytes in order, all of them, none overwritten, no use after unmap, up to an overlap; writer woken, next client served, but for the timer's read | a ring of two bytes, three bytes to write, two clients, one stop: a write and a play stop at the ring's end, the ring is full, a stop and a second client come at every step; `MaxLate`: past an overlap, behaviours with one byte written |
| `event_loop` | events reach living objects, no edge is missed, sockets are freed, connections answered unless the loop sleeps in one of two reads | two clients with four messages each (the ring's code, its descriptor, two of start and stop), batches of up to three of the four descriptors, two expirations |
| `application` | threads end before their activity, commands are fresh, start returns, the other callbacks too but for two circles | two activities, two starts, a pipe of two chunks, scripts of one command, four versions of the configuration of which one does not parse and one has a number for a string |

Every module has a type invariant. The runs of `Handler`, `Surface`, `View` and
`EventLoop` list it; that of every module is proved, in a theorem of its own or,
for `Application` and `Audio`, as part of the invariant.

The pixel models need only a few pixels: an edge is below, on, or above another
one, which 3 by 3 pixels and damage that crosses each side give. Identifiers are
used once; a wrapper of a second object with the same id would behave the same.
The ring's positions matter only modulo its size and by their difference, so
that a ring of two bytes meets each relation of them.

Two runs check two components each, which share no state: in each behaviour one of
them moves (`moving`) while the other is in an initial state, so that the reachable
states are those of the one and those of the other, and not their product. A component
that rests has nothing to do that fairness asks for: the handler rests with the loop waiting
and nobody posting, and the view, the seat and the input have no fairness.

`MaxLate` bounds `audio` alone. After an overlap, the properties about bytes have
nothing to say, and the two that still do (`WriterWoken` up to it, `ClientReleased`
beyond it) are about control; so behaviours are followed past an overlap only while at
most `MaxLate` bytes were written, and the others are cut off there, which
leaves them unfair and no counterexample to liveness. The violation run and the proofs
use `Spec`, which cuts off nothing.

Four more runs refute what the code's own checks and comments, or the protocol, take for
granted:

| Run | Refuted | What happens |
|---|---|---|
| `view_lock` | `LockSucceeds` | two commits before a new size is granted: the first leaves the window locked, the second throws |
| `timer_read` | `TimerReadReturns` | a `stop` earlier in a batch takes back the expiration that the batch reports for the timer; the timer's read of its blocking descriptor hangs the loop |
| `audio_overlap` | `BufferSafe` | the callback has found the player playing when `stop` begins, and goes on after `usleep(100000); /* Callback */`: it reads a ring that is unmapped. If the sleep always outlasted the callback, another one would remain: a place that the callback enqueues after `stop` has cleared the queue stays there, and the next client's start plays it |
| `x11_damage` | `UploadInside` | damage outside of the surface, which the protocol says is ignored, reaches the uploader as a rectangle with exchanged edges |

Deviations that were found with the models and have no run of their own:

* Attaching the buffer that is attached already releases it, and goes on reading
  it (`Surface!Attach`; `wl_buffer.release` is for buffers that are not read any
  more).
* A commit or redraw after the attached buffer was destroyed throws out of the
  event loop (`Surface!ReadDestroyedBuffer`), where the protocol says that the
  surface's contents become undefined.
* A keyboard enters each new surface of its client, with no leave for the one
  before (`Seat!Registrations`).
* An attach is read before its commit, a second frame request answers the first
  at once, and an attach of no buffer ends the process (`Surface!AttachNull`).
* Damage is not double-buffered: a redraw between a damage request and the attach it
  belongs to draws the old buffer and forgets the damage, and the commit does not draw
  it again. `DamageCovers` speaks of the damage a client has sent since a pixel was
  drawn, from whatever buffer.
* A damage request whose right or bottom edge is no int (`~Fits(d)`) wraps around
  and is lost.
* In the format that is not `fast`, odd rows of a buffer with an odd stride are
  taken from one pixel before: `View!DamageCovers` names them (`Shifted`).
* An expose event that a commit has read into xcb's queue waits there for the next
  event from the X server; the window shows nothing until then, or until the client
  draws (`X11Surface!ShowsAgain` ends with `queued`).
* A client of the audio service that sends the code of its ring and not the descriptor
  blocks the loop, and with it every other client, for as long as it lives
  (`EventLoop!Stalled`).
* The timer's check and the callback may find the same bytes and enqueue them twice:
  without its exception for an overlap, `Audio!StreamInOrder` fails.
* A mouse's back key that repeats presses the right button again with each repetition,
  and releases it once: it stays down (`Input!Repeated`).
* A contact that is a right click sends `touch_motion` without `touch_down` when it
  moves (`SparkleView.java:228`); a contact that Android cancels, and whatever is
  held when the view is hidden, stays down for the client.
* `button_map` has seven entries and is read at 8 and 16 for the mouse's side
  buttons.
* The main thread prints into the log's pipe, which it alone reads, and the
  destructor of an activity waits for a script that may wait for the server, or
  for room in that pipe: `Application!Stuck` names the two circles, in which the
  application hangs.

**Deadlock.** TLC's deadlock check is off where the system may stop: all posts
were made, all ids used up, nobody presses anything, a circle of `Stuck` is
closed. It is on for `x11_surface`, where something can always happen.

**Fairness.** `handler_view`: weak fairness of the loop and of every thread inside
`post`, as the kernel schedules runnable threads and calls return; nobody has to
post. `lifecycle`: weak fairness of the calls in progress, which are a single
thread's stack. `x11_surface`: the loop is woken for an expose event that is on its way;
not for one in xcb's queue, and neither the client nor the X server has a duty. `audio`: weak fairness of the loop, of the callback, of the sound system, and
of each kind of event, since `epoll_wait` reports ready descriptors in turn; of
the client only where it is inside of a call of the plug-in or asleep in poll.
`event_loop`: weak fairness of the loop's thread; clients have no duty.
`application`: weak fairness of the main thread inside of a callback, of the
event loop, to which the looper comes, of the scripts' threads and of the scripts,
which `std::system` runs and whose commands are bounded; no callback has to come. The
other runs assume no fairness.

## 4. Proofs

| Theorem | For all |
|---|---|
| `KernelProofs!HandlerTypeCorrect`, `NoWakeupLost`, `ReadNeverBlocks` | numbers of threads and of posts |
| `KernelProofs!HandlerRefinesCallQueue` | the same: the safety part of `CallQueue` |
| `RectProofs!ExpandCovers`, `LimitExact` | rectangles |
| `ViewProofs!TypeCorrect` | sizes and damage |
| `ViewProofs!ConvertedCovers` | rectangles, and rows that begin at even distances |
| `ViewProofs!NoDamageLost` | sizes, strides and damage requests; both formats |
| `X11SurfaceProofs!TypeCorrect`, `NoDamageLost` | sizes and damage requests |
| `EventLoopProofs!TypeCorrect`, `EventsReachLiving`, `NoEdgeMissed`, `SocketsAlwaysFreed` | clients, numbers of codes and expirations, and sizes of a batch |
| `KernelProofs!TypeCorrect`, `AlwaysCleanedUpOnce`, `NeverEnteredAgain`, `CascadesComplete`, `CollapsedAlwaysFree` | numbers of objects and connections, and choices of the objects with a slot of their own |
| `SurfaceProofs!TypeCorrect`, `PointersAlwaysGood`, `SharedListenersSafe`, `NothingLeaked`, `NoBufferEverForgotten`, `FramesAlwaysAnswered` | numbers of surfaces, buffers, callbacks and wrappers |
| `InputProofs!SeatTypeCorrect`, `InputRouted`, `FocusRouted` | clients, surfaces, devices, and numbers of shell surfaces |
| `InputProofs!TypeCorrect`, `NothingReleasedEarly`, `NothingLeftDown` | keys, mouse buttons, contents of the memory behind `button_map`, and numbers of losses and repetitions |
| `AndroidProofs!ThreadsHaveActivities`, `CommandsFresh` | activities, and numbers of starts, of chunks in the pipe and of commands |
| `AndroidProofs!RingUnmappedSafely`, `PlayedInOrder`, `UnreadNeverOverwritten` | sizes of the ring and of a period, numbers of clients, bytes and stops, and every interleaving; what they state ends with an overlap |

*Handler.* The inductive invariant is `HandlerTypeOK`, `BegunPosts` (a thread inside
`post` has counted its call, which gives the type of what it pushes),
`NoLostWakeup` and `NoBlockingRead`. `NoLostWakeup` needs no strengthening because
it asks for the ready list *and* a positive counter, or a poster before its
write. The key cases: when `epoll_wait` takes the eventfd off the list, either
the counter is positive and the loop goes on to read and to look at the queue, or
it is 0 and somebody is before its write; when the loop goes back to
`epoll_wait`, the queue was empty under the mutex. For the refinement, each step
maps to `Post` (the push), `Start` (the pop) or a stutter.

*View.* `DamageCovers` is inductive with the type invariant, because it speaks of
the window only while it has the surface's size. The proof goes through the early
returns of `update` and rests on three facts: `expand` loses no pixel of either
rectangle, `limit` keeps exactly those of the surface, and either uploader draws all
of a rectangle but for the rows of `Shifted` (`UploadedCovers`, from
`ConvertedCovers`: the columns of pairs cover it, and in a row that begins at an even
distance each pair is taken from its own place). It assumes nothing of the client.

*X11 surface.* `DamageCovers` is inductive with the types and `NothingLost`: before
the first buffer is attached, all that is owed is in `damage_`. It speaks of states
with no expose event on its way or queued, since the event draws everything. `limit`
may be given damage outside of the surface: the rectangle with exchanged edges that it
makes has no pixels, and there were none to draw.

*Surface.* The inductive invariant says that counts are exact: the count of a
wrapper is 1 for libwayland's listener, 1 more as long as the wrapper is
integrated, and 1 more if a surface holds it (`Exact`, with its parts `Sound`, `Members` and
`Resourceful`); that what is owed is what surfaces hold (`OwedExact`); and that a
held callback has its resource while the client is connected (`Pending`). It is
stated over the wrappers, the buffers and callbacks of the surfaces and the
living resources as parameters, not over the variables, so that a request that
releases, collapses and replaces can be followed through the states in between:
each operation on one wrapper has a lemma, and an action's proof chains them.

`FramesAnswered` needs that the callbacks a surface was asked for are those it has
answered followed by the one it holds (`FramesInv`, `InOrder`).

*Seat.* Besides the types, `InputReachesOwnDevices` and `FocusIsConnected`, the
invariant counts the connections to the signals of `sparkle`: a device that
exists has one to `surface_created` (`DevicesListen`), a surface has as many to
each device signal as it has shell surfaces (`SurfacesListen`), and what is gone
or not made yet has none (`GoneIsGone`).

*Input.* `HeldIsDown` and `NothingElseIsDown` are inductive together with the
types: that a button is never released more often than it was pressed, which is part
of the types, follows from `HeldIsDown`. Presses of a repeated back key are
counted apart (`Repeated`). Both count holders by the mark that
will release them, so that they survive a contact that Android took back while
`rmb_down_` was set. The number of holders is split into what
finger, stylus and the back key hold (`OfHands`) and the number of mouse buttons
that are mapped to the button (`OfMouse`), which a press or a release changes by
one; the proof uses of `button_map` only that it is a function.

*Application.* The invariant ties the step at which the main thread is to what it
has there: an activity that lives, and the mutex exactly inside of `load`
(`MainGood`); without the mutex the settings are complete and no older than what
any start was given (`SettingsGood`). With the types, `ThreadHasActivity` and
`CommandFresh` are inductive then.

*Audio.* The theorems are about `Spec`, in which loop and callback interleave at will;
what they state ends with the first overlap, and so does the invariant: it holds as long as
`"overlap"` is not in `upset`, and then a step either brings the two threads together, which
`Watched` records, or keeps them apart (`KeepsApart`), and only the latter have to be
looked at (`StepsApart`, `OverlapStays`). There are two
invariants. `ControlInv` is about control alone: which sequences of steps the loop
can have left, and what holds at each (`LoopOK`); that a callback at work is alone
in the player and the player is playing (`CallbackOK`); that what was found, or is
in the sound system's queue, lies in the ring that is mapped now, and that a stopped
player has an empty queue, except between `halt` and `clear` (`FoundOK`, `QueueOK`);
and which codes the socket can hold, so that a descriptor is read where one was sent
and a second ring is never mapped over a first (`SockOK`). It implies `BufferSafe`
and the types, and with it `BufferSafeAlone` is proved. `RingInv` adds the data, for as long as `upset` is empty: the one place that is enqueued is at the read position and is what `playing_`
counts (`PlayOK`); the unread and the copied bytes fit into the ring (`RoomOK`);
alsa-lib's pointers are the write position and one that is not ahead of the read
position, or a stop is on its way and the ring is empty or going to be reset
(`ClientOK`, `SockOrder`); the byte to be played next follows the one heard last, or
begins a stream (`OrderOK`); and each cell between the positions holds its byte
(`RingIntact`). `RingIntact` is what makes it work for a ring that goes around: a write
puts `n` bytes into cells, none of which is the cell of an unread position, since
positions less than `Size` apart have different cells (`CellsDiffer`, from lemmas on
quotient and remainder). `StreamInOrder` and `UnreadIntact` follow.

*Event loop.* That an event reaches a living object depends on how often a
descriptor can be where: `epoll`'s list has it at most once and only while it is
registered (`ListGood`), a batch has one event of it (`BatchGood`), what waits to be
accepted has no object yet (`BacklogGood`), and the holders of a socket are exactly
the loop and the connections while it is open, and the call in progress
(`SocketsGood`), also while that call sleeps in `receive_fds`. For `NothingStranded`, what has happened to a descriptor is
on the list or in the batch (`EdgesKept`), also while a part of the list is being
looked at and put back.

*Lifecycle.* The invariant is about the stack. Calls are nested in a certain way
(`Nesting`): `disintegrate()` of a linked object runs only inside of
`disintegrate()` of smaller ones, and that of a part is innermost and ends no
reference, because its own list of slots keeps them all (`PartsSettled`). From
this, `disintegrate()` is not entered again. The rest says what the slots that
were not called yet are going to do: an object's own slot has run or is to be
called (`CleanUpsOK`, `EmissionsClean`), an end that is collapsing is going to break
each connection it has (`ConnectionsBroken`), and what is linked to a collapsing
object, or is part of a deleted one, is collapsed, is collapsing or is going to be
collapsed (`LinksPending`, `PartsPending`). When the stack is empty, nothing is
left to do. The lemmas work on the set of frames, and on what a push, a pop and
a changed top frame do to it.

Only model-checked: liveness (`post` returns, every call starts, a cascade ends,
a window that lost pixels shows them again, and those of audio, event loop and
application), which TLAPS does not support here.

## 5. Not modelled

Most of the repository's lines are third-party: libwayland and libffi with its
tests (`foreign/`), which enter through the order in which they call listeners
(`Surface` has what `wayland-server.c` and `wayland-shm.c` do to resources and buffers),
and `scanner/`, a version of libwayland's scanner that generates the protocol glue,
which is tables of function pointers. Of the program's own code, debug, backtrace and exceptions have
no effect on its state; colours, key codes, the text of the log and the lines of
the configuration are data; notifications and the layout of Java views are calls
into Android whose result is not used.
`sparkle_x11/main.cpp` is one sequence of creations and collapses, of the kind
`Lifecycle` checks in every order; its signal handler ends the loop.
Reference counts of objects that two threads refer to are not modelled
(`were_capability_rc_simple.cpp:21` is listed as a hazard), nor is a code that is
received in parts: both sides write eight bytes at once.

## 6. Plan

Done: all the parts of the inventory but debug and the X11 program, and the proof
of every safety property that a passing run checks. What is left to prove are
consequences that the invariants already have: that a wrapper of `Surface` is
deleted exactly once, or that the clients of `Audio` are served in the order in
which they connect. Liveness stays with TLC.
