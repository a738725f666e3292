------------------------------- MODULE Surface -------------------------------
(***************************************************************************)
(* The surfaces of one Wayland client: sparkle_surface, the sparkle_resource *)
(* objects that wrap the client's wl_buffers and wl_callbacks, and what the  *)
(* consumer of a surface (sparkle_view or were_x11_surface) reads of it.     *)
(*                                                                         *)
(* A wrapper is a reference-counted object that is told of the end of its    *)
(* wl_resource by a listener the resource keeps a raw pointer to.  It is     *)
(* referenced by the surface member that holds it, by the listener, and,     *)
(* from integration to collapse, by the connections it makes to itself.     *)
(* Everything here runs on the thread that dispatches the display, so a      *)
(* request is one step; what can go wrong is the order of the requests, and  *)
(* the order in which a leaving client's resources are destroyed.            *)
(***************************************************************************)
EXTENDS Naturals, Sequences

CONSTANTS
    Surfaces,       \* ids of wl_surfaces the client may create
    Buffers,        \* ids of wl_shm wl_buffers the client may create
    Callbacks,      \* ids of frame callbacks the client may ask for
    MaxWrappers     \* bound: how many buffer and callback wrappers are made

Resources == Surfaces \cup Buffers \cup Callbacks

ASSUME SurfaceAssumption ==
    /\ Surfaces \cap Buffers = {}
    /\ Surfaces \cap Callbacks = {}
    /\ Buffers \cap Callbacks = {}
    /\ MaxWrappers \in Nat

VARIABLES
    client,         \* "connected", "leaving" (wl_client_destroy) or "gone"
    fresh,          \* resource ids the client has not used yet
    alive,          \* the wl_resources that exist
    wrapper,        \* every sparkle_wl_buffer and sparkle_wl_callback made
    buffer_,        \* sparkle_surface::buffer_, an index of wrapper or 0
    callback_,      \* sparkle_surface::callback_, an index of wrapper or 0
    shown,          \* surfaces with a shell surface, hence a consumer
    server,         \* "up", or the request that ended the process
    owed,           \* history: buffers attached and not released since
    asked,          \* history: the frame requests of each surface, in order
    done            \* history: the wl_callback.done events it sent, in order

vars == <<client, fresh, alive, wrapper, buffer_, callback_, shown, server,
          owed, asked, done>>

-----------------------------------------------------------------------------
(* sparkle_resource *)

Wrapper == [res: Buffers \cup Callbacks,    \* the wl_resource wrapped
            valid: BOOLEAN,                 \* resource_ is not null
            listener: BOOLEAN,              \* listener_ is on its list
            integrated: BOOLEAN,            \* not collapsed yet
            refs: Nat]                      \* reference count; 0 is freed

\* Fresh from were_new, stored in a member of the surface.
NewWrapper(r) == [res |-> r, valid |-> TRUE, listener |-> TRUE,
                  integrated |-> TRUE, refs |-> 3]

\* Fault: the destroyed slot leaves the listener on the resource's list.
CollapseKeepsListener(w) ==
    IF ~w.integrated THEN w
    ELSE [w EXCEPT !.integrated = FALSE,
                   !.refs = IF w.valid THEN @ - 2 ELSE @ - 1]

\* Fault: the destroyed slot keeps the listener's reference.
CollapseKeepsReference(w) ==
    IF ~w.integrated THEN w
    ELSE [w EXCEPT !.integrated = FALSE,
                   !.listener = IF w.valid THEN FALSE ELSE @,
                   !.refs = @ - 1]

\* collapse(): the first time, the destroyed slot takes the listener of a
\* living resource away, and the connections to itself are broken.
Collapse(w) ==
    IF ~w.integrated THEN w
    ELSE [w EXCEPT !.integrated = FALSE,
                   !.listener = IF w.valid THEN FALSE ELSE @,
                   !.refs = IF w.valid THEN @ - 2 ELSE @ - 1]

\* destroy_(): the wl_resource tells its listener that it goes away.
ResourceGone(w) ==
    Collapse([w EXCEPT !.valid = FALSE, !.listener = FALSE, !.refs = @ - 1])

\* Fault: the pointer drops its reference twice.
UnsetTwice(w) == [w EXCEPT !.refs = @ - 2]

\* The optional that holds the wrapper is reset.
Unset(w) == [w EXCEPT !.refs = @ - 1]

\* wl_resource_destroy runs the listeners on the resource's list.
Destroyed(W, r) ==
    [i \in DOMAIN W |->
        IF W[i].res = r /\ W[i].listener THEN ResourceGone(W[i]) ELSE W[i]]

-----------------------------------------------------------------------------
(* Requests of the client *)

Requests == client = "connected" /\ server = "up"

NewId(r) == r \in fresh /\ fresh' = fresh \ {r}

\* wl_compositor.create_surface
CreateSurface(s) ==
    /\ Requests
    /\ NewId(s)
    /\ alive' = alive \cup {s}
    /\ UNCHANGED <<client, wrapper, buffer_, callback_, shown, server,
                   owed, asked, done>>

\* wl_shell.get_shell_surface: a consumer is created and connected.
GetShellSurface(s) ==
    /\ Requests
    /\ s \in alive
    /\ shown' = shown \cup {s}
    /\ UNCHANGED <<client, fresh, alive, wrapper, buffer_, callback_, server,
                   owed, asked, done>>

\* wl_shm_pool.create_buffer, handled by libwayland
CreateBuffer(b) ==
    /\ Requests
    /\ NewId(b)
    /\ alive' = alive \cup {b}
    /\ UNCHANGED <<client, wrapper, buffer_, callback_, shown, server,
                   owed, asked, done>>

\* wl_buffer.destroy, handled by libwayland
DestroyBuffer(b) ==
    /\ Requests
    /\ b \in alive
    /\ alive' = alive \ {b}
    /\ wrapper' = Destroyed(wrapper, b)
    /\ UNCHANGED <<client, fresh, buffer_, callback_, shown, server,
                   owed, asked, done>>

\* Fault: the wrapper is dropped without collapse.
DetachedNoCollapse(W, i) ==
    IF i = 0 THEN W ELSE [W EXCEPT ![i] = Unset(@)]

\* The wrapper the surface holds, as attach leaves it: collapsed, unset.
Detached(W, i) ==
    IF i = 0 THEN W ELSE [W EXCEPT ![i] = Unset(Collapse(@))]

\* Fault: no release is sent to the buffer that is replaced.
ReleasedNone(i) == {}

\* The buffers told by send_release, which a wrapper without resource skips.
Released(i) == IF i # 0 /\ wrapper[i].valid THEN {wrapper[i].res} ELSE {}

\* wl_surface.attach of a buffer.  The client learns of the release after it
\* asked for the attach, so a release answers the latest attach.
Attach(s, b) ==
    /\ Requests
    /\ s \in alive /\ b \in alive
    /\ Len(wrapper) < MaxWrappers
    /\ wrapper' = Append(Detached(wrapper, buffer_[s]), NewWrapper(b))
    /\ buffer_' = [buffer_ EXCEPT ![s] = Len(wrapper) + 1]
    /\ owed' = [owed EXCEPT ![s] = (@ \cup {b}) \ Released(buffer_[s])]
    /\ UNCHANGED <<client, fresh, alive, callback_, shown, server, asked, done>>

\* wl_surface.attach of no buffer: the wrapper is made all the same, and
\* adds its listener to a resource that is not there.
AttachNull(s) ==
    /\ Requests
    /\ s \in alive
    /\ server' = "null attach"
    /\ UNCHANGED <<client, fresh, alive, wrapper, buffer_, callback_, shown,
                   owed, asked, done>>

\* The pending callback is sent done and its resource destroyed; then the
\* member is reset.
Fired(W, i) ==
    IF i = 0 THEN W
    ELSE LET D == Destroyed(W, W[i].res) IN [D EXCEPT ![i] = Unset(@)]

FiredRes(i) == IF i = 0 THEN {} ELSE {wrapper[i].res}

SendDone(s) ==
    IF callback_[s] = 0 THEN done
    ELSE [done EXCEPT ![s] = Append(@, wrapper[callback_[s]].res)]

\* Fault: a second frame request overwrites the pending callback.
FrameOverwrites(s, c) ==
    /\ Requests
    /\ s \in alive
    /\ NewId(c)
    /\ Len(wrapper) < MaxWrappers
    /\ wrapper' = Append(wrapper, NewWrapper(c))
    /\ callback_' = [callback_ EXCEPT ![s] = Len(wrapper) + 1]
    /\ alive' = alive \cup {c}
    /\ asked' = [asked EXCEPT ![s] = Append(@, c)]
    /\ UNCHANGED <<client, buffer_, shown, server, owed, done>>

\* wl_surface.frame
Frame(s, c) ==
    /\ Requests
    /\ s \in alive
    /\ NewId(c)
    /\ Len(wrapper) < MaxWrappers
    /\ wrapper' = Append(Fired(wrapper, callback_[s]), NewWrapper(c))
    /\ callback_' = [callback_ EXCEPT ![s] = Len(wrapper) + 1]
    /\ alive' = (alive \ FiredRes(callback_[s])) \cup {c}
    /\ asked' = [asked EXCEPT ![s] = Append(@, c)]
    /\ done' = SendDone(s)
    /\ UNCHANGED <<client, buffer_, shown, server, owed>>

\* The consumer asks data() for the pixels: that throws if the surface holds
\* the wrapper of a buffer that was destroyed.
DataThrows(s) == s \in shown /\ buffer_[s] # 0 /\ ~wrapper[buffer_[s]].valid

\* wl_surface.commit: the consumer updates itself, then the callback fires.
Commit(s) ==
    /\ Requests
    /\ s \in alive
    /\ ~DataThrows(s)
    /\ wrapper' = Fired(wrapper, callback_[s])
    /\ callback_' = [callback_ EXCEPT ![s] = 0]
    /\ alive' = alive \ FiredRes(callback_[s])
    /\ done' = SendDone(s)
    /\ UNCHANGED <<client, fresh, buffer_, shown, server, owed, asked>>

\* The same, and also a redraw (an expose event, a new window), when the
\* attached buffer was destroyed: the exception leaves the event loop.
ReadDestroyedBuffer(s) ==
    /\ Requests
    /\ s \in alive
    /\ DataThrows(s)
    /\ server' = "buffer destroyed"
    /\ UNCHANGED <<client, fresh, alive, wrapper, buffer_, callback_, shown,
                   owed, asked, done>>

-----------------------------------------------------------------------------
(* The end of a surface and of the client *)

\* The surface's resource is destroyed: the surface collapses, its consumer
\* with it, and ~sparkle_surface collapses the buffer and drops the callback.
SurfaceGone(s) ==
    LET D == Detached(wrapper, buffer_[s])
        i == callback_[s]
    IN  /\ wrapper' = IF i = 0 THEN D ELSE [D EXCEPT ![i] = Unset(@)]
        /\ buffer_' = [buffer_ EXCEPT ![s] = 0]
        /\ callback_' = [callback_ EXCEPT ![s] = 0]
        /\ shown' = shown \ {s}
        /\ owed' = [owed EXCEPT ![s] = {}]

\* wl_surface.destroy
DestroySurface(s) ==
    /\ Requests
    /\ s \in alive
    /\ alive' = alive \ {s}
    /\ SurfaceGone(s)
    /\ UNCHANGED <<client, fresh, server, asked, done>>

Disconnect ==
    /\ Requests
    /\ client' = "leaving"
    /\ UNCHANGED <<fresh, alive, wrapper, buffer_, callback_, shown, server,
                   owed, asked, done>>

\* wl_client_destroy destroys the resources that are left one by one.
LeaveSurface(s) ==
    /\ client = "leaving" /\ server = "up"
    /\ s \in alive
    /\ alive' = alive \ {s}
    /\ SurfaceGone(s)
    /\ UNCHANGED <<client, fresh, server, asked, done>>

LeaveResource(r) ==
    /\ client = "leaving" /\ server = "up"
    /\ r \in alive
    /\ alive' = alive \ {r}
    /\ wrapper' = Destroyed(wrapper, r)
    /\ UNCHANGED <<client, fresh, buffer_, callback_, shown, server,
                   owed, asked, done>>

Left ==
    /\ client = "leaving" /\ server = "up"
    /\ alive = {}
    /\ client' = "gone"
    /\ UNCHANGED <<fresh, alive, wrapper, buffer_, callback_, shown, server,
                   owed, asked, done>>

-----------------------------------------------------------------------------
Init ==
    /\ client = "connected"
    /\ fresh = Resources
    /\ alive = {}
    /\ wrapper = <<>>
    /\ buffer_ = [s \in Surfaces |-> 0]
    /\ callback_ = [s \in Surfaces |-> 0]
    /\ shown = {}
    /\ server = "up"
    /\ owed = [s \in Surfaces |-> {}]
    /\ asked = [s \in Surfaces |-> <<>>]
    /\ done = [s \in Surfaces |-> <<>>]

SurfaceNext(s) ==
    \/ CreateSurface(s)
    \/ GetShellSurface(s)
    \/ \E b \in Buffers : Attach(s, b)
    \/ AttachNull(s)
    \/ \E c \in Callbacks : Frame(s, c)
    \/ Commit(s)
    \/ ReadDestroyedBuffer(s)
    \/ DestroySurface(s)
    \/ LeaveSurface(s)

Next ==
    \/ \E s \in Surfaces : SurfaceNext(s)
    \/ \E b \in Buffers : CreateBuffer(b) \/ DestroyBuffer(b)
    \/ Disconnect
    \/ \E r \in Buffers \cup Callbacks : LeaveResource(r)
    \/ Left

Spec == Init /\ [][Next]_vars

-----------------------------------------------------------------------------
(* Properties *)

TypeOK ==
    /\ client \in {"connected", "leaving", "gone"}
    /\ fresh \subseteq Resources
    /\ alive \subseteq Resources
    /\ wrapper \in Seq(Wrapper)
    /\ buffer_ \in [Surfaces -> 0..Len(wrapper)]
    /\ callback_ \in [Surfaces -> 0..Len(wrapper)]
    /\ shown \subseteq Surfaces
    /\ server \in {"up", "null attach", "buffer destroyed"}
    /\ owed \in [Surfaces -> SUBSET Buffers]
    /\ asked \in [Surfaces -> Seq(Callbacks)]
    /\ done \in [Surfaces -> Seq(Callbacks)]

\* The raw pointers between libwayland and sparkle_resource are good: a
\* listener on a resource's list belongs to an object that is not freed, and
\* an object that believes in its resource has one that exists.  A pending
\* callback has its resource, so commit and frame do not throw on it.
PointersGood ==
    /\ \A i \in DOMAIN wrapper :
        /\ wrapper[i].listener => wrapper[i].refs > 0
        /\ wrapper[i].refs > 0 /\ wrapper[i].valid => wrapper[i].res \in alive
    /\ client = "connected" =>
        \A s \in Surfaces : callback_[s] # 0 => wrapper[callback_[s]].valid

\* wl_priv_signal_emit links the next listener behind the one it has just
\* notified.  Two wrappers of one wl_resource (a buffer attached to two
\* surfaces) must therefore both survive their notification: each is still
\* referenced by the surface that holds it.
SharedListenersOutlive ==
    \A i, j \in DOMAIN wrapper :
        i # j /\ wrapper[i].listener /\ wrapper[j].listener
              /\ wrapper[i].res = wrapper[j].res
        => wrapper[i].refs > 2

\* Nothing is leaked: whatever the client did and in whatever order its
\* resources were destroyed, once it is gone every wrapper made for it is
\* freed.
NoLeak == client = "gone" => \A i \in DOMAIN wrapper : wrapper[i].refs = 0

\* Frame callbacks of a living surface are answered in the order of the
\* requests, each once, and at most the latest is unanswered.
FramesAnswered ==
    client = "connected" =>
    \A s \in alive \cap Surfaces :
        /\ Len(done[s]) = Len(asked[s]) - (IF callback_[s] = 0 THEN 0 ELSE 1)
        /\ \A i \in DOMAIN done[s] : done[s][i] = asked[s][i]

\* A client that waits for wl_buffer.release before it draws again is never
\* stuck: a living buffer that is attached and not released is the one the
\* surface holds.
NoBufferForgotten ==
    \A s \in alive \cap Surfaces :
        owed[s] \cap alive \subseteq (IF buffer_[s] = 0 THEN {} ELSE {wrapper[buffer_[s]].res})
=============================================================================
