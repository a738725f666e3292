----------------------------- MODULE X11Surface -----------------------------
(***************************************************************************)
(* were_x11_surface: the X11 window that shows a surface.  Unlike the view  *)
(* on Android it resizes its window at once, for which it gets new, empty   *)
(* shared memory, and draws.  The X server reports with an expose event     *)
(* what the window lost; the event may arrive at any later time.            *)
(*                                                                         *)
(* The connection to the X server is edge-triggered, and every drawing asks *)
(* the server whether it succeeded: it may read an event that has come      *)
(* meanwhile into xcb's queue, for which the loop is not woken.             *)
(***************************************************************************)
EXTENDS Rect

CONSTANTS
    Sizes,          \* sizes of buffers, pairs of width and height
    InitialSize,    \* the size of the window when it is made, 1280 x 720
    None,           \* no buffer
    Damages         \* damage requests the client may send

ASSUME X11SurfaceAssumption ==
    /\ Sizes \subseteq Nat \X Nat
    /\ InitialSize \in Nat \X Nat
    /\ None \notin Nat \X Nat
    /\ Damages \subseteq Requests

VARIABLES
    content,        \* size of the surface's buffer, or None
    size,           \* window_->width and height
    damage_,
    wire,           \* an expose event is on its way, and will wake the loop
    queued,         \* an expose event is in xcb's queue
    uploaded,       \* history: the rectangle given to the uploader last
    owed            \* history: pixels that the client has damaged, or the window
                    \* has lost, and that were not drawn since

vars == <<content, size, damage_, wire, queued, uploaded, owed>>

WholeOf(sz) == Whole(sz[1], sz[2])

PixelsOf(sz) == Pixels(WholeOf(sz))

-----------------------------------------------------------------------------
(* The client *)

\* wl_surface.attach: from now on the new buffer is read.  Where it differs
\* from the old one the client says with damage.
Attach(sz) ==
    /\ content' = sz
    /\ UNCHANGED <<size, damage_, wire, queued, uploaded, owed>>

\* wl_surface.damage and damage_buffer.  What a request means that has edges
\* beyond the ints is not kept.
Damage(d) ==
    /\ damage_' = Expand(damage_, Damaged(d))
    /\ owed' = IF Fits(d) THEN owed \cup Pixels(Meant(d)) ELSE owed
    /\ UNCHANGED <<content, size, wire, queued, uploaded>>

-----------------------------------------------------------------------------
(* The window *)

\* Pixels lost by were1_xcb_window_set_size.
LostInResize == IF size = content THEN {} ELSE PixelsOf(content)

\* damage_ as it is given to the uploader.
Limited(full) ==
    Limit(IF full THEN Expand(damage_, WholeOf(content)) ELSE damage_,
          content[1], content[2])

\* update(full) with something to draw.
Draw(full) ==
    /\ content # None
    /\ size' = content
    /\ uploaded' = Limited(full)
    /\ owed' = (owed \cup LostInResize) \ Pixels(uploaded')
    /\ damage_' = EmptyRect

\* update(full): data() is null and damage_ is kept.
NothingToDraw ==
    /\ content = None
    /\ UNCHANGED <<size, damage_, uploaded, owed>>

\* xcb_request_check, after a request that may have exposed the window: events
\* that have come are read into the queue; data_in may be due all the same.
Checked(exposes) ==
    /\ wire' \in {FALSE, wire \/ exposes}
    /\ queued' \in {queued, queued \/ wire \/ exposes}
    /\ wire \/ queued \/ exposes => wire' \/ queued'

\* wl_surface.commit
Commit ==
    /\ \/ NothingToDraw /\ UNCHANGED <<wire, queued>>
       \/ Draw(FALSE) /\ Checked(size # content)
    /\ UNCHANGED content

\* Fault: the event is dropped while the window has another size.
GetEventsDropped ==
    /\ wire \/ queued
    /\ wire' = FALSE
    /\ IF size = content THEN Draw(TRUE)
       ELSE UNCHANGED <<size, damage_, uploaded, owed>>
    /\ queued' = FALSE
    /\ UNCHANGED content

\* were1_xcb_display_get_events, and process() of XCB_EXPOSE for this window,
\* on data_in: for the event itself, or for an event of another kind with one
\* in the queue.  What drawing reads is polled in the same loop, unless it
\* comes later.
GetEvents ==
    /\ wire \/ queued
    /\ \/ NothingToDraw /\ wire' = FALSE
       \/ Draw(TRUE) /\ wire' = (size # content)
    /\ queued' = FALSE
    /\ UNCHANGED content

\* The window is uncovered: its pixels are lost until it is drawn again.
Uncover ==
    /\ wire' = TRUE
    /\ owed' = IF content = None THEN owed ELSE owed \cup PixelsOf(size)
    /\ UNCHANGED <<content, size, damage_, queued, uploaded>>

-----------------------------------------------------------------------------
\* The window is mapped when it is created, and is exposed by that.
Init ==
    /\ content = None
    /\ size = InitialSize
    /\ damage_ = EmptyRect
    /\ wire = TRUE
    /\ queued = FALSE
    /\ uploaded = EmptyRect
    /\ owed = {}

Next ==
    \/ \E sz \in Sizes : Attach(sz)
    \/ \E d \in Damages : Damage(d)
    \/ Commit
    \/ GetEvents
    \/ Uncover

Spec == Init /\ [][Next]_vars

\* The loop is woken for an event that is on its way; nothing brings on an
\* event of another kind for the sake of one in the queue, and nothing makes
\* the client do anything.
FairSpec == Spec /\ WF_vars(wire /\ GetEvents)

-----------------------------------------------------------------------------
(* Properties *)

TypeOK ==
    /\ content \in Sizes \cup {None}
    /\ size \in Sizes \cup {InitialSize}
    /\ damage_ \in Rects
    /\ wire \in BOOLEAN
    /\ queued \in BOOLEAN
    /\ uploaded \in Rects
    /\ owed \subseteq Int \X Int

\* No damage is lost: unless an expose event is on its way or in xcb's queue,
\* each pixel of the window that the client has damaged, or the window has
\* lost, since it was drawn is in damage_, hence drawn by the next commit.
DamageCovers ==
    ~(wire \/ queued) => owed \cap PixelsOf(size) \subseteq Pixels(damage_)

\* A window that lost pixels shows the surface again, whether the client does
\* anything or not, unless a commit has read the event before the loop saw it.
ShowsAgain ==
    wire ~> content = None \/ owed \cap PixelsOf(content) = {} \/ queued

-----------------------------------------------------------------------------
(* Refuted by a run of its own *)

\* "The compositor ignores the parts of the damage that fall outside of the
\* surface": what the uploader is given, which takes the edges for unsigned
\* and subtracts them, is a rectangle inside of the window.
UploadInside ==
    /\ 0 <= uploaded.x1 /\ uploaded.x1 <= uploaded.x2 /\ uploaded.x2 <= size[1]
    /\ 0 <= uploaded.y1 /\ uploaded.y1 <= uploaded.y2 /\ uploaded.y2 <= size[2]
=============================================================================
