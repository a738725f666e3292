-------------------------------- MODULE View --------------------------------
(***************************************************************************)
(* sparkle_view: the Android window that shows a surface.  Three parties    *)
(* change it: the client attaches, damages and commits; the view asks the   *)
(* window manager for a new size and goes on before it has it; Android      *)
(* gives it a window, changes it or takes it away at any time.              *)
(*                                                                         *)
(* ANativeWindow is modelled by what the view uses of it: a window has the  *)
(* buffers geometry set last, can be locked once, and lock may enlarge the  *)
(* rectangle to be drawn to the whole buffer.                               *)
(*                                                                         *)
(* Clients may attach, damage and commit in any order, with any damage.     *)
(* That the attached buffer exists is the subject of module Surface.        *)
(***************************************************************************)
EXTENDS Upload

CONSTANTS
    Sizes,          \* sizes of buffers, pairs of width and height
    Stride,         \* for each size, the distance of rows in pixels
    InitialSize,    \* the size of the view when it is made, 100 x 100
    None,           \* no buffer, no window
    Damages         \* damage requests the client may send

ASSUME ViewAssumption ==
    /\ Sizes \subseteq Nat \X Nat
    /\ Stride \in [Sizes -> Nat]
    /\ InitialSize \in Nat \X Nat
    /\ None \notin Nat \X Nat
    /\ Damages \subseteq Requests

VARIABLES
    content,        \* size of the surface's buffer, or None
    size,           \* width_ and height_
    geometry,       \* buffers geometry of window_, or None without a window
    locked,         \* window_ is locked
    damage_,
    no_damage_,
    format_,        \* "BGRA", of the setting fast, or "RGBX"
    failed,         \* an exception of the view left the event loop
    owed            \* history: pixels that the client has damaged, or the window
                    \* has lost, and that were not drawn since

vars == <<content, size, geometry, locked, damage_, no_damage_, format_,
          failed, owed>>

WholeOf(sz) == Whole(sz[1], sz[2])

PixelsOf(sz) == Pixels(WholeOf(sz))

-----------------------------------------------------------------------------
(* The client *)

\* wl_surface.attach: from now on the new buffer is read.  Where it differs
\* from the old one the client says with damage; one of another size is shown
\* for the first time.
Attach(sz) ==
    /\ ~failed
    /\ content' = sz
    /\ owed' = IF sz = content THEN owed ELSE {}
    /\ UNCHANGED <<size, geometry, locked, damage_, no_damage_, format_, failed>>

\* wl_surface.damage and damage_buffer.  What a request means that has edges
\* beyond the ints is not kept.
Damage(d) ==
    /\ ~failed
    /\ damage_' = Expand(damage_, Damaged(d))
    /\ owed' = IF Fits(d) THEN owed \cup Pixels(Meant(d)) ELSE owed
    /\ UNCHANGED <<content, size, geometry, locked, no_damage_, format_, failed>>

-----------------------------------------------------------------------------
(* update(full), for window_ w with the geometry g *)

\* Fault: only the window is looked at.
NothingToDrawOn(g) == g = None

\* There is nothing to draw or nothing to draw on, and damage_ is kept.
NothingToUpdate(g) == content = None \/ g = None

\* The surface has another size: ask the window manager for it, and return.
SizeChanges == content # size

\* damage_ as it is when the window is locked.
Limited(full) ==
    Limit(IF full \/ no_damage_ THEN Expand(damage_, WholeOf(size)) ELSE damage_,
          size[1], size[2])

\* What the uploader for the window's format draws
Uploaded(rect) ==
    IF format_ = "BGRA" THEN Copied(rect) ELSE Converted(rect, Stride[content])

\* lock is whether the window is locked already, dirty what is to be drawn.
Update(full, g, lock, dirty) ==
    \/ /\ NothingToUpdate(g)
       /\ damage_' = damage_ /\ owed' = dirty /\ locked' = lock
       /\ UNCHANGED <<size, failed>>
    \/ /\ ~NothingToUpdate(g) /\ SizeChanges
       /\ size' = content
       /\ damage_' = damage_ /\ owed' = dirty /\ locked' = lock
       /\ UNCHANGED failed
    \* ANativeWindow_lock fails, and update throws.
    \/ /\ ~NothingToUpdate(g) /\ ~SizeChanges /\ lock
       /\ failed' = TRUE
       /\ damage_' = Limited(full) /\ owed' = dirty /\ locked' = lock
       /\ UNCHANGED size
    \* The buffer has the wrong size: return, and leave it locked.
    \/ /\ ~NothingToUpdate(g) /\ ~SizeChanges /\ ~lock
       /\ g # size
       /\ damage_' = Limited(full) /\ owed' = dirty /\ locked' = TRUE
       /\ UNCHANGED <<size, failed>>
    \* Draw, unlock and post.
    \/ /\ ~NothingToUpdate(g) /\ ~SizeChanges /\ ~lock
       /\ g = size
       /\ \E rect \in {Limited(full), WholeOf(size)} : owed' = dirty \ Uploaded(rect)
       /\ damage_' = EmptyRect /\ locked' = FALSE
       /\ UNCHANGED <<size, failed>>

\* wl_surface.commit
Commit ==
    /\ ~failed
    /\ Update(FALSE, geometry, locked, owed)
    /\ UNCHANGED <<content, geometry, no_damage_, format_>>

-----------------------------------------------------------------------------
(* Android *)

\* A new window, or one with new buffers, shows nothing of the surface.
LostWithWindow == IF content = None THEN owed ELSE owed \cup PixelsOf(size)

\* Fault: the window is not drawn until the next commit.
SetWindowWaits(lock) ==
    /\ ~failed
    /\ geometry' = size
    /\ locked' = lock
    /\ owed' = LostWithWindow
    /\ UNCHANGED <<content, size, damage_, no_damage_, format_, failed>>

\* set_window of a window: the buffers get the size of the view, are empty,
\* and the whole is drawn.
SetWindow(lock) ==
    /\ ~failed
    /\ geometry' = size
    /\ Update(TRUE, size, lock, LostWithWindow)
    /\ UNCHANGED <<content, no_damage_, format_>>

\* surfaceCreated: a new window.
SurfaceCreated == geometry = None /\ SetWindow(FALSE)

\* surfaceChanged: the same window, after surfaceCreated or a new layout.
SurfaceChanged == geometry # None /\ SetWindow(locked)

\* surfaceDestroyed
SurfaceDestroyed ==
    /\ ~failed
    /\ geometry # None
    /\ geometry' = None
    /\ locked' = FALSE
    /\ UNCHANGED <<content, size, damage_, no_damage_, format_, failed, owed>>

-----------------------------------------------------------------------------
Init ==
    /\ content = None
    /\ size = InitialSize
    /\ geometry = None
    /\ locked = FALSE
    /\ damage_ = EmptyRect
    /\ no_damage_ \in BOOLEAN
    /\ format_ \in {"BGRA", "RGBX"}
    /\ failed = FALSE
    /\ owed = {}

Next ==
    \/ \E sz \in Sizes : Attach(sz)
    \/ \E d \in Damages : Damage(d)
    \/ Commit
    \/ SurfaceCreated
    \/ SurfaceChanged
    \/ SurfaceDestroyed

Spec == Init /\ [][Next]_vars

-----------------------------------------------------------------------------
(* Properties *)

TypeOK ==
    /\ content \in Sizes \cup {None}
    /\ size \in Nat \X Nat
    /\ geometry \in (Nat \X Nat) \cup {None}
    /\ locked \in BOOLEAN
    /\ damage_ \in Rects
    /\ no_damage_ \in BOOLEAN
    /\ format_ \in {"BGRA", "RGBX"}
    /\ failed \in BOOLEAN
    /\ owed \subseteq Int \X Int
    /\ locked => geometry # None

\* Rows that uploader_2 takes from another place than their own: every other
\* one, if rows begin at odd distances.
Shifted ==
    IF format_ = "RGBX" /\ Stride[content] % 2 = 1
    THEN {p \in PixelsOf(content) : p[2] % 2 = 1} ELSE {}

\* No damage is lost on update's early returns, in a resize that is asked for
\* and not granted yet or in a change of windows: if the window fits the
\* surface, each pixel that the client has damaged, or a window has lost, since
\* it was drawn is in damage_, hence drawn by the next update, but for the rows
\* that uploader_2 cannot draw.
DamageCovers ==
    geometry # None /\ geometry = content /\ ~locked =>
        owed \cap PixelsOf(content) \subseteq Pixels(damage_) \cup Shifted

-----------------------------------------------------------------------------
(* Refuted by a run of its own *)

\* update() takes it for granted that the window can be locked, and throws
\* an exception nobody catches if not.
LockSucceeds == ~failed
=============================================================================
