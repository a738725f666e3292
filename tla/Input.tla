-------------------------------- MODULE Input --------------------------------
(***************************************************************************)
(* The input half of SparkleView: what onMotionEvent, onKeyDown and onKeyUp *)
(* of one view make of the events of a touch screen, a stylus, a mouse and  *)
(* keys, and what the surface, and so the client, is told.                  *)
(*                                                                         *)
(* The volume key makes a contact of finger or stylus a right click; it may *)
(* be pressed and released in the middle of a contact.  Android delivers    *)
(* one contact at a time, and takes one back with ACTION_CANCEL; events of  *)
(* what is still held when the view is hidden are not delivered to it.      *)
(* Motion, hover and scroll events are passed on and change no state.       *)
(***************************************************************************)
EXTENDS Integers, FiniteSets

CONSTANTS
    MouseButtons,   \* codes of the mouse's buttons that getActionButton() gives
    OutOfTable,     \* what lies where button_map is read beyond its end
    Keys,           \* keys of the keyboard but back and volume down
    MaxLosses,      \* bound: how often Android takes back what is held
    MaxRepeats      \* bound: how often the mouse's back key repeats

Buttons == {"left", "right", "middle", "none", "other"}

ASSUME InputAssumption ==
    /\ MouseButtons \subseteq {1, 2, 4, 8, 16}
    /\ OutOfTable \in [{8, 16} -> Buttons]
    /\ {"volume_down", "back"} \cap Keys = {}
    /\ MaxLosses \in Nat /\ MaxRepeats \in Nat

VARIABLES
    native_,        \* the view has its sparkle_view
    visible,
    rmb_, rmb_down_,
    contact,        \* what touches the screen: "none", "touch" or "stylus"
    mouse,          \* buttons of the mouse that are held
    mouseBack,      \* the mouse's back key is held
    keys,           \* keys that are held
    touch,          \* the client has a touch point
    pressed,        \* presses less releases the client was told of each button
    codes,          \* keys that the client was told are down
    losses,         \* history: how often Android took back what was held
    repeats         \* history: how often the mouse's back key has repeated

vars == <<native_, visible, rmb_, rmb_down_, contact, mouse, mouseBack, keys, touch,
          pressed, codes, losses, repeats>>

hands == <<contact, mouse, mouseBack, keys>>
told == <<touch, pressed, codes>>

\* button_map, an array of seven, and what is behind it
ButtonMap(code) ==
    CASE code = 1 -> "left"
      [] code = 2 -> "right"
      [] code = 4 -> "middle"
      [] code > 6 -> OutOfTable[code]
      [] OTHER    -> "none"

ButtonDown(code) == pressed' = [pressed EXCEPT ![ButtonMap(code)] = @ + 1]

ButtonUp(code) == pressed' = [pressed EXCEPT ![ButtonMap(code)] = @ - 1]

\* The handlers return at once in a view that has lost its sparkle_view.
Receives == native_ /\ visible

-----------------------------------------------------------------------------
(* Finger and stylus *)

\* ACTION_DOWN; the stylus may have its own button pressed.
Down(source, primary) ==
    /\ Receives
    /\ contact = "none"
    /\ contact' = source
    /\ \/ /\ rmb_ \/ (source = "stylus" /\ primary)
          /\ ButtonDown(2)
          /\ rmb_down_' = TRUE
          /\ UNCHANGED touch
       \/ /\ ~rmb_ /\ source = "touch"
          /\ touch' = TRUE
          /\ UNCHANGED <<pressed, rmb_down_>>
       \/ /\ ~rmb_ /\ source = "stylus" /\ ~primary
          /\ ButtonDown(1)
          /\ UNCHANGED <<touch, rmb_down_>>
    /\ UNCHANGED <<native_, visible, rmb_, mouse, mouseBack, keys, codes, losses, repeats>>

\* ACTION_UP
Up ==
    /\ Receives
    /\ contact # "none"
    /\ contact' = "none"
    /\ \/ /\ rmb_down_
          /\ ButtonUp(2)
          /\ rmb_down_' = FALSE
          /\ UNCHANGED touch
       \/ /\ ~rmb_down_ /\ contact = "touch"
          /\ touch' = FALSE
          /\ UNCHANGED <<pressed, rmb_down_>>
       \/ /\ ~rmb_down_ /\ contact = "stylus"
          /\ ButtonUp(1)
          /\ UNCHANGED <<touch, rmb_down_>>
    /\ UNCHANGED <<native_, visible, rmb_, mouse, mouseBack, keys, codes, losses, repeats>>

\* Fault: the button is released, but rmb_down_ is kept.
CancelKeepsMark ==
    /\ Receives
    /\ contact # "none"
    /\ losses < MaxLosses
    /\ contact' = "none"
    /\ losses' = losses + 1
    /\ IF rmb_down_ THEN ButtonUp(2) ELSE UNCHANGED pressed
    /\ UNCHANGED <<native_, visible, rmb_, rmb_down_, mouse, mouseBack, keys, touch, codes, repeats>>

\* ACTION_CANCEL is none of the cases, and nothing is released.
Cancel ==
    /\ Receives
    /\ contact # "none"
    /\ losses < MaxLosses
    /\ contact' = "none"
    /\ losses' = losses + 1
    /\ UNCHANGED <<native_, visible, rmb_, rmb_down_, mouse, mouseBack, keys, told, repeats>>

-----------------------------------------------------------------------------
(* Mouse: ACTION_BUTTON_PRESS, ACTION_BUTTON_RELEASE, and KEYCODE_BACK *)

ButtonPress(code) ==
    /\ Receives
    /\ code \notin mouse
    /\ mouse' = mouse \cup {code}
    /\ ButtonDown(code)
    /\ UNCHANGED <<native_, visible, rmb_, rmb_down_, contact, mouseBack, keys, touch,
                   codes, losses, repeats>>

ButtonRelease(code) ==
    /\ Receives
    /\ code \in mouse
    /\ mouse' = mouse \ {code}
    /\ ButtonUp(code)
    /\ UNCHANGED <<native_, visible, rmb_, rmb_down_, contact, mouseBack, keys, touch,
                   codes, losses, repeats>>

\* onKeyDown does not ask whether the key repeats.
MouseBackDown ==
    /\ Receives
    /\ mouseBack => repeats < MaxRepeats
    /\ repeats' = IF mouseBack THEN repeats + 1 ELSE repeats
    /\ mouseBack' = TRUE
    /\ ButtonDown(2)
    /\ UNCHANGED <<native_, visible, rmb_, rmb_down_, contact, mouse, keys, touch,
                   codes, losses>>

MouseBackUp ==
    /\ Receives
    /\ mouseBack
    /\ mouseBack' = FALSE
    /\ ButtonUp(2)
    /\ UNCHANGED <<native_, visible, rmb_, rmb_down_, contact, mouse, keys, touch,
                   codes, losses, repeats>>

-----------------------------------------------------------------------------
(* Keys, and the view's visibility *)

\* onKeyDown, of a key that is pressed or repeats
KeyDown(k) ==
    /\ Receives
    /\ keys' = keys \cup {k}
    /\ codes' = codes \cup {k}
    /\ rmb_' = (rmb_ \/ k = "volume_down")
    /\ UNCHANGED <<native_, visible, rmb_down_, contact, mouse, mouseBack, touch,
                   pressed, losses, repeats>>

\* Fault: the volume key is passed on like any other.
KeyUpPassedOn(k) ==
    /\ Receives
    /\ k \in keys
    /\ keys' = keys \ {k}
    /\ codes' = codes \ {k}
    /\ UNCHANGED <<native_, visible, rmb_, rmb_down_, contact, mouse, mouseBack, touch,
                   pressed, losses, repeats>>

KeyUp(k) ==
    /\ Receives
    /\ k \in keys
    /\ keys' = keys \ {k}
    /\ codes' = codes \ {k}
    /\ rmb_' = (rmb_ /\ k # "volume_down")
    /\ UNCHANGED <<native_, visible, rmb_down_, contact, mouse, mouseBack, touch,
                   pressed, losses, repeats>>

Held == contact # "none" \/ mouse # {} \/ mouseBack \/ keys # {}

\* set_visible(false), by the back key (which the keymap maps to no code), by
\* ACTION_HIDE or by ACTION_CLOSE_SYSTEM_DIALOGS
SetInvisible ==
    /\ Receives
    /\ Held => losses < MaxLosses
    /\ visible' = FALSE
    /\ contact' = "none" /\ mouse' = {} /\ mouseBack' = FALSE /\ keys' = {}
    /\ losses' = IF Held THEN losses + 1 ELSE losses
    /\ UNCHANGED <<native_, rmb_, rmb_down_, told, repeats>>

\* ACTION_SHOW
SetVisible ==
    /\ native_ /\ ~visible
    /\ visible' = TRUE
    /\ UNCHANGED <<native_, rmb_, rmb_down_, hands, told, losses, repeats>>

\* The surface is gone: collapse() and set_native(0).
Collapse ==
    /\ native_
    /\ native_' = FALSE
    /\ UNCHANGED <<visible, rmb_, rmb_down_, hands, told, losses, repeats>>

-----------------------------------------------------------------------------
Init ==
    /\ native_ = TRUE /\ visible = TRUE
    /\ rmb_ = FALSE /\ rmb_down_ = FALSE
    /\ contact = "none" /\ mouse = {} /\ mouseBack = FALSE /\ keys = {}
    /\ touch = FALSE /\ pressed = [b \in Buttons |-> 0] /\ codes = {}
    /\ losses = 0 /\ repeats = 0

Next ==
    \/ \E source \in {"touch", "stylus"}, primary \in BOOLEAN : Down(source, primary)
    \/ Up
    \/ Cancel
    \/ \E code \in MouseButtons : ButtonPress(code) \/ ButtonRelease(code)
    \/ MouseBackDown
    \/ MouseBackUp
    \/ \E k \in Keys \cup {"volume_down"} : KeyDown(k) \/ KeyUp(k)
    \/ SetInvisible
    \/ SetVisible
    \/ Collapse

Spec == Init /\ [][Next]_vars

-----------------------------------------------------------------------------
TypeOK ==
    /\ native_ \in BOOLEAN /\ visible \in BOOLEAN
    /\ rmb_ \in BOOLEAN /\ rmb_down_ \in BOOLEAN
    /\ contact \in {"none", "touch", "stylus"}
    /\ mouse \subseteq MouseButtons /\ mouseBack \in BOOLEAN
    /\ keys \subseteq Keys \cup {"volume_down"}
    /\ touch \in BOOLEAN
    /\ pressed \in [Buttons -> Nat]
    /\ codes \subseteq Keys \cup {"volume_down"}
    /\ losses \in 0 .. MaxLosses /\ repeats \in 0 .. MaxRepeats

One(b) == IF b THEN 1 ELSE 0

\* How many fingers, styluses and mouse buttons hold a button
Holding(b) ==
    One(b = "right" /\ rmb_down_) + One(b = "right" /\ mouseBack)
    + One(b = "left" /\ contact = "stylus" /\ ~rmb_down_)
    + Cardinality({code \in mouse : ButtonMap(code) = b})

\* Whatever is held is down for the client, also after Android has taken
\* something back: no button is released for a holder that has gone while
\* another one still holds it, and what rmb_down_ will release was pressed.
HeldIsDown ==
    /\ "volume_down" \in keys => rmb_
    /\ contact = "touch" => touch \/ rmb_down_
    /\ \A b \in Buttons : pressed[b] >= Holding(b)
    /\ keys \subseteq codes

\* Presses of a button that no release will follow: those of the repeated key
Repeated(b) == IF b = "right" THEN repeats ELSE 0

\* As long as Android has taken nothing back, nothing else is down but what
\* onKeyDown pressed again for a back key that repeats: the client has a touch
\* point only for a finger that is no right click, each button is down as often
\* as something holds it and was repeated, and rmb_ and rmb_down_ are not left
\* over, whenever in a contact the volume key was pressed or released.
NothingElseIsDown ==
    losses = 0 =>
        /\ rmb_ => "volume_down" \in keys
        /\ rmb_down_ => contact # "none"
        /\ touch => contact = "touch" /\ ~rmb_down_
        /\ \A b \in Buttons : pressed[b] <= Holding(b) + Repeated(b)
        /\ codes \subseteq keys
=============================================================================
