---------------------------- MODULE InputProofs ----------------------------
(***************************************************************************)
(* The way of input, from Android's events to the clients' devices.         *)
(*                                                                         *)
(* Input, for any buttons of the mouse, any keys, whatever lies behind      *)
(* button_map, and however often Android takes back what is held: what is   *)
(* held is down for the client, and nothing else is before the first loss.  *)
(*                                                                         *)
(* Seat, for any sets of clients, surfaces and devices: its type invariant, *)
(* that input reaches exactly the devices of the surface's own client, and  *)
(* that a device is on no surface it is not connected to.                   *)
(***************************************************************************)
EXTENDS Input, Seat, FiniteSetTheorems, TLAPS

\* How many buttons of the mouse hold a button
OfMouse(b) == Cardinality({code \in mouse : ButtonMap(code) = b})

\* What finger, stylus and the mouse's back key hold
OfHands(b) ==
    One(b = "right" /\ rmb_down_) + One(b = "right" /\ mouseBack)
    + One(b = "left" /\ contact = "stylus" /\ ~rmb_down_)

\* The inductive invariant.  After a loss, a contact may begin with rmb_down_
\* set: HeldIsDown counts the button by the mark that releases it.
IndInv == TypeOK /\ HeldIsDown /\ NothingElseIsDown

-----------------------------------------------------------------------------
\* Every code is mapped to a button.
LEMMA ButtonMapType ==
    \A code \in MouseButtons \cup {1, 2} : ButtonMap(code) \in Buttons
    BY InputAssumption DEF ButtonMap, Buttons

\* A mouse has finitely many buttons.
LEMMA MouseFinite ==
    ASSUME NEW S \in SUBSET MouseButtons
    PROVE  IsFiniteSet(S)
<1>1. IsFiniteSet(1 .. 16)
    <2> DEFINE Finite(a, b) == IsFiniteSet(a .. b)
    <2>1. \A a, b \in Int : Finite(a, b)
        BY FS_Interval
    <2> HIDE DEF Finite
    <2>2. Finite(1, 16)
        BY <2>1
    <2> QED BY <2>2 DEF Finite
<1>2. S \subseteq 1 .. 16
    BY InputAssumption
<1> QED BY <1>1, <1>2, FS_Subset

\* The count of what is held is a natural number, and falls apart.
LEMMA HoldingType ==
    ASSUME TypeOK, NEW b \in Buttons
    PROVE  /\ OfMouse(b) \in Nat
           /\ OfHands(b) \in Nat
           /\ Holding(b) = OfHands(b) + OfMouse(b)
<1>1. OfMouse(b) \in Nat
    <2>1. {code \in mouse : ButtonMap(code) = b} \in SUBSET MouseButtons
        BY DEF TypeOK
    <2> QED BY <2>1, MouseFinite, FS_CardinalityType DEF OfMouse
<1>2. OfHands(b) \in Nat
    BY DEF OfHands, One
<1> QED BY <1>1, <1>2 DEF Holding, OfHands, OfMouse, One

\* A button of the mouse that is pressed holds one button more.
LEMMA MouseAdds ==
    ASSUME NEW S \in SUBSET MouseButtons, NEW code \in MouseButtons, code \notin S,
           NEW b \in Buttons
    PROVE  Cardinality({c \in S \cup {code} : ButtonMap(c) = b})
             = Cardinality({c \in S : ButtonMap(c) = b}) + One(ButtonMap(code) = b)
<1> DEFINE T == {c \in S : ButtonMap(c) = b}
<1>1. IsFiniteSet(T) /\ code \notin T
    BY MouseFinite
<1>2. CASE ButtonMap(code) = b
    <2>1. {c \in S \cup {code} : ButtonMap(c) = b} = T \cup {code}
        BY <1>2
    <2>2. Cardinality(T \cup {code}) = Cardinality(T) + 1
        BY <1>1, FS_AddElement
    <2> QED BY <1>2, <2>1, <2>2 DEF One
<1>3. CASE ButtonMap(code) # b
    <2>1. {c \in S \cup {code} : ButtonMap(c) = b} = T
        BY <1>3
    <2>2. Cardinality(T) \in Nat
        BY <1>1, FS_CardinalityType
    <2> QED BY <1>3, <2>1, <2>2 DEF One
<1> QED BY <1>2, <1>3

\* The initial state satisfies the inductive invariant.
LEMMA IndInvInit == Init => IndInv
<1> SUFFICES ASSUME Init PROVE IndInv
    OBVIOUS
<1>1. TypeOK
    <2>1. 0 \in 0 .. MaxLosses /\ 0 \in 0 .. MaxRepeats
        BY InputAssumption
    <2>2. [b \in Buttons |-> 0] \in [Buttons -> Nat]
        OBVIOUS
    <2> QED BY <2>1, <2>2 DEF Init, TypeOK
<1>2. \A b \in Buttons : Holding(b) = 0
    <2> TAKE b \in Buttons
    <2>1. {code \in mouse : ButtonMap(code) = b} = {}
        BY DEF Init
    <2>2. OfMouse(b) = 0
        BY <2>1, FS_EmptySet DEF OfMouse
    <2>3. OfHands(b) = 0
        BY DEF Init, OfHands, One
    <2> QED BY <1>1, <2>2, <2>3, HoldingType
<1>3. HeldIsDown
    BY <1>2 DEF Init, HeldIsDown
<1>4. NothingElseIsDown
    BY <1>2 DEF Init, NothingElseIsDown, Repeated
<1> QED BY <1>1, <1>3, <1>4 DEF IndInv

\* A step that leaves the buttons of the mouse alone changes what is held by
\* what finger, stylus and the back key hold.
LEMMA SameMouse ==
    ASSUME TypeOK, TypeOK', mouse' = mouse
    PROVE  \A b \in Buttons :
              /\ Holding(b) = OfHands(b) + OfMouse(b)
              /\ Holding(b)' = OfHands(b)' + OfMouse(b)
              /\ OfMouse(b) \in Nat /\ OfHands(b) \in Nat /\ OfHands(b)' \in Nat
<1> TAKE b \in Buttons
<1>1. OfMouse(b)' = OfMouse(b)
    BY DEF OfMouse
<1>2. Holding(b)' = OfHands(b)' + OfMouse(b)' /\ OfHands(b)' \in Nat
    <2>1. OfMouse(b)' \in Nat
        BY <1>1, HoldingType
    <2>2. OfHands(b)' \in Nat
        BY DEF OfHands, One
    <2> QED BY <2>1, <2>2 DEF Holding, OfHands, OfMouse, One
<1> QED BY <1>1, <1>2, HoldingType

-----------------------------------------------------------------------------
\* ACTION_DOWN presses what the contact holds from then on.
LEMMA DownStep ==
    ASSUME IndInv, NEW source \in {"touch", "stylus"}, NEW primary \in BOOLEAN,
           Down(source, primary)
    PROVE  IndInv'
<1> USE DEF IndInv
<1>1. ButtonMap(1) = "left" /\ ButtonMap(2) = "right"
    BY DEF ButtonMap
<1>2. TypeOK'
    <2>1. pressed' \in [Buttons -> Nat]
        <3>1. CASE pressed' = pressed
            BY <3>1 DEF TypeOK
        <3>2. CASE ButtonDown(1)
            BY <1>1, <3>2 DEF ButtonDown, TypeOK, Buttons
        <3>3. CASE ButtonDown(2)
            BY <1>1, <3>3 DEF ButtonDown, TypeOK, Buttons
        <3> QED BY <3>1, <3>2, <3>3 DEF Down
    <2> QED BY <2>1 DEF Down, TypeOK
<1>3. mouse' = mouse /\ mouseBack' = mouseBack /\ contact' = source
    BY DEF Down
<1>4. HeldIsDown'
    <2>1. \A b \in Buttons : pressed'[b] >= Holding(b)'
        <3> TAKE b \in Buttons
        <3>1. pressed[b] >= Holding(b) /\ pressed[b] \in Nat
            BY DEF HeldIsDown, TypeOK
        <3> QED BY <1>1, <1>2, <1>3, <3>1, SameMouse
                DEF Down, ButtonDown, OfHands, One, TypeOK, Buttons
    <2> QED BY <2>1 DEF Down, HeldIsDown, ButtonDown
<1>5. NothingElseIsDown'
    <2> SUFFICES ASSUME losses' = 0 PROVE NothingElseIsDown'
        BY DEF NothingElseIsDown
    <2>1. losses = 0 /\ ~rmb_down_ /\ ~touch
        BY DEF Down, NothingElseIsDown, TypeOK
    <2>2. \A b \in Buttons : pressed'[b] <= Holding(b)' + Repeated(b)'
        <3> TAKE b \in Buttons
        <3>1. pressed[b] <= Holding(b) + Repeated(b) /\ pressed[b] \in Nat
            BY <2>1 DEF NothingElseIsDown, TypeOK
        <3>2. Repeated(b)' = Repeated(b) /\ Repeated(b) \in Nat
            BY DEF Down, Repeated, TypeOK
        <3> QED BY <1>1, <1>2, <1>3, <2>1, <3>1, <3>2, SameMouse
                DEF Down, ButtonDown, OfHands, One, TypeOK, Buttons
    <2> QED BY <2>1, <2>2 DEF Down, NothingElseIsDown, TypeOK
<1> QED BY <1>2, <1>4, <1>5

\* ACTION_UP releases what rmb_down_ says, which was pressed.
LEMMA UpStep ==
    ASSUME IndInv, Up
    PROVE  IndInv'
<1> USE DEF IndInv
<1>1. ButtonMap(1) = "left" /\ ButtonMap(2) = "right"
    BY DEF ButtonMap
<1>2. mouse' = mouse /\ mouseBack' = mouseBack /\ contact' = "none"
    BY DEF Up
<1>3. \A b \in Buttons : pressed[b] \in Nat /\ pressed[b] >= OfHands(b)
    BY HoldingType DEF HeldIsDown, TypeOK
<1>4. pressed' \in [Buttons -> Nat]
    <2>1. CASE rmb_down_
        <3>1. pressed["right"] >= 1
            BY <1>3, <2>1 DEF OfHands, One, Buttons, TypeOK
        <3> QED BY <1>1, <1>3, <2>1, <3>1 DEF Up, ButtonUp, TypeOK, Buttons
    <2>2. CASE ~rmb_down_ /\ contact = "stylus"
        <3>1. pressed["left"] >= 1
            BY <1>3, <2>2 DEF OfHands, One, Buttons, TypeOK
        <3> QED BY <1>1, <1>3, <2>2, <3>1 DEF Up, ButtonUp, TypeOK, Buttons
    <2>3. CASE ~rmb_down_ /\ contact # "stylus"
        BY <2>3 DEF Up, TypeOK
    <2> QED BY <2>1, <2>2, <2>3
<1>5. TypeOK'
    BY <1>4 DEF Up, TypeOK
<1>6. HeldIsDown'
    <2>1. \A b \in Buttons : pressed'[b] >= Holding(b)'
        <3> TAKE b \in Buttons
        <3>1. pressed[b] >= Holding(b) /\ pressed[b] \in Nat
            BY DEF HeldIsDown, TypeOK
        <3> QED BY <1>1, <1>2, <1>5, <3>1, SameMouse
                DEF Up, ButtonUp, OfHands, One, TypeOK, Buttons
    <2> QED BY <2>1 DEF Up, HeldIsDown, ButtonUp
<1>7. NothingElseIsDown'
    <2> SUFFICES ASSUME losses' = 0 PROVE NothingElseIsDown'
        BY DEF NothingElseIsDown
    <2>1. losses = 0
        BY DEF Up
    <2>2. \A b \in Buttons : pressed'[b] <= Holding(b)' + Repeated(b)'
        <3> TAKE b \in Buttons
        <3>1. pressed[b] <= Holding(b) + Repeated(b) /\ pressed[b] \in Nat
            BY <2>1 DEF NothingElseIsDown, TypeOK
        <3>2. Repeated(b)' = Repeated(b) /\ Repeated(b) \in Nat
            BY DEF Up, Repeated, TypeOK
        <3> QED BY <1>1, <1>2, <1>5, <3>1, <3>2, SameMouse
                DEF Up, ButtonUp, OfHands, One, TypeOK, Buttons
    <2> QED BY <2>1, <2>2 DEF Up, NothingElseIsDown, TypeOK
<1> QED BY <1>5, <1>6, <1>7

\* ACTION_CANCEL and a view that is hidden only lose holders.
LEMMA CancelStep ==
    ASSUME IndInv, Cancel
    PROVE  IndInv'
<1> USE DEF IndInv
<1>1. TypeOK'
    <2>1. losses' \in 0 .. MaxLosses
        BY InputAssumption DEF Cancel, TypeOK
    <2> QED BY <2>1 DEF Cancel, TypeOK, told
<1>2. mouse' = mouse /\ mouseBack' = mouseBack /\ contact' = "none"
      /\ rmb_down_' = rmb_down_ /\ pressed' = pressed
    BY DEF Cancel, told
<1>3. \A b \in Buttons : pressed'[b] >= Holding(b)'
    <2> TAKE b \in Buttons
    <2>1. pressed[b] >= Holding(b) /\ pressed[b] \in Nat
        BY DEF HeldIsDown, TypeOK
    <2> QED BY <1>1, <1>2, <2>1, SameMouse DEF OfHands, One
<1>4. HeldIsDown'
    BY <1>2, <1>3 DEF Cancel, HeldIsDown, told
<1>5. NothingElseIsDown'
    BY DEF Cancel, NothingElseIsDown, TypeOK
<1> QED BY <1>1, <1>4, <1>5

\* A button of the mouse holds what button_map makes of it while it is pressed,
\* also beyond the table.
LEMMA ButtonPressStep ==
    ASSUME IndInv, NEW code \in MouseButtons, ButtonPress(code)
    PROVE  IndInv'
<1> USE DEF IndInv
<1>1. ButtonMap(code) \in Buttons
    BY ButtonMapType
<1>2. TypeOK'
    BY <1>1 DEF ButtonPress, ButtonDown, TypeOK
<1>3. \A b \in Buttons :
        /\ pressed'[b] = pressed[b] + One(ButtonMap(code) = b)
        /\ Holding(b)' = Holding(b) + One(ButtonMap(code) = b)
        /\ pressed[b] \in Nat /\ Holding(b) \in Nat /\ One(ButtonMap(code) = b) \in Nat
    <2> TAKE b \in Buttons
    <2>1. OfMouse(b)' = OfMouse(b) + One(ButtonMap(code) = b)
        BY MouseAdds DEF ButtonPress, OfMouse, TypeOK
    <2>2. One(ButtonMap(code) = b) \in Nat /\ pressed[b] \in Nat
        BY DEF One, TypeOK
    <2>3. OfHands(b)' = OfHands(b)
        BY DEF ButtonPress, OfHands
    <2>4. Holding(b)' = OfHands(b)' + OfMouse(b)'
        BY DEF Holding, OfHands, OfMouse
    <2>5. pressed'[b] = pressed[b] + One(ButtonMap(code) = b)
        BY <1>1, <2>2 DEF ButtonPress, ButtonDown, One, TypeOK
    <2> QED BY <2>1, <2>2, <2>3, <2>4, <2>5, HoldingType
<1>4. HeldIsDown'
    BY <1>3 DEF ButtonPress, HeldIsDown
<1>5. NothingElseIsDown'
    <2>1. \A b \in Buttons : Repeated(b)' = Repeated(b) /\ Repeated(b) \in Nat
        BY DEF ButtonPress, Repeated, TypeOK
    <2>2. losses = 0 => \A b \in Buttons : pressed'[b] <= Holding(b)' + Repeated(b)'
        BY <1>3, <2>1 DEF NothingElseIsDown
    <2> QED BY <2>2 DEF ButtonPress, NothingElseIsDown
<1> QED BY <1>2, <1>4, <1>5

LEMMA ButtonReleaseStep ==
    ASSUME IndInv, NEW code \in MouseButtons, ButtonRelease(code)
    PROVE  IndInv'
<1> USE DEF IndInv
<1>1. ButtonMap(code) \in Buttons
    BY ButtonMapType
<1>2. \A b \in Buttons :
        /\ pressed'[b] = pressed[b] - One(ButtonMap(code) = b)
        /\ Holding(b) = Holding(b)' + One(ButtonMap(code) = b)
        /\ pressed[b] \in Nat /\ Holding(b)' \in Nat /\ One(ButtonMap(code) = b) \in Nat
    <2> TAKE b \in Buttons
    <2> DEFINE S == mouse \ {code}
    <2>1. S \in SUBSET MouseButtons /\ code \notin S /\ mouse = S \cup {code} /\ mouse' = S
        BY DEF ButtonRelease, TypeOK
    <2> HIDE DEF S
    <2>2. OfMouse(b) = OfMouse(b)' + One(ButtonMap(code) = b)
        BY <2>1, MouseAdds DEF OfMouse
    <2>3. OfMouse(b)' \in Nat
        <3>1. {c \in S : ButtonMap(c) = b} \in SUBSET MouseButtons
            BY <2>1
        <3> QED BY <2>1, <3>1, MouseFinite, FS_CardinalityType DEF OfMouse
    <2>4. One(ButtonMap(code) = b) \in Nat /\ pressed[b] \in Nat
        BY DEF One, TypeOK
    <2>5. OfHands(b)' = OfHands(b)
        BY DEF ButtonRelease, OfHands
    <2>6. Holding(b)' = OfHands(b)' + OfMouse(b)'
        BY DEF Holding, OfHands, OfMouse
    <2>7. pressed'[b] = pressed[b] - One(ButtonMap(code) = b)
        BY <1>1, <2>4 DEF ButtonRelease, ButtonUp, One, TypeOK
    <2> QED BY <2>2, <2>3, <2>4, <2>5, <2>6, <2>7, HoldingType
<1>3. TypeOK'
    <2>1. \A b \in Buttons : pressed'[b] \in Nat
        BY <1>2 DEF HeldIsDown
    <2>2. pressed' = [b \in Buttons |-> pressed'[b]]
        BY DEF ButtonRelease, ButtonUp, TypeOK
    <2>3. pressed' \in [Buttons -> Nat]
        BY <2>1, <2>2
    <2> QED BY <2>3 DEF ButtonRelease, TypeOK
<1>4. HeldIsDown'
    BY <1>2 DEF ButtonRelease, HeldIsDown
<1>5. NothingElseIsDown'
    <2>1. \A b \in Buttons : Repeated(b)' = Repeated(b) /\ Repeated(b) \in Nat
        BY DEF ButtonRelease, Repeated, TypeOK
    <2>2. losses = 0 => \A b \in Buttons : pressed'[b] <= Holding(b)' + Repeated(b)'
        BY <1>2, <2>1 DEF NothingElseIsDown
    <2> QED BY <2>2 DEF ButtonRelease, NothingElseIsDown
<1> QED BY <1>3, <1>4, <1>5

LEMMA MouseBackStep ==
    ASSUME IndInv, MouseBackDown \/ MouseBackUp
    PROVE  IndInv'
<1> USE DEF IndInv
<1>1. ButtonMap(2) = "right"
    BY DEF ButtonMap
<1>2. mouse' = mouse /\ contact' = contact /\ rmb_down_' = rmb_down_
    BY DEF MouseBackDown, MouseBackUp
<1>3. pressed' \in [Buttons -> Nat]
    <2>1. CASE MouseBackDown
        BY <1>1, <2>1 DEF MouseBackDown, ButtonDown, TypeOK, Buttons
    <2>2. CASE MouseBackUp
        <3>1. pressed["right"] >= 1
            BY <2>2, HoldingType DEF MouseBackUp, HeldIsDown, OfHands, One, TypeOK, Buttons
        <3> QED BY <1>1, <2>2, <3>1 DEF MouseBackUp, ButtonUp, TypeOK, Buttons
    <2> QED BY <2>1, <2>2
<1>4. TypeOK'
    <2>1. repeats' \in 0 .. MaxRepeats
        BY InputAssumption DEF MouseBackDown, MouseBackUp, TypeOK
    <2> QED BY <1>3, <2>1 DEF MouseBackDown, MouseBackUp, TypeOK
<1>5. \A b \in Buttons :
        /\ pressed[b] >= Holding(b) => pressed'[b] >= Holding(b)'
        /\ pressed[b] <= Holding(b) + Repeated(b) => pressed'[b] <= Holding(b)' + Repeated(b)'
    <2> TAKE b \in Buttons
    <2>1. pressed[b] \in Nat /\ repeats \in Nat /\ repeats' \in Nat
        BY <1>4 DEF TypeOK
    <2>2. CASE b # "right"
        <3>1. pressed'[b] = pressed[b] /\ Repeated(b)' = Repeated(b) /\ OfHands(b)' = OfHands(b)
            BY <1>1, <1>2, <2>2 DEF MouseBackDown, MouseBackUp, ButtonDown, ButtonUp, OfHands,
                                    Repeated, TypeOK, Buttons
        <3> QED BY <1>2, <1>4, <3>1, SameMouse
    <2>3. CASE b = "right"
        <3>1. CASE MouseBackUp
            <4>1. pressed'[b] = pressed[b] - 1 /\ OfHands(b) = OfHands(b)' + 1 /\ repeats' = repeats
                BY <1>1, <1>2, <2>1, <2>3, <3>1
                   DEF MouseBackUp, ButtonUp, OfHands, One, TypeOK, Buttons
            <4> QED BY <1>2, <1>4, <2>1, <2>3, <4>1, SameMouse DEF Repeated
        <3>2. CASE MouseBackDown /\ ~mouseBack
            <4>1. pressed'[b] = pressed[b] + 1 /\ OfHands(b)' = OfHands(b) + 1 /\ repeats' = repeats
                BY <1>1, <1>2, <2>1, <2>3, <3>2
                   DEF MouseBackDown, ButtonDown, OfHands, One, TypeOK, Buttons
            <4> QED BY <1>2, <1>4, <2>1, <2>3, <4>1, SameMouse DEF Repeated
        <3>3. CASE MouseBackDown /\ mouseBack
            <4>1. pressed'[b] = pressed[b] + 1 /\ OfHands(b)' = OfHands(b)
                  /\ repeats' = repeats + 1
                BY <1>1, <1>2, <2>1, <2>3, <3>3
                   DEF MouseBackDown, ButtonDown, OfHands, One, TypeOK, Buttons
            <4> QED BY <1>2, <1>4, <2>1, <2>3, <4>1, SameMouse DEF Repeated
        <3> QED BY <3>1, <3>2, <3>3
    <2> QED BY <2>2, <2>3
<1>6. HeldIsDown'
    BY <1>5 DEF MouseBackDown, MouseBackUp, HeldIsDown
<1>7. NothingElseIsDown'
    BY <1>5 DEF MouseBackDown, MouseBackUp, NothingElseIsDown
<1> QED BY <1>4, <1>6, <1>7

\* What holds no button changes nothing of what is held.
LEMMA SameHands ==
    ASSUME UNCHANGED <<mouse, mouseBack, contact, rmb_down_>>, NEW b \in Buttons
    PROVE  Holding(b)' = Holding(b)
    BY DEF Holding

\* Keys hold no button; the volume key sets and clears rmb_ with itself.
LEMMA KeyStep ==
    ASSUME IndInv, NEW k \in Keys \cup {"volume_down"}, KeyDown(k) \/ KeyUp(k)
    PROVE  IndInv'
<1> USE DEF IndInv
<1>1. TypeOK'
    BY DEF KeyDown, KeyUp, TypeOK
<1>2. /\ UNCHANGED <<mouse, mouseBack, contact, rmb_down_>>
      /\ pressed' = pressed /\ touch' = touch /\ losses' = losses /\ repeats' = repeats
    BY DEF KeyDown, KeyUp
<1>3. \A b \in Buttons : Holding(b)' = Holding(b)
    BY <1>2, SameHands
<1>4. HeldIsDown'
    BY <1>2, <1>3 DEF KeyDown, KeyUp, HeldIsDown
<1>5. NothingElseIsDown'
    BY <1>2, <1>3 DEF KeyDown, KeyUp, NothingElseIsDown, Repeated
<1> QED BY <1>1, <1>4, <1>5

\* A view that is hidden loses what is held; its marks stay.
LEMMA SetInvisibleStep ==
    ASSUME IndInv, SetInvisible
    PROVE  IndInv'
<1> USE DEF IndInv
<1>1. TypeOK'
    <2>1. losses' \in 0 .. MaxLosses
        BY InputAssumption DEF SetInvisible, TypeOK
    <2> QED BY <2>1 DEF SetInvisible, TypeOK, told
<1>2. pressed' = pressed /\ rmb_down_' = rmb_down_ /\ touch' = touch /\ codes' = codes
      /\ rmb_' = rmb_ /\ mouse' = {} /\ keys' = {} /\ contact' = "none" /\ mouseBack' = FALSE
      /\ repeats' = repeats
    BY DEF SetInvisible, told
<1>3. \A b \in Buttons : Holding(b)' <= Holding(b) /\ Holding(b)' \in Nat /\ Holding(b) \in Nat
    <2> TAKE b \in Buttons
    <2>1. OfMouse(b)' = 0
        <3>1. {code \in {} : ButtonMap(code) = b} = {}
            OBVIOUS
        <3> QED BY <1>2, <3>1, FS_EmptySet DEF OfMouse
    <2>2. OfHands(b)' <= OfHands(b) /\ OfHands(b)' \in Nat
        BY <1>2 DEF OfHands, One
    <2>3. Holding(b)' = OfHands(b)' + OfMouse(b)'
        BY DEF Holding, OfHands, OfMouse
    <2> QED BY <2>1, <2>2, <2>3, HoldingType
<1>4. HeldIsDown'
    BY <1>2, <1>3 DEF HeldIsDown, TypeOK
<1>5. NothingElseIsDown'
    <2> SUFFICES ASSUME losses' = 0 PROVE NothingElseIsDown'
        BY DEF NothingElseIsDown
    <2>1. losses = 0 /\ ~Held
        BY DEF SetInvisible, TypeOK
    <2>2. UNCHANGED <<mouse, mouseBack, contact, rmb_down_, keys>>
        BY <1>2, <2>1 DEF Held, TypeOK
    <2>3. \A b \in Buttons : Holding(b)' = Holding(b)
        BY <2>2, SameHands
    <2> QED BY <1>2, <2>1, <2>2, <2>3 DEF NothingElseIsDown, Repeated
<1> QED BY <1>1, <1>4, <1>5

\* Every step preserves the inductive invariant.
LEMMA IndInvStep ==
    ASSUME IndInv, [Next]_vars
    PROVE  IndInv'
<1>1. ASSUME UNCHANGED <<mouse, mouseBack, contact, rmb_down_, rmb_, keys, touch,
                         pressed, codes, losses, repeats>>,
             native_' \in BOOLEAN, visible' \in BOOLEAN
      PROVE  IndInv'
    <2>1. \A b \in Buttons : Holding(b)' = Holding(b)
        BY <1>1, SameHands
    <2> QED BY <1>1, <2>1 DEF IndInv, TypeOK, HeldIsDown, NothingElseIsDown, Repeated
<1>2. CASE SetVisible
    BY <1>1, <1>2 DEF SetVisible, hands, told, IndInv, TypeOK
<1>3. CASE Collapse
    BY <1>1, <1>3 DEF Collapse, hands, told, IndInv, TypeOK
<1>4. CASE UNCHANGED vars
    BY <1>1, <1>4 DEF vars, IndInv, TypeOK
<1> QED
    BY <1>2, <1>3, <1>4, DownStep, UpStep, CancelStep, ButtonPressStep,
       ButtonReleaseStep, MouseBackStep, KeyStep, SetInvisibleStep DEF Next

-----------------------------------------------------------------------------
\* The inductive invariant holds in every state.
LEMMA IndInvAlways == Spec => []IndInv
<1>1. IndInv /\ [Next]_vars => IndInv'
    BY IndInvStep
<1> QED BY IndInvInit, <1>1, PTL DEF Spec

\* The view's types: in particular, no button is released more often than it
\* was pressed.
THEOREM TypeCorrect == Spec => []TypeOK
<1>1. IndInv => TypeOK
    BY DEF IndInv
<1> QED BY IndInvAlways, <1>1, PTL

\* onMotionEvent, onKeyDown and onKeyUp release nothing that something still
\* holds, whatever Android takes back and whatever lies behind button_map.
THEOREM NothingReleasedEarly == Spec => []HeldIsDown
<1>1. IndInv => HeldIsDown
    BY DEF IndInv
<1> QED BY IndInvAlways, <1>1, PTL

\* Until Android takes something back, the client is told of nothing that is
\* not held, whenever the volume key was pressed or released, but for the presses
\* that onKeyDown repeats with the mouse's back key, of which each is left over.
THEOREM NothingLeftDown == Spec => []NothingElseIsDown
<1>1. IndInv => NothingElseIsDown
    BY DEF IndInv
<1> QED BY IndInvAlways, <1>1, PTL

-----------------------------------------------------------------------------
(* Seat *)

\* A device that exists listens for new surfaces once.
DevicesListen ==
    \A d \in Devices : surface_created[d] = IF d \in alive THEN 1 ELSE 0

\* A surface listens for each kind of device once per shell surface.
SurfacesListen ==
    \A k \in Kinds : \A s \in Surfaces : device_created[k][s] = shells[s]

\* What does not exist has no shell surface, and ids are not used twice.
GoneIsGone ==
    /\ \A s \in Surfaces : s \notin alive => shells[s] = 0
    /\ fresh \cap alive = {}

\* The inductive invariant of Seat.
SeatInv ==
    /\ SeatTypeOK
    /\ DevicesListen
    /\ SurfacesListen
    /\ GoneIsGone
    /\ InputReachesOwnDevices
    /\ FocusIsConnected

-----------------------------------------------------------------------------
\* The kind of a device is one of the three.
LEMMA KindType == \A d \in Devices : Kind(d) \in Kinds
    BY DEF Kind, Kinds

\* The initial states satisfy it.
LEMMA SeatInvInit == SeatInit => SeatInv
<1> SUFFICES ASSUME SeatInit PROVE SeatInv
    OBVIOUS
<1> USE DEF SeatInit
<1>1. SeatTypeOK
    BY DEF SeatTypeOK
<1>2. DevicesListen /\ SurfacesListen /\ GoneIsGone
    BY DEF DevicesListen, SurfacesListen, GoneIsGone
<1>3. InputReachesOwnDevices /\ FocusIsConnected
    BY DEF InputReachesOwnDevices, FocusIsConnected
<1> QED BY <1>1, <1>2, <1>3 DEF SeatInv

\* A new surface has no shell surface, hence no input and no focus.
LEMMA CreateSurfaceStep ==
    ASSUME SeatInv, NEW s \in Surfaces, CreateSurface(s) PROVE SeatInv'
<1> USE DEF SeatInv, CreateSurface
<1>1. s \notin alive /\ s \notin Devices
    BY SeatAssumption DEF GoneIsGone
<1>2. SeatTypeOK'
    BY DEF SeatTypeOK
<1>3. (DevicesListen /\ SurfacesListen /\ GoneIsGone)'
    BY <1>1 DEF DevicesListen, SurfacesListen, GoneIsGone, SeatTypeOK
<1>4. InputReachesOwnDevices'
    BY <1>1 DEF InputReachesOwnDevices, GoneIsGone, SeatTypeOK
<1>5. FocusIsConnected'
    BY DEF FocusIsConnected
<1> QED BY <1>2, <1>3, <1>4, <1>5

\* get_shell_surface: each alive device calls the surface back once, those of
\* its client register.
LEMMA GetShellSurfaceStep ==
    ASSUME SeatInv, NEW s \in Surfaces, GetShellSurface(s) PROVE SeatInv'
<1> USE DEF SeatInv, GetShellSurface
<1> DEFINE more(d) == Registrations(s, d, surface_created[d])
<1>1. \A d \in Devices : more(d) = IF d \in alive /\ SameClient(s, d) THEN 1 ELSE 0
    BY DEF Registrations, DevicesListen
<1>2. shells' \in [Surfaces -> Nat] /\ shells'[s] = shells[s] + 1
        /\ \A t \in Surfaces \ {s} : shells'[t] = shells[t]
    BY DEF SeatTypeOK
<1>3. \A t \in Surfaces, d \in Devices :
        registered'[t][d] = IF t = s THEN registered[s][d] + more(d) ELSE registered[t][d]
    BY DEF SeatTypeOK
<1>4. registered' \in [Surfaces -> [Devices -> Nat]]
    <2>1. [d \in Devices |-> registered[s][d] + more(d)] \in [Devices -> Nat]
        BY SMTT(30), <1>1 DEF SeatTypeOK
    <2> QED BY <2>1 DEF SeatTypeOK
<1>5. \A k \in Kinds, t \in Surfaces :
        device_created'[k][t] = IF t = s THEN device_created[k][s] + 1 ELSE device_created[k][t]
    BY DEF SeatTypeOK
<1>6. device_created' \in [Kinds -> [Surfaces -> Nat]]
    BY DEF SeatTypeOK
<1>7. \A d \in Devices : entered'[d] \subseteq entered[d] \cup {s}
        /\ (s \in entered'[d] => s \in entered[d] \/ more(d) > 0)
    BY DEF SeatTypeOK
<1>8. entered' \in [Devices -> SUBSET (alive \cap Surfaces)]
    BY DEF SeatTypeOK
<1>9. SeatTypeOK'
    BY <1>2, <1>4, <1>6, <1>8 DEF SeatTypeOK
<1>10. (DevicesListen /\ SurfacesListen /\ GoneIsGone)'
    BY <1>2, <1>5 DEF DevicesListen, SurfacesListen, GoneIsGone
<1>11. InputReachesOwnDevices'
    BY <1>1, <1>2, <1>3 DEF InputReachesOwnDevices, SameClient
<1>12. FocusIsConnected'
    <2> SUFFICES ASSUME NEW d \in Devices, NEW t \in entered'[d] PROVE registered'[t][d] > 0
        BY DEF FocusIsConnected
    <2>1. t \in Surfaces
        BY <1>8
    <2>2. registered[t][d] \in Nat /\ more(d) \in Nat
        BY <2>1, <1>1 DEF SeatTypeOK
    <2> QED BY <2>1, <2>2, <1>3, <1>7 DEF FocusIsConnected
<1> QED BY <1>9, <1>10, <1>11, <1>12

\* get_keyboard, get_pointer, get_touch: each surface calls the new device
\* back once per shell surface, those of its client register.
LEMMA GetDeviceStep ==
    ASSUME SeatInv, NEW d \in Devices, GetDevice(d) PROVE SeatInv'
<1> USE DEF SeatInv, GetDevice
<1> DEFINE more(s) == Registrations(s, d, device_created[Kind(d)][s])
<1>1. d \notin alive /\ d \notin Surfaces
    BY SeatAssumption DEF GoneIsGone
<1>2. \A s \in Surfaces : more(s) = IF SameClient(s, d) THEN shells[s] ELSE 0
    BY KindType DEF Registrations, SurfacesListen
<1>3. \A s \in Surfaces : more(s) \in Nat
    BY KindType DEF Registrations, SeatTypeOK
<1>4. \A s \in Surfaces, e \in Devices :
        registered'[s][e] = IF e = d THEN registered[s][d] + more(s) ELSE registered[s][e]
    BY DEF SeatTypeOK
<1>5. registered' \in [Surfaces -> [Devices -> Nat]]
    BY <1>3 DEF SeatTypeOK
<1>6. \A e \in Devices : surface_created'[e] = IF e = d THEN surface_created[d] + 1 ELSE surface_created[e]
    BY DEF SeatTypeOK
<1>7. surface_created' \in [Devices -> Nat]
    BY DEF SeatTypeOK
<1>8. \A s \in Surfaces : more(s) > 0 => s \in alive
    BY <1>2 DEF GoneIsGone
<1>9. \A e \in Devices : \A s \in entered'[e] :
        s \in entered[e] \/ (e = d /\ s \in Surfaces /\ more(s) > 0)
    BY DEF SeatTypeOK
<1>10. entered' \in [Devices -> SUBSET (alive' \cap Surfaces)]
    BY <1>8 DEF SeatTypeOK
<1>11. SeatTypeOK'
    BY <1>5, <1>7, <1>10 DEF SeatTypeOK
<1>12. (DevicesListen /\ SurfacesListen /\ GoneIsGone)'
    BY <1>1, <1>6 DEF DevicesListen, SurfacesListen, GoneIsGone
<1>13. InputReachesOwnDevices'
    <2> SUFFICES ASSUME NEW s \in Surfaces, NEW e \in Devices
                 PROVE registered'[s][e] =
                    IF s \in alive' /\ e \in alive' /\ SameClient(s, e) THEN shells[s] ELSE 0
        BY DEF InputReachesOwnDevices, SameClient
    <2>1. CASE e = d
        <3>1. registered[s][d] = 0
            BY <1>1 DEF InputReachesOwnDevices
        <3>2. s \notin alive => shells[s] = 0
            BY DEF GoneIsGone
        <3> QED BY <2>1, <3>1, <3>2, <1>1, <1>2, <1>3, <1>4
    <2>2. CASE e # d
        BY <2>2, <1>1, <1>4 DEF InputReachesOwnDevices
    <2> QED BY <2>1, <2>2
<1>14. FocusIsConnected'
    <2> SUFFICES ASSUME NEW e \in Devices, NEW s \in entered'[e] PROVE registered'[s][e] > 0
        BY DEF FocusIsConnected
    <2>1. s \in Surfaces
        BY <1>10
    <2>2. registered[s][e] \in Nat /\ more(s) \in Nat
        BY <2>1, <1>3 DEF SeatTypeOK
    <2> QED BY <2>1, <2>2, <1>4, <1>9 DEF FocusIsConnected
<1> QED BY <1>11, <1>12, <1>13, <1>14

\* The cursor enters a window: only pointers the surface is connected to move.
LEMMA PointerEnterStep ==
    ASSUME SeatInv, NEW s \in Surfaces, PointerEnter(s) PROVE SeatInv'
<1> USE DEF SeatInv, PointerEnter
<1>1. entered' \in [Devices -> SUBSET (alive \cap Surfaces)]
    BY DEF SeatTypeOK
<1>2. SeatTypeOK'
    BY <1>1 DEF SeatTypeOK
<1>3. (DevicesListen /\ SurfacesListen /\ GoneIsGone /\ InputReachesOwnDevices)'
    BY DEF DevicesListen, SurfacesListen, GoneIsGone, InputReachesOwnDevices, SameClient
<1>4. FocusIsConnected'
    BY DEF FocusIsConnected, SeatTypeOK
<1> QED BY <1>2, <1>3, <1>4

\* The cursor leaves a window.
LEMMA PointerLeaveStep ==
    ASSUME SeatInv, NEW s \in Surfaces, PointerLeave(s) PROVE SeatInv'
<1> USE DEF SeatInv, PointerLeave
<1>1. entered' \in [Devices -> SUBSET (alive \cap Surfaces)]
    BY DEF SeatTypeOK
<1>2. SeatTypeOK'
    BY <1>1 DEF SeatTypeOK
<1>3. (DevicesListen /\ SurfacesListen /\ GoneIsGone /\ InputReachesOwnDevices)'
    BY DEF DevicesListen, SurfacesListen, GoneIsGone, InputReachesOwnDevices, SameClient
<1>4. FocusIsConnected'
    BY DEF FocusIsConnected, SeatTypeOK
<1> QED BY <1>2, <1>3, <1>4

\* A surface that goes away takes all of its connections and every focus along.
LEMMA DestroySurfaceStep ==
    ASSUME SeatInv, NEW s \in Surfaces, DestroySurface(s) PROVE SeatInv'
<1> USE DEF SeatInv, DestroySurface
<1>1. s \notin Devices
    BY SeatAssumption
<1>2. shells' \in [Surfaces -> Nat]
        /\ \A t \in Surfaces : shells'[t] = IF t = s THEN 0 ELSE shells[t]
    BY DEF SeatTypeOK
<1>3. registered' \in [Surfaces -> [Devices -> Nat]]
        /\ \A t \in Surfaces, d \in Devices :
            registered'[t][d] = IF t = s THEN 0 ELSE registered[t][d]
    BY DEF SeatTypeOK
<1>4. device_created' \in [Kinds -> [Surfaces -> Nat]]
        /\ \A k \in Kinds, t \in Surfaces :
            device_created'[k][t] = IF t = s THEN 0 ELSE device_created[k][t]
    BY DEF SeatTypeOK
<1>5. entered' \in [Devices -> SUBSET (alive' \cap Surfaces)]
    BY DEF SeatTypeOK
<1>6. SeatTypeOK'
    BY <1>2, <1>3, <1>4, <1>5 DEF SeatTypeOK
<1>7. (DevicesListen /\ SurfacesListen /\ GoneIsGone)'
    BY <1>1, <1>2, <1>4 DEF DevicesListen, SurfacesListen, GoneIsGone
<1>8. InputReachesOwnDevices'
    BY <1>1, <1>2, <1>3 DEF InputReachesOwnDevices, SameClient
<1>9. FocusIsConnected'
    <2> SUFFICES ASSUME NEW d \in Devices, NEW t \in entered'[d] PROVE registered'[t][d] > 0
        BY DEF FocusIsConnected
    <2>1. t \in Surfaces /\ t \in entered[d] /\ t # s
        BY DEF SeatTypeOK
    <2> QED BY <2>1, <1>3 DEF FocusIsConnected
<1> QED BY <1>6, <1>7, <1>8, <1>9

\* A device that goes away takes all of its connections and its focus along.
LEMMA DestroyDeviceStep ==
    ASSUME SeatInv, NEW d \in Devices, DestroyDevice(d) PROVE SeatInv'
<1> USE DEF SeatInv, DestroyDevice
<1>1. d \notin Surfaces
    BY SeatAssumption
<1>2. surface_created' \in [Devices -> Nat]
        /\ \A e \in Devices : surface_created'[e] = IF e = d THEN 0 ELSE surface_created[e]
    BY DEF SeatTypeOK
<1>3. registered' \in [Surfaces -> [Devices -> Nat]]
        /\ \A s \in Surfaces, e \in Devices :
            registered'[s][e] = IF e = d THEN 0 ELSE registered[s][e]
    BY DEF SeatTypeOK
<1>4. entered' \in [Devices -> SUBSET (alive' \cap Surfaces)]
    BY <1>1 DEF SeatTypeOK
<1>5. SeatTypeOK'
    BY <1>2, <1>3, <1>4 DEF SeatTypeOK
<1>6. (DevicesListen /\ SurfacesListen /\ GoneIsGone)'
    BY <1>1, <1>2 DEF DevicesListen, SurfacesListen, GoneIsGone
<1>7. InputReachesOwnDevices'
    BY <1>1, <1>3 DEF InputReachesOwnDevices, SameClient
<1>8. FocusIsConnected'
    <2> SUFFICES ASSUME NEW e \in Devices, NEW s \in entered'[e] PROVE registered'[s][e] > 0
        BY DEF FocusIsConnected
    <2>1. s \in Surfaces /\ s \in entered[e] /\ e # d
        BY DEF SeatTypeOK
    <2> QED BY <2>1, <1>3 DEF FocusIsConnected
<1> QED BY <1>5, <1>6, <1>7, <1>8

-----------------------------------------------------------------------------
\* The inductive invariant holds of sparkle's registrations at all times.
LEMMA SeatInvariance ==
    SeatSpec => []SeatInv
<1>1. SeatInv /\ [SeatNext]_seatVars => SeatInv'
    <2> SUFFICES ASSUME SeatInv, [SeatNext]_seatVars PROVE SeatInv'
        OBVIOUS
    <2>1. CASE UNCHANGED seatVars
        BY <2>1 DEF seatVars, SeatInv, SeatTypeOK, DevicesListen, SurfacesListen, GoneIsGone,
            InputReachesOwnDevices, FocusIsConnected, SameClient
    <2>2. ASSUME NEW s \in Surfaces, SurfaceNext(s) PROVE SeatInv'
        BY <2>2, CreateSurfaceStep, GetShellSurfaceStep, PointerEnterStep,
            PointerLeaveStep, DestroySurfaceStep DEF SurfaceNext
    <2>3. ASSUME NEW d \in Devices, DeviceNext(d) PROVE SeatInv'
        BY <2>3, GetDeviceStep, DestroyDeviceStep DEF DeviceNext
    <2> QED BY <2>1, <2>2, <2>3 DEF SeatNext
<1> QED BY <1>1, SeatInvInit, PTL DEF SeatSpec

\* Types, and that a device is only on surfaces that exist.
THEOREM SeatTypeCorrect ==
    SeatSpec => []SeatTypeOK
<1>1. SeatInv => SeatTypeOK
    BY DEF SeatInv
<1> QED BY <1>1, SeatInvariance, PTL

\* However many clients, surfaces and devices there are and in whatever order
\* they come and go, the slots of sparkle.cpp and register_* of
\* sparkle_surface.cpp connect a surface's input to exactly the devices of its
\* own client.
THEOREM InputRouted ==
    SeatSpec => []InputReachesOwnDevices
<1>1. SeatInv => InputReachesOwnDevices
    BY DEF SeatInv
<1> QED BY <1>1, SeatInvariance, PTL

\* ... and a device is on no surface that its input does not come from.
THEOREM FocusRouted ==
    SeatSpec => []FocusIsConnected
<1>1. SeatInv => FocusIsConnected
    BY DEF SeatInv
<1> QED BY <1>1, SeatInvariance, PTL
=============================================================================
