-------------------------- MODULE X11SurfaceProofs --------------------------
(***************************************************************************)
(* X11Surface, for all sizes and damage requests: no damage is lost.        *)
(***************************************************************************)
EXTENDS X11Surface, RectProofs

\* A size gives the rectangle of a surface.
LEMMA WholeType ==
    ASSUME NEW sz \in Nat \X Nat
    PROVE  /\ WholeOf(sz) \in Rects
           /\ PixelsOf(sz) \subseteq Int \X Int
           /\ sz[1] \in Nat /\ sz[2] \in Nat
           /\ WholeOf(sz) = Whole(sz[1], sz[2])
<1>1. sz[1] \in Nat /\ sz[2] \in Nat
    OBVIOUS
<1>2. WholeOf(sz) \in Rects
    BY <1>1 DEF WholeOf, Whole, Rects
<1> QED BY <1>1, <1>2, PixelsType DEF WholeOf, PixelsOf

\* A request gives a rectangle, and the one it means if its edges are ints.
LEMMA RequestType ==
    ASSUME NEW d \in Damages
    PROVE  /\ Meant(d) \in Rects /\ Damaged(d) \in Rects
           /\ Pixels(Meant(d)) \subseteq Int \X Int
           /\ Fits(d) => Damaged(d) = Meant(d)
<1>1. d \in Requests
    BY X11SurfaceAssumption
<1>2. Meant(d) \in Rects /\ Damaged(d) \in Rects
    BY <1>1, RectAssumption DEF Meant, Damaged, Plus, Requests, Rects
<1> QED BY <1>1, <1>2, DamagedIsMeant, PixelsType

\* The rectangle given to the uploader covers the damage inside of the
\* surface, and all of the surface after an expose event.
LEMMA LimitedCovers ==
    ASSUME TypeOK, content # None, NEW full \in BOOLEAN
    PROVE  /\ Limited(full) \in Rects
           /\ Pixels(damage_) \cap PixelsOf(content) \subseteq Pixels(Limited(full))
           /\ full => PixelsOf(content) \subseteq Pixels(Limited(full))
<1>1. content \in Nat \X Nat /\ damage_ \in Rects
    BY X11SurfaceAssumption DEF TypeOK
<1>2. /\ WholeOf(content) \in Rects /\ content[1] \in Nat /\ content[2] \in Nat
      /\ WholeOf(content) = Whole(content[1], content[2])
    BY <1>1, WholeType
<1> DEFINE e == Expand(damage_, WholeOf(content))
<1>3. e \in Rects
    BY <1>1, <1>2, ExpandType
<1>4. Pixels(damage_) \cup Pixels(WholeOf(content)) \subseteq Pixels(e)
    BY <1>1, <1>2, ExpandCovers
<1>5. Pixels(Limit(e, content[1], content[2])) = Pixels(e) \cap PixelsOf(content)
    BY <1>2, <1>3, LimitExact DEF PixelsOf
<1>6. Pixels(Limit(damage_, content[1], content[2])) = Pixels(damage_) \cap PixelsOf(content)
    BY <1>1, <1>2, LimitExact DEF PixelsOf
<1>7. CASE full
    <2>1. Limited(full) = Limit(e, content[1], content[2])
        BY <1>7 DEF Limited
    <2>2. Limit(e, content[1], content[2]) \in Rects
        BY <1>2, <1>3, LimitType
    <2> QED BY <1>4, <1>5, <2>1, <2>2 DEF PixelsOf
<1>8. CASE ~full
    <2>1. Limited(full) = Limit(damage_, content[1], content[2])
        BY <1>8 DEF Limited
    <2>2. Limit(damage_, content[1], content[2]) \in Rects
        BY <1>1, <1>2, LimitType
    <2> QED BY <1>6, <1>8, <2>1, <2>2
<1> QED BY <1>7, <1>8

-----------------------------------------------------------------------------
(* Types *)

\* The initial states have the right types.
LEMMA TypeInit == Init => TypeOK
<1>1. EmptyRect \in Rects
    BY DEF EmptyRect, Rects
<1> QED BY <1>1, X11SurfaceAssumption DEF Init, TypeOK

\* update() keeps the types.
LEMMA DrawType ==
    ASSUME TypeOK, NEW full \in BOOLEAN, Draw(full)
    PROVE  /\ size' \in Sizes \cup {InitialSize}
           /\ damage_' \in Rects
           /\ uploaded' \in Rects
           /\ owed' \subseteq Int \X Int
<1>1. content # None /\ Limited(full) \in Rects /\ EmptyRect \in Rects
    BY LimitedCovers DEF Draw, EmptyRect, Rects
<1>2. PixelsOf(content) \subseteq Int \X Int
    BY <1>1, WholeType, X11SurfaceAssumption DEF TypeOK
<1> QED BY <1>1, <1>2 DEF Draw, LostInResize, TypeOK

\* Every step keeps the types.
LEMMA TypeStep == TypeOK /\ [Next]_vars => TypeOK'
<1> SUFFICES ASSUME TypeOK, [Next]_vars PROVE TypeOK'
    OBVIOUS
<1>1. ASSUME NEW sz \in Sizes, Attach(sz) PROVE TypeOK'
    BY <1>1 DEF Attach, TypeOK
<1>2. ASSUME NEW d \in Damages, Damage(d) PROVE TypeOK'
    <2>1. damage_' \in Rects
        BY <1>2, RequestType, ExpandType DEF Damage, TypeOK
    <2> QED BY <1>2, <2>1, RequestType DEF Damage, TypeOK
<1>3. CASE Commit
    <2>1. wire' \in BOOLEAN /\ queued' \in BOOLEAN
        BY <1>3, Zenon DEF Commit, Checked, TypeOK
    <2>2. CASE NothingToDraw
        BY <1>3, <2>1, <2>2 DEF Commit, NothingToDraw, TypeOK
    <2>3. CASE Draw(FALSE)
        BY <1>3, <2>1, <2>3, DrawType DEF Commit, TypeOK
    <2> QED BY <1>3, <2>2, <2>3 DEF Commit
<1>4. CASE GetEvents
    <2>1. wire' \in BOOLEAN /\ queued' \in BOOLEAN
        BY <1>4, Zenon DEF GetEvents
    <2>2. CASE NothingToDraw
        BY <1>4, <2>1, <2>2 DEF GetEvents, NothingToDraw, TypeOK
    <2>3. CASE Draw(TRUE)
        BY <1>4, <2>1, <2>3, DrawType DEF GetEvents, TypeOK
    <2> QED BY <1>4, <2>2, <2>3 DEF GetEvents
<1>5. CASE Uncover
    <2>1. PixelsOf(size) \subseteq Int \X Int
        BY WholeType, X11SurfaceAssumption DEF TypeOK
    <2> QED BY <1>5, <2>1 DEF Uncover, TypeOK
<1>6. CASE UNCHANGED vars
    BY <1>6 DEF vars, TypeOK
<1> QED BY <1>1, <1>2, <1>3, <1>4, <1>5, <1>6 DEF Next

\* The types of were_x11_surface's state, for all sizes and damage requests.
THEOREM TypeCorrect == Spec => []TypeOK
    BY TypeInit, TypeStep, PTL DEF Spec

-----------------------------------------------------------------------------
(* Damage *)

\* A window that has nothing to show loses nothing.
NothingLost == content = None => owed \subseteq Pixels(damage_)

\* Every step keeps NothingLost.
LEMMA NothingLostStep ==
    ASSUME TypeOK, NothingLost, [Next]_vars
    PROVE  NothingLost'
<1>1. ASSUME NEW sz \in Sizes, Attach(sz) PROVE NothingLost'
    BY <1>1, X11SurfaceAssumption DEF Attach, NothingLost
<1>2. ASSUME NEW d \in Damages, Damage(d) PROVE NothingLost'
    <2>1. Pixels(damage_) \cup Pixels(Damaged(d)) \subseteq Pixels(damage_')
        BY <1>2, RequestType, ExpandCovers DEF Damage, TypeOK
    <2>2. Fits(d) => Damaged(d) = Meant(d)
        BY RequestType
    <2> QED BY <1>2, <2>1, <2>2 DEF Damage, NothingLost
<1>3. CASE Commit \/ GetEvents
    BY <1>3 DEF Commit, GetEvents, NothingToDraw, Draw, NothingLost
<1>4. CASE Uncover
    BY <1>4 DEF Uncover, NothingLost
<1>5. CASE UNCHANGED vars
    BY <1>5 DEF vars, NothingLost
<1> QED BY <1>1, <1>2, <1>3, <1>4, <1>5 DEF Next

\* Every step keeps DamageCovers.
LEMMA CoversStep ==
    ASSUME TypeOK, NothingLost, DamageCovers, [Next]_vars
    PROVE  DamageCovers'
<1>1. ASSUME NEW sz \in Sizes, Attach(sz) PROVE DamageCovers'
    BY <1>1 DEF Attach, DamageCovers
<1>2. ASSUME NEW d \in Damages, Damage(d) PROVE DamageCovers'
    <2>1. Pixels(damage_) \cup Pixels(Damaged(d)) \subseteq Pixels(damage_')
        BY <1>2, RequestType, ExpandCovers DEF Damage, TypeOK
    <2>2. Fits(d) => Damaged(d) = Meant(d)
        BY RequestType
    <2> QED BY <1>2, <2>1, <2>2 DEF Damage, DamageCovers
<1>3. CASE Commit
    <2>1. CASE NothingToDraw /\ UNCHANGED <<wire, queued>>
        BY <2>1 DEF NothingToDraw, DamageCovers
    <2>2. CASE Draw(FALSE) /\ Checked(size # content)
        <3> SUFFICES ASSUME ~wire', ~queued'
                     PROVE  owed' \cap PixelsOf(size') = {}
            BY DEF DamageCovers
        <3>1. ~wire /\ ~queued /\ size = content
            BY <2>2, Zenon DEF Checked
        <3>2. owed \cap PixelsOf(content) \subseteq Pixels(damage_)
            BY <3>1 DEF DamageCovers
        <3>3. owed' = owed \ Pixels(Limited(FALSE)) /\ size' = content /\ content # None
            BY <2>2, <3>1 DEF Draw, LostInResize
        <3> QED BY <3>2, <3>3, LimitedCovers
    <2> QED BY <1>3, <2>1, <2>2 DEF Commit
<1>4. CASE GetEvents
    <2>1. CASE Draw(TRUE)
        <3>1. owed' \cap Pixels(Limited(TRUE)) = {} /\ size' = content /\ content # None
            BY <2>1 DEF Draw
        <3> QED BY <3>1, LimitedCovers DEF DamageCovers
    <2>2. CASE NothingToDraw
        BY <2>2 DEF NothingToDraw, NothingLost, DamageCovers
    <2> QED BY <1>4, <2>1, <2>2 DEF GetEvents
<1>5. CASE Uncover
    BY <1>5 DEF Uncover, DamageCovers
<1>6. CASE UNCHANGED vars
    BY <1>6 DEF vars, DamageCovers
<1> QED BY <1>1, <1>2, <1>3, <1>4, <1>5, <1>6 DEF Next

\* update() of were_x11_surface loses no damage, whatever a client attaches
\* and damages, whenever expose events come, whether a commit reads them or
\* the loop, and however often the size changes.
THEOREM NoDamageLost == Spec => []DamageCovers
<1>1. Init => TypeOK /\ NothingLost /\ DamageCovers
    BY TypeInit DEF Init, NothingLost, DamageCovers
<1>2. TypeOK /\ NothingLost /\ DamageCovers /\ [Next]_vars
        => (TypeOK /\ NothingLost /\ DamageCovers)'
    BY TypeStep, NothingLostStep, CoversStep
<1> QED BY <1>1, <1>2, PTL DEF Spec
=============================================================================
