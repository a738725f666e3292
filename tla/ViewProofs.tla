----------------------------- MODULE ViewProofs -----------------------------
(***************************************************************************)
(* Proofs about View, for all sizes and damage requests: DamageCovers is    *)
(* inductive with the types of what it speaks about.                        *)
(***************************************************************************)
EXTENDS View, RectProofs

(* Two pixels at a time, uploader_2 reaches every pixel of the rectangle, and
   takes it from its own place in every row that begins at an even distance. *)
THEOREM ConvertedCovers ==
    ASSUME NEW r \in Rects, NEW stride \in Nat, NEW p \in Pixels(r),
           (stride * p[2]) % 2 = 0
    PROVE  p \in Converted(r, stride)
<1>1. r.x1 \in Int /\ r.x2 \in Int /\ r.y1 \in Int /\ r.y2 \in Int
  BY DEF Rects
<1>2. p[1] \in r.x1 .. r.x2 - 1 /\ p[2] \in r.y1 .. r.y2 - 1 /\ p = <<p[1], p[2]>>
  BY DEF Pixels
<1> DEFINE x == p[1]
           y == p[2]
           row == stride * y
<1>3. x \in PairColumns(r)
  BY <1>1, <1>2 DEF PairColumns
<1>4. x \in Int /\ y \in Int /\ row \in Int
  BY <1>1, <1>2
<1>5. PairSource(stride, x, y) = 2 * ((4 * stride * y) \div 8 + x \div 2) + (x % 2)
  BY DEF PairSource
<1>6. 4 * stride * y = 4 * row
  BY <1>4
<1>7. row % 2 = 0
  OBVIOUS
<1> HIDE DEF x, y, row
<1>8. PICK z \in Int : row = 2 * z
  BY <1>4, <1>7
<1>9. (4 * row) \div 8 = z
  BY <1>8
<1>10. 2 * (x \div 2) + (x % 2) = x /\ x \div 2 \in Int /\ x % 2 \in Int
  BY <1>4
<1>11. PairSource(stride, x, y) = row + x
  BY <1>4, <1>5, <1>6, <1>8, <1>9, <1>10
<1> QED
  BY <1>2, <1>3, <1>11 DEF Converted, x, y, row

(* Whichever uploader is used, all of the rectangle is drawn but for the rows
   that uploader_2 takes from elsewhere. *)
LEMMA UploadedCovers ==
    ASSUME TypeOK, NEW r \in Rects, content \in Sizes
    PROVE  Pixels(r) \cap PixelsOf(content) \subseteq Uploaded(r) \cup Shifted
<1> SUFFICES ASSUME NEW p \in Pixels(r), p \in PixelsOf(content), p \notin Shifted
             PROVE  p \in Uploaded(r)
  OBVIOUS
<1>1. Stride[content] \in Nat
  BY ViewAssumption
<1>2. CASE format_ = "BGRA"
  BY <1>2 DEF Uploaded, Copied
<1>3. CASE format_ = "RGBX"
  <2>1. Uploaded(r) = Converted(r, Stride[content])
    BY <1>3 DEF Uploaded
  <2>2. p[2] \in Int
    BY DEF Pixels, Rects
  <2>3. Stride[content] % 2 = 0 \/ p[2] % 2 = 0
    <3>1. Stride[content] % 2 # 1 \/ p[2] % 2 # 1
      BY <1>3 DEF Shifted
    <3> QED
      BY <1>1, <2>2, <3>1
  <2>4. ASSUME NEW s \in Int, NEW y \in Int, s % 2 = 0 \/ y % 2 = 0
        PROVE  (s * y) % 2 = 0
    <3>1. CASE s % 2 = 0
      <4>1. PICK k \in Int : s = 2 * k
        BY <3>1
      <4>2. PICK z \in Int : z = k * y
        OBVIOUS
      <4>3. s * y = 2 * z
        BY <4>1, <4>2
      <4> QED
        BY <4>3
    <3>2. CASE y % 2 = 0
      <4>1. PICK k \in Int : y = 2 * k
        BY <3>2
      <4>2. PICK z \in Int : z = s * k
        OBVIOUS
      <4>3. s * y = 2 * z
        BY <4>1, <4>2
      <4> QED
        BY <4>3
    <3> QED
      BY <2>4, <3>1, <3>2
  <2>5. (Stride[content] * p[2]) % 2 = 0
    BY <1>1, <2>2, <2>3, <2>4
  <2> QED
    BY <1>1, <2>1, <2>5, ConvertedCovers
<1> QED
  BY <1>2, <1>3 DEF TypeOK

(* What size() gives is the rectangle and the pixels of a view. *)
LEMMA WholeType ==
    ASSUME NEW sz \in Nat \X Nat
    PROVE  /\ WholeOf(sz) \in Rects
           /\ PixelsOf(sz) \subseteq Int \X Int
           /\ sz[1] \in Nat /\ sz[2] \in Nat
           /\ WholeOf(sz) = Whole(sz[1], sz[2])
<1>1. sz[1] \in Nat /\ sz[2] \in Nat
  OBVIOUS
<1>2. WholeOf(sz) \in Rects
  BY <1>1 DEF WholeOf, Whole, Rects
<1> QED
  BY <1>1, <1>2, PixelsType DEF WholeOf, PixelsOf

(* The rectangle that update() draws has four ints. *)
LEMMA LimitedType ==
    ASSUME TypeOK, NEW full \in BOOLEAN
    PROVE  Limited(full) \in Rects
<1>1. size \in Nat \X Nat /\ damage_ \in Rects
  BY DEF TypeOK
<1>2. WholeOf(size) \in Rects /\ size[1] \in Int /\ size[2] \in Int
  BY <1>1, WholeType
<1>3. Expand(damage_, WholeOf(size)) \in Rects
  BY <1>1, <1>2, ExpandType
<1> QED
  BY <1>1, <1>2, <1>3, LimitType DEF Limited

(* The rectangle that is drawn covers the damage inside the view, and all of
   the view in a full update. *)
LEMMA LimitedCovers ==
    ASSUME TypeOK, NEW full \in BOOLEAN
    PROVE  /\ Pixels(damage_) \cap PixelsOf(size) \subseteq Pixels(Limited(full))
           /\ full => PixelsOf(size) \subseteq Pixels(Limited(full))
<1>1. size \in Nat \X Nat /\ damage_ \in Rects
  BY DEF TypeOK
<1>2. /\ WholeOf(size) \in Rects /\ size[1] \in Nat /\ size[2] \in Nat
      /\ WholeOf(size) = Whole(size[1], size[2])
  BY <1>1, WholeType
<1> DEFINE e == Expand(damage_, WholeOf(size))
<1>3. e \in Rects
  BY <1>1, <1>2, ExpandType
<1>4. Pixels(damage_) \cup Pixels(WholeOf(size)) \subseteq Pixels(e)
  BY <1>1, <1>2, ExpandCovers
<1>5. Pixels(Limit(e, size[1], size[2])) = Pixels(e) \cap PixelsOf(size)
  BY <1>2, <1>3, LimitExact DEF PixelsOf
<1>6. Pixels(Limit(damage_, size[1], size[2])) = Pixels(damage_) \cap PixelsOf(size)
  BY <1>1, <1>2, LimitExact DEF PixelsOf
<1>7. CASE full \/ no_damage_
  <2>1. Limited(full) = Limit(e, size[1], size[2])
    BY <1>7 DEF Limited
  <2> QED
    BY <1>4, <1>5, <2>1 DEF PixelsOf
<1>8. CASE ~(full \/ no_damage_)
  <2>1. Limited(full) = Limit(damage_, size[1], size[2])
    BY <1>8 DEF Limited
  <2> QED
    BY <1>6, <1>8, <2>1
<1> QED
  BY <1>7, <1>8

(* What update() may do to the state, whoever calls it. *)
LEMMA UpdateType ==
    ASSUME TypeOK, NEW full \in BOOLEAN, NEW g \in (Nat \X Nat) \cup {None},
           NEW lock \in BOOLEAN, lock => g # None,
           NEW dirty \in SUBSET (Int \X Int),
           Update(full, g, lock, dirty)
    PROVE  /\ size' \in Nat \X Nat
           /\ damage_' \in Rects
           /\ failed' \in BOOLEAN
           /\ locked' \in BOOLEAN
           /\ locked' => g # None
           /\ owed' \subseteq Int \X Int
<1>1. /\ size \in Nat \X Nat /\ damage_ \in Rects /\ failed \in BOOLEAN
      /\ content \in (Nat \X Nat) \cup {None}
  BY ViewAssumption DEF TypeOK
<1>2. Limited(full) \in Rects /\ EmptyRect \in Rects
  BY LimitedType DEF EmptyRect, Rects
<1>3. size' \in Nat \X Nat
  BY <1>1 DEF Update, NothingToUpdate, SizeChanges
<1>4. damage_' \in Rects
  BY <1>1, <1>2 DEF Update
<1>5. failed' \in BOOLEAN /\ locked' \in BOOLEAN
  BY <1>1, Zenon DEF Update
<1>6. locked' => g # None
  BY Zenon DEF Update, NothingToUpdate
<1>7. owed' \subseteq Int \X Int
  BY DEF Update
<1> QED
  BY <1>3, <1>4, <1>5, <1>6, <1>7

-----------------------------------------------------------------------------
(* The view starts with its types. *)
LEMMA TypeInit == Init => TypeOK
<1>1. EmptyRect \in Rects
  BY DEF EmptyRect, Rects
<1> QED
  BY <1>1, ViewAssumption DEF Init, TypeOK

(* Every step keeps the types, the early returns of update() included. *)
LEMMA TypeStep == TypeOK /\ [Next]_vars => TypeOK'
<1> SUFFICES ASSUME TypeOK, [Next]_vars PROVE TypeOK'
  OBVIOUS
<1>1. ASSUME NEW sz \in Sizes, Attach(sz) PROVE TypeOK'
  <2>1. PixelsOf(sz) \subseteq Int \X Int /\ sz # None
    BY WholeType, ViewAssumption
  <2> QED
    BY <1>1, <2>1 DEF Attach, TypeOK
<1>2. ASSUME NEW d \in Damages, Damage(d) PROVE TypeOK'
  <2>1. d \in Requests
    BY ViewAssumption
  <2>2. Meant(d) \in Rects /\ Damaged(d) \in Rects
    BY <2>1, RectAssumption DEF Meant, Damaged, Plus, Requests, Rects
  <2>3. Pixels(Meant(d)) \subseteq Int \X Int
    BY <2>2, PixelsType
  <2>4. damage_' \in Rects
    BY <1>2, <2>2, ExpandType DEF Damage, TypeOK
  <2> QED
    BY <1>2, <2>3, <2>4 DEF Damage, TypeOK
<1>3. CASE Commit
  <2>1. /\ Update(FALSE, geometry, locked, owed)
        /\ UNCHANGED <<content, geometry, no_damage_, format_>>
    BY <1>3 DEF Commit
  <2>2. /\ geometry \in (Nat \X Nat) \cup {None} /\ locked \in BOOLEAN
        /\ (locked => geometry # None) /\ owed \in SUBSET (Int \X Int)
    BY DEF TypeOK
  <2>3. /\ size' \in Nat \X Nat /\ damage_' \in Rects /\ failed' \in BOOLEAN
        /\ locked' \in BOOLEAN /\ (locked' => geometry # None)
        /\ owed' \subseteq Int \X Int
    BY <2>1, <2>2, UpdateType
  <2> QED
    BY <2>1, <2>3 DEF TypeOK
<1>4. ASSUME NEW lock \in BOOLEAN, SetWindow(lock) PROVE TypeOK'
  <2>1. /\ Update(TRUE, size, lock, LostWithWindow)
        /\ UNCHANGED <<content, no_damage_, format_>>
        /\ geometry' = size
    BY <1>4 DEF SetWindow
  <2>2. size \in Nat \X Nat /\ size # None
    BY ViewAssumption DEF TypeOK
  <2>3. LostWithWindow \in SUBSET (Int \X Int)
    BY <2>2, WholeType DEF TypeOK, LostWithWindow
  <2>4. /\ size' \in Nat \X Nat /\ damage_' \in Rects /\ failed' \in BOOLEAN
        /\ locked' \in BOOLEAN /\ owed' \subseteq Int \X Int
    BY <2>1, <2>2, <2>3, UpdateType
  <2> QED
    BY <2>1, <2>2, <2>4 DEF TypeOK
<1>5. CASE SurfaceCreated
  BY <1>4, <1>5 DEF SurfaceCreated
<1>6. CASE SurfaceChanged
  BY <1>4, <1>6 DEF SurfaceChanged, TypeOK
<1>7. CASE SurfaceDestroyed
  BY <1>7 DEF SurfaceDestroyed, TypeOK
<1>8. CASE UNCHANGED vars
  BY <1>8 DEF vars, TypeOK
<1> QED
  BY <1>1, <1>2, <1>3, <1>5, <1>6, <1>7, <1>8 DEF Next

(* The types of View's variables, for all sizes and damage requests. *)
THEOREM TypeCorrect == Spec => []TypeOK
BY TypeInit, TypeStep, PTL DEF Spec

-----------------------------------------------------------------------------
(* Every step keeps DamageCovers, given the types. *)
LEMMA CoversStep ==
    ASSUME TypeOK, DamageCovers, [Next]_vars
    PROVE  DamageCovers'
<1>1. ASSUME NEW sz \in Sizes, Attach(sz) PROVE DamageCovers'
  BY <1>1 DEF Attach, DamageCovers, Shifted
<1>2. ASSUME NEW d \in Damages, Damage(d) PROVE DamageCovers'
  <2>1. d \in Requests
    BY ViewAssumption
  <2>2. Meant(d) \in Rects /\ Damaged(d) \in Rects
    BY <2>1, RectAssumption DEF Meant, Damaged, Plus, Requests, Rects
  <2>3. Pixels(damage_) \cup Pixels(Damaged(d)) \subseteq Pixels(damage_')
    BY <1>2, <2>2, ExpandCovers DEF Damage, TypeOK
  <2>4. Fits(d) => Damaged(d) = Meant(d)
    BY <2>1, DamagedIsMeant
  <2>5. Shifted' = Shifted
    BY <1>2 DEF Damage, Shifted
  <2> QED
    BY <1>2, <2>3, <2>4, <2>5 DEF Damage, DamageCovers
<1>3. CASE Commit
  <2>1. SUFFICES ASSUME geometry' # None, geometry' = content', ~locked'
                 PROVE  owed' \cap PixelsOf(content') \subseteq Pixels(damage_') \cup Shifted'
    BY DEF DamageCovers
  <2>2. /\ Update(FALSE, geometry, locked, owed)
        /\ geometry' = geometry /\ content' = content /\ format_' = format_
    BY <1>3 DEF Commit
  <2>3. Shifted' = Shifted
    BY <2>2 DEF Shifted
  <2>4. CASE SizeChanges
    <3>1. damage_' = damage_ /\ owed' = owed /\ locked' = locked
      BY <2>2, <2>4 DEF Update
    <3> QED
      BY <2>1, <2>2, <2>3, <3>1 DEF DamageCovers
  <2>5. CASE ~SizeChanges
    <3>1. ~locked
      BY <2>1, <2>2, <2>5 DEF Update, NothingToUpdate
    <3>2. PICK rect \in {Limited(FALSE), WholeOf(size)} : owed' = owed \ Uploaded(rect)
      BY <2>1, <2>2, <2>5, <3>1 DEF Update, NothingToUpdate
    <3>3. content = size
      BY <2>5 DEF SizeChanges
    <3>4. Pixels(damage_) \cap PixelsOf(size) \subseteq Pixels(rect)
      BY LimitedCovers DEF PixelsOf
    <3>5. owed \cap PixelsOf(content) \subseteq Pixels(damage_) \cup Shifted
      BY <2>1, <2>2, <3>1 DEF DamageCovers
    <3>6. size \in Nat \X Nat /\ content \in Sizes
      BY <2>1, <2>2 DEF TypeOK
    <3>7. rect \in Rects
      BY <3>6, LimitedType, WholeType
    <3>8. Pixels(rect) \cap PixelsOf(content) \subseteq Uploaded(rect) \cup Shifted
      BY <3>6, <3>7, UploadedCovers
    <3> QED
      BY <2>2, <2>3, <3>2, <3>3, <3>4, <3>5, <3>8
  <2> QED
    BY <2>4, <2>5
<1>4. ASSUME NEW lock \in BOOLEAN, SetWindow(lock) PROVE DamageCovers'
  <2>1. SUFFICES ASSUME geometry' # None, geometry' = content', ~locked'
                 PROVE  owed' \cap PixelsOf(content') \subseteq Shifted'
    BY DEF DamageCovers
  <2>2. /\ Update(TRUE, size, lock, LostWithWindow)
        /\ geometry' = size /\ content' = content /\ format_' = format_
    BY <1>4 DEF SetWindow
  <2>3. content = size /\ size # None /\ Shifted' = Shifted
    BY <2>1, <2>2 DEF Shifted
  <2>4. PICK rect \in {Limited(TRUE), WholeOf(size)} :
            owed' = LostWithWindow \ Uploaded(rect)
    BY <2>1, <2>2, <2>3 DEF Update, NothingToUpdate, SizeChanges
  <2>5. PixelsOf(size) \subseteq Pixels(rect)
    BY LimitedCovers DEF PixelsOf
  <2>6. size \in Nat \X Nat /\ content \in Sizes
    BY <2>3 DEF TypeOK
  <2>7. rect \in Rects
    BY <2>6, LimitedType, WholeType
  <2>8. Pixels(rect) \cap PixelsOf(content) \subseteq Uploaded(rect) \cup Shifted
    BY <2>6, <2>7, UploadedCovers
  <2>9. owed' \cap PixelsOf(size) \subseteq Shifted
    BY <2>3, <2>4, <2>5, <2>8
  <2> QED
    BY <2>2, <2>3, <2>9
<1>5. CASE SurfaceCreated
  BY <1>4, <1>5 DEF SurfaceCreated
<1>6. CASE SurfaceChanged
  BY <1>4, <1>6 DEF SurfaceChanged, TypeOK
<1>7. CASE SurfaceDestroyed
  BY <1>7 DEF SurfaceDestroyed, DamageCovers
<1>8. CASE UNCHANGED vars
  BY <1>8 DEF vars, DamageCovers, Shifted
<1> QED
  BY <1>1, <1>2, <1>3, <1>5, <1>6, <1>7, <1>8 DEF Next

(* Whatever a client attaches and damages, in whichever order and with whatever
   stride, no damage is lost: not when update() returns early, not in a resize
   that Android has not granted yet, not when the window is replaced.  The rows
   that are left out are every other one of a buffer with an odd stride. *)
THEOREM NoDamageLost == Spec => []DamageCovers
<1>1. Init => TypeOK /\ DamageCovers
  BY TypeInit DEF Init, DamageCovers
<1>2. TypeOK /\ DamageCovers /\ [Next]_vars => (TypeOK /\ DamageCovers)'
  BY TypeStep, CoversStep
<1> QED
  BY <1>1, <1>2, PTL DEF Spec
=============================================================================
