----------------------------- MODULE RectProofs -----------------------------
(***************************************************************************)
(* What were_rect's operations do to the set of pixels, for all ints.       *)
(***************************************************************************)
EXTENDS Rect, TLAPS

(* What it means for a pixel to be in a rectangle. *)
LEMMA PixelMember ==
    ASSUME NEW r \in Rects, NEW x \in Int, NEW y \in Int
    PROVE  <<x, y>> \in Pixels(r) <=> r.x1 <= x /\ x < r.x2 /\ r.y1 <= y /\ y < r.y2
BY DEF Pixels, Rects

(* Pixels have whole coordinates. *)
LEMMA PixelsType ==
    ASSUME NEW r \in Rects
    PROVE  Pixels(r) \subseteq Int \X Int
BY DEF Pixels, Rects

(* expand() gives a rectangle. *)
LEMMA ExpandType ==
    ASSUME NEW r \in Rects, NEW q \in Rects
    PROVE  Expand(r, q) \in Rects
BY DEF Expand, Rects

(* limit() gives a rectangle. *)
LEMMA LimitType ==
    ASSUME NEW r \in Rects, NEW w \in Int, NEW h \in Int
    PROVE  Limit(r, w, h) \in Rects
BY DEF Limit, Rects

(* expand() loses no pixel of either rectangle, whatever their edges, inverted
   ones included, and although four zeros are taken for no damage. *)
THEOREM ExpandCovers ==
    ASSUME NEW r \in Rects, NEW q \in Rects
    PROVE  Pixels(r) \cup Pixels(q) \subseteq Pixels(Expand(r, q))
<1>1. SUFFICES ASSUME NEW p \in Int \X Int, p \in Pixels(r) \/ p \in Pixels(q)
               PROVE  p \in Pixels(Expand(r, q))
  BY PixelsType
<1>2. PICK x \in Int, y \in Int : p = <<x, y>>
  OBVIOUS
<1>3. Expand(r, q) \in Rects
  BY ExpandType
<1>4. CASE r = EmptyRect
  <2>1. p \notin Pixels(r)
    BY <1>2, <1>4, PixelMember DEF EmptyRect
  <2> QED
    BY <1>1, <1>4, <2>1 DEF Expand
<1>5. CASE r # EmptyRect
  <2>1. CASE p \in Pixels(r)
    BY <1>2, <1>3, <1>5, <2>1, PixelMember DEF Expand, Rects
  <2>2. CASE p \in Pixels(q)
    BY <1>2, <1>3, <1>5, <2>2, PixelMember DEF Expand, Rects
  <2> QED
    BY <1>1, <2>1, <2>2
<1> QED
  BY <1>4, <1>5

(* limit() cuts the rectangle down to the surface, and to nothing less: the
   pixels kept are exactly those inside the surface. *)
THEOREM LimitExact ==
    ASSUME NEW r \in Rects, NEW w \in Nat, NEW h \in Nat
    PROVE  Pixels(Limit(r, w, h)) = Pixels(r) \cap Pixels(Whole(w, h))
<1>1. Limit(r, w, h) \in Rects /\ Whole(w, h) \in Rects
  BY LimitType DEF Whole, Rects
<1>2. ASSUME NEW x \in Int, NEW y \in Int
      PROVE  <<x, y>> \in Pixels(Limit(r, w, h))
                <=> <<x, y>> \in Pixels(r) /\ <<x, y>> \in Pixels(Whole(w, h))
  BY <1>1, PixelMember DEF Limit, Whole, Rects
<1>3. /\ Pixels(Limit(r, w, h)) \subseteq Int \X Int
      /\ Pixels(r) \subseteq Int \X Int
  BY <1>1, PixelsType
<1> QED
  BY <1>2, <1>3

(* The damage slots take a request for what it means as long as its edges are
   ints. *)
THEOREM DamagedIsMeant ==
    ASSUME NEW d \in Requests, Fits(d)
    PROVE  Damaged(d) = Meant(d)
<1>1. ASSUME NEW a \in Int, NEW b \in Int, a + b \in (-IntMax - 1)..IntMax
      PROVE  Plus(a, b) = a + b
  <2> DEFINE c == a + b + IntMax + 1
             m == 2 * (IntMax + 1)
  <2>1. IntMax \in Nat
    BY RectAssumption
  <2>2. c \in Int /\ m \in Int /\ 0 <= c /\ c < m
    BY <1>1, <2>1
  <2>3. c % m = c
    BY <2>2
  <2> QED
    BY <2>1, <2>2, <2>3, <1>1 DEF Plus
<1>2. d.x \in Int /\ d.y \in Int /\ d.width \in Int /\ d.height \in Int
  BY DEF Requests
<1> QED
  BY <1>1, <1>2 DEF Damaged, Meant, Fits
=============================================================================
