-------------------------------- MODULE Rect --------------------------------
(***************************************************************************)
(* were_rect<int>: the damage a consumer of a surface collects between two  *)
(* updates.  The rectangle holds the pixels from (x1, y1) up to and without *)
(* (x2, y2); four zeros stand for no damage.                                *)
(***************************************************************************)
EXTENDS Integers

CONSTANT IntMax     \* the largest int, 2^31 - 1 in the program

ASSUME RectAssumption == IntMax \in Nat

Rects == [x1: Int, y1: Int, x2: Int, y2: Int]

EmptyRect == [x1 |-> 0, y1 |-> 0, x2 |-> 0, y2 |-> 0]

\* Fault: the rectangle is replaced.
ExpandReplaces(r, q) == q

\* expand()
Expand(r, q) ==
    IF r = EmptyRect THEN q
    ELSE [x1 |-> IF q.x1 < r.x1 THEN q.x1 ELSE r.x1,
          y1 |-> IF q.y1 < r.y1 THEN q.y1 ELSE r.y1,
          x2 |-> IF q.x2 > r.x2 THEN q.x2 ELSE r.x2,
          y2 |-> IF q.y2 > r.y2 THEN q.y2 ELSE r.y2]

\* limit(): only the left and top edges are kept from below, only the right
\* and bottom edges from above.
Limit(r, width, height) ==
    [x1 |-> IF r.x1 < 0 THEN 0 ELSE r.x1,
     y1 |-> IF r.y1 < 0 THEN 0 ELSE r.y1,
     x2 |-> IF r.x2 > width THEN width ELSE r.x2,
     y2 |-> IF r.y2 > height THEN height ELSE r.y2]

\* The rectangle of a whole width x height surface.
Whole(width, height) == [x1 |-> 0, y1 |-> 0, x2 |-> width, y2 |-> height]

\* Addition of two ints, which wraps around on the machines this runs on.
Plus(a, b) == ((a + b + IntMax + 1) % (2 * (IntMax + 1))) - IntMax - 1

\* A damage request, and the rectangle the damage slots make of it.
Requests == [x: Int, y: Int, width: Int, height: Int]

Damaged(d) == [x1 |-> d.x, y1 |-> d.y,
               x2 |-> Plus(d.x, d.width), y2 |-> Plus(d.y, d.height)]

\* What the request means.
Meant(d) == [x1 |-> d.x, y1 |-> d.y, x2 |-> d.x + d.width, y2 |-> d.y + d.height]

\* The request's right and bottom edges are ints.
Fits(d) == /\ d \in Requests
           /\ d.x + d.width \in (-IntMax - 1)..IntMax
           /\ d.y + d.height \in (-IntMax - 1)..IntMax

Pixels(r) == (r.x1 .. r.x2 - 1) \X (r.y1 .. r.y2 - 1)
=============================================================================
