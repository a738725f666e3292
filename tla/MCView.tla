------------------------------- MODULE MCView -------------------------------
(* View with a view of 2 x 2 pixels, ints up to 7, and two other sizes. *)
EXTENDS View

MCSizes == {<<2, 2>>, <<3, 2>>, <<1, 3>>}

\* Rows begin at even distances, but for those of the widest.
MCStride == [sz \in MCSizes |-> IF sz[1] = 3 THEN 3 ELSE 2]

MCInitialSize == <<2, 2>>

Request(x, y, w, h) == [x |-> x, y |-> y, width |-> w, height |-> h]

\* All of it, as clients say it; one pixel; across the left edge; across the
\* bottom; outside of the smaller ones; and with a right edge beyond the ints.
MCDamages == {Request(0, 0, 7, 7), Request(1, 1, 1, 1), Request(-1, 0, 2, 1),
              Request(0, 1, 1, 5), Request(2, 0, 1, 1), Request(1, 0, 7, 1)}
=============================================================================
