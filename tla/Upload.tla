------------------------------- MODULE Upload -------------------------------
(***************************************************************************)
(* were_upload: which pixels of the destination get the pixel of the source *)
(* at the same place.  uploader_0 copies rows of bytes.  uploader_2, which  *)
(* exchanges red and blue, handles two pixels at a time: it starts and ends *)
(* at even columns, and takes rows to begin at even distances.  Strides are *)
(* in pixels; the stride of the destination, which Android chooses, is even. *)
(***************************************************************************)
EXTENDS Rect

\* uploader_0
Copied(r) == Pixels(r)

\* The loop of uploader_2 over x, in pixels
PairColumns(r) == 2 * (r.x1 \div 2) .. 2 * ((r.x2 + 1) \div 2) - 1

\* The distance from the source's start of what uploader_2 takes for (x, y)
PairSource(stride, x, y) == 2 * ((4 * stride * y) \div 8 + x \div 2) + (x % 2)

\* uploader_2
Converted(r, stride) ==
    {p \in PairColumns(r) \X (r.y1 .. r.y2 - 1) :
        PairSource(stride, p[1], p[2]) = stride * p[2] + p[1]}
=============================================================================
