---------------------------- MODULE MCX11Surface ----------------------------
(* X11Surface with windows of a few pixels and ints up to 7. *)
EXTENDS X11Surface

MCSizes == {<<2, 2>>, <<3, 2>>, <<1, 3>>}

MCInitialSize == <<2, 2>>

Request(x, y, w, h) == [x |-> x, y |-> y, width |-> w, height |-> h]

\* All of it, as clients say it; one pixel, outside of the smaller surfaces;
\* across the left edge; across the bottom; with a right edge beyond the ints.
MCDamages == {Request(0, 0, 7, 7), Request(2, 1, 1, 1), Request(-1, 0, 2, 1),
              Request(0, 1, 1, 5), Request(1, 0, 7, 1)}

\* One pixel, outside of the smaller surfaces.
MCOutside == {Request(2, 1, 1, 1)}
=============================================================================
