------------------------------ MODULE MCSurface ------------------------------
(* Surface with two surfaces that may share two buffers. *)
EXTENDS Surface, TLC

\* Surfaces, buffers and callbacks are interchangeable.
Symmetry == Permutations(Surfaces) \cup Permutations(Buffers) \cup Permutations(Callbacks)
=============================================================================
