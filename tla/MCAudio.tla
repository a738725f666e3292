------------------------------- MODULE MCAudio -------------------------------
(* Audio with a ring of two bytes, all of which can be written or played at once:
   after a single byte, a write of two and a play of two stop at its end. *)
EXTENDS Audio
=============================================================================
