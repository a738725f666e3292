---------------------------- MODULE MCApplication ----------------------------
(* Two activities, as when one is started while another is in the back       *)
(* stack, and a pipe that two chunks fill.                                   *)
EXTENDS Application
=============================================================================
