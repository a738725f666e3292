---------------------------- MODULE MCEventLoop ----------------------------
(* EventLoop with two clients and batches of up to three events. *)
EXTENDS EventLoop
=============================================================================
