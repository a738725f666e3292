------------------------------ MODULE CallQueue ------------------------------
(***************************************************************************)
(* What a were_handler promises to the threads that post to it: the calls   *)
(* are started one after the other, in the order in which they entered the  *)
(* queue, each exactly once, and none is left behind.                       *)
(*                                                                         *)
(* The k-th call to be posted is log[k] and the k-th call to be started is  *)
(* the same one, so the state only has to say how many were started.        *)
(***************************************************************************)
EXTENDS Naturals, Sequences

CONSTANT Calls      \* the calls that may be posted

VARIABLES
    log,            \* every call posted so far, in posting order
    started         \* how many of them the handler's thread has started

vars == <<log, started>>

Init ==
    /\ log = <<>>
    /\ started = 0

\* were_handler::post
Post ==
    /\ \E c \in Calls : log' = Append(log, c)
    /\ UNCHANGED started

\* were_handler::process_queue starts the next call
Start ==
    /\ started < Len(log)
    /\ started' = started + 1
    /\ UNCHANGED log

Next == Post \/ Start

\* Calls are posted and started as described.
SafeSpec == Init /\ [][Next]_vars

\* In addition, a posted call is not left behind.
Spec == SafeSpec /\ WF_vars(Start)
=============================================================================
