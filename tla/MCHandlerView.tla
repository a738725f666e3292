---------------------------- MODULE MCHandlerView ----------------------------
(* Handler with two posting threads and the loop's own thread, which posts
   from the calls it runs; View as in MCView.  They share no state: in each
   behaviour only one of them moves, so that their states are added and not
   multiplied. *)
EXTENDS Handler, MCView

VARIABLE moving     \* "handler" or "view"

\* A handler that rests has nothing to do; a view that rests has some settings.
HandlerViewInit ==
    /\ HandlerInit /\ Init
    /\ \/ moving = "handler" /\ ~no_damage_ /\ format_ = "RGBX"
       \/ moving = "view" /\ loop = "wait"

HandlerViewNext ==
    \/ moving = "handler" /\ HandlerNext /\ UNCHANGED <<vars, moving>>
    \/ moving = "view" /\ Next /\ UNCHANGED <<handlerVars, moving>>

HandlerViewSpec ==
    /\ HandlerViewInit
    /\ [][HandlerViewNext]_<<handlerVars, vars, moving>>
    /\ Fairness
=============================================================================
