------------------------------- MODULE Handler -------------------------------
(***************************************************************************)
(* were_handler: the mutex-protected call queue of an event-loop thread and *)
(* the eventfd that wakes the loop up (were/were_handler.cpp), together     *)
(* with the part of were_thread and were_fd that turns a write to the       *)
(* eventfd into a run of process_queue.                                     *)
(*                                                                         *)
(* The eventfd is registered with EPOLLIN | EPOLLET.  Edge triggering is    *)
(* the kernel's ready list: a write puts the descriptor on the list, and    *)
(* epoll_wait takes it off, reporting EPOLLIN only if the counter is not 0  *)
(* at that moment.  A wake-up that is consumed is not repeated, so a call   *)
(* whose wake-up is lost stays in the queue until somebody else posts.      *)
(***************************************************************************)
EXTENDS Naturals, Sequences

CONSTANTS
    Posters,        \* threads other than the loop's that call post()
    Loop,           \* the thread that owns the handler
    NoThread,       \* the mutex is free
    MaxPosts        \* bound: how many calls one thread posts

ASSUME HandlerAssumption ==
    /\ Loop \notin Posters
    /\ NoThread \notin Posters \cup {Loop}
    /\ MaxPosts \in Nat

Threads == Posters \cup {Loop}

\* A posted std::function, identified by who posted it and as which one.
Call == Threads \X (1..MaxPosts)

VARIABLES
    queue,          \* call_queue_
    mutex,          \* who holds call_queue_mutex_
    counter,        \* the eventfd's counter
    ready,          \* the eventfd is on epoll's ready list
    loop,           \* where the loop's thread is
    post,           \* where a thread is in post()
    npost,          \* how many calls a thread has posted or begun to post
    ran             \* history: the calls started so far, in order

handlerVars == <<queue, mutex, counter, ready, loop, post, npost, ran>>

-----------------------------------------------------------------------------
(* were_handler::post *)

\* The loop's thread posts from a call it is running or from another
\* descriptor's event; the others post at any time.
MayPost(t) == t = Loop => loop \in {"wait", "call"}

\* post() is entered: from a queued connection or from the audio callback.
PostCall(t) ==
    /\ post[t] = "idle"
    /\ MayPost(t)
    /\ npost[t] < MaxPosts
    /\ post' = [post EXCEPT ![t] = "lock"]
    /\ npost' = [npost EXCEPT ![t] = @ + 1]
    /\ UNCHANGED <<queue, mutex, counter, ready, loop, ran>>

PostLock(t) ==
    /\ post[t] = "lock"
    /\ mutex = NoThread
    /\ mutex' = t
    /\ post' = [post EXCEPT ![t] = "push"]
    /\ UNCHANGED <<queue, counter, ready, loop, npost, ran>>

\* Fault: the call is pushed under the number of the thread's previous one.
PostPushStaleIndex(t) ==
    /\ post[t] = "push"
    /\ queue' = Append(queue, <<t, npost[t] - 1>>)
    /\ mutex' = NoThread
    /\ post' = [post EXCEPT ![t] = "write"]
    /\ UNCHANGED <<counter, ready, loop, npost, ran>>

\* Fault: the call enters the queue at the end it leaves from.
PostPushFront(t) ==
    /\ post[t] = "push"
    /\ queue' = <<<<t, npost[t]>>>> \o queue
    /\ mutex' = NoThread
    /\ post' = [post EXCEPT ![t] = "write"]
    /\ UNCHANGED <<counter, ready, loop, npost, ran>>

PostPush(t) ==
    /\ post[t] = "push"
    /\ queue' = Append(queue, <<t, npost[t]>>)
    /\ mutex' = NoThread
    /\ post' = [post EXCEPT ![t] = "write"]
    /\ UNCHANGED <<counter, ready, loop, npost, ran>>

\* The eventfd write, outside of the mutex.  It wakes the loop up.
PostWrite(t) ==
    /\ post[t] = "write"
    /\ counter' = counter + 1
    /\ ready' = TRUE
    /\ post' = [post EXCEPT ![t] = "idle"]
    /\ UNCHANGED <<queue, mutex, loop, npost, ran>>

-----------------------------------------------------------------------------
(* The loop: were_thread::process_events, were_fd::event_, the data_in slot
   and were_handler::process_queue *)

\* epoll_wait looks at the descriptor on its ready list.  With the counter at
\* 0 it has no event to report: it drops the descriptor and goes on waiting.
EpollWait ==
    /\ loop = "wait"
    /\ post[Loop] = "idle"
    /\ ready
    /\ ready' = FALSE
    /\ loop' = IF counter > 0 THEN "read" ELSE "wait"
    /\ UNCHANGED <<queue, mutex, counter, post, npost, ran>>

\* The read of a blocking eventfd: it waits for a counter other than 0.
ReadCounter ==
    /\ loop = "read"
    /\ counter > 0
    /\ counter' = 0
    /\ loop' = "lock"
    /\ UNCHANGED <<queue, mutex, ready, post, npost, ran>>

QueueLock ==
    /\ loop = "lock"
    /\ mutex = NoThread
    /\ mutex' = Loop
    /\ loop' = "test"
    /\ UNCHANGED <<queue, counter, ready, post, npost, ran>>

\* Fault: the mutex is kept while the call runs.
QueuePopLocked ==
    /\ loop = "test"
    /\ queue # <<>>
    /\ queue' = Tail(queue)
    /\ ran' = Append(ran, Head(queue))
    /\ loop' = "call"
    /\ UNCHANGED <<mutex, counter, ready, post, npost>>

\* The queue has a call: take it off, release the mutex, start the call.
QueuePop ==
    /\ loop = "test"
    /\ queue # <<>>
    /\ queue' = Tail(queue)
    /\ ran' = Append(ran, Head(queue))
    /\ mutex' = NoThread
    /\ loop' = "call"
    /\ UNCHANGED <<counter, ready, post, npost>>

\* Fault: an if instead of the while, one call per wake-up.
CallReturnOnce ==
    /\ loop = "call"
    /\ post[Loop] = "idle"
    /\ loop' = "wait"
    /\ UNCHANGED <<queue, mutex, counter, ready, post, npost, ran>>

\* Fault: the eventfd is read once for every call.
CallReturnRereads ==
    /\ loop = "call"
    /\ post[Loop] = "idle"
    /\ loop' = "read"
    /\ UNCHANGED <<queue, mutex, counter, ready, post, npost, ran>>

\* The call is over; the while loop takes the mutex again.
CallReturn ==
    /\ loop = "call"
    /\ post[Loop] = "idle"
    /\ loop' = "lock"
    /\ UNCHANGED <<queue, mutex, counter, ready, post, npost, ran>>

\* The queue is empty: process_queue returns to the event loop.
QueueEmpty ==
    /\ loop = "test"
    /\ queue = <<>>
    /\ mutex' = NoThread
    /\ loop' = "wait"
    /\ UNCHANGED <<queue, counter, ready, post, npost, ran>>

-----------------------------------------------------------------------------
\* The X11 program enters run() directly; the Android application calls
\* process_queue() once before the looper takes over.
HandlerInit ==
    /\ queue = <<>>
    /\ mutex = NoThread
    /\ counter = 0
    /\ ready = FALSE
    /\ loop \in {"wait", "lock"}
    /\ post = [t \in Threads |-> "idle"]
    /\ npost = [t \in Threads |-> 0]
    /\ ran = <<>>

InPost(t) == PostLock(t) \/ PostPush(t) \/ PostWrite(t)

PostNext(t) == PostCall(t) \/ InPost(t)

LoopNext ==
    \/ EpollWait
    \/ ReadCounter
    \/ QueueLock
    \/ QueuePop
    \/ CallReturn
    \/ QueueEmpty

HandlerNext == LoopNext \/ \E t \in Threads : PostNext(t)

\* The loop's thread runs and the calls it makes return; a thread inside
\* post() is scheduled until it leaves.  Nobody is obliged to post.
Fairness ==
    /\ WF_handlerVars(LoopNext)
    /\ \A t \in Threads : WF_handlerVars(InPost(t))

HandlerSpec == HandlerInit /\ [][HandlerNext]_handlerVars

HandlerFairSpec == HandlerSpec /\ Fairness

-----------------------------------------------------------------------------
(* Properties *)

HandlerTypeOK ==
    /\ queue \in Seq(Call)
    /\ mutex \in Threads \cup {NoThread}
    /\ counter \in Nat
    /\ ready \in BOOLEAN
    /\ loop \in {"wait", "read", "lock", "test", "call"}
    /\ post \in [Threads -> {"idle", "lock", "push", "write"}]
    /\ npost \in [Threads -> 0..MaxPosts]
    /\ ran \in Seq(Call)

\* No lost wake-up (were_handler.cpp, post and process_queue): whenever the
\* loop is about to sleep in epoll_wait with a call in the queue, the eventfd
\* will wake it, or a poster is still on its way to the eventfd.
NoLostWakeup ==
    loop = "wait" /\ queue # <<>> =>
        \/ ready /\ counter > 0
        \/ \E t \in Threads : post[t] = "write"

\* The data_in slot of were_handler reads a blocking eventfd on the loop's
\* thread: the read never finds the counter at 0, which would hang every
\* descriptor of the thread.  An edge left over from a write that an earlier
\* read consumed must therefore never be reported.
NoBlockingRead == loop = "read" => counter > 0

\* The handler keeps the promise of CallQueue: calls are started in the order
\* of their push, each once.  The calls started and those still queued are,
\* in that order, the calls posted.
Queue == INSTANCE CallQueue WITH
    Calls <- Call, log <- ran \o queue, started <- Len(ran)

StartsInOrder == Queue!SafeSpec

\* ... and, the loop being scheduled, none is left behind: every call that
\* was pushed is started (were_handler.cpp, process_queue).
StartsEventually == Queue!Spec

\* Every thread that enters post() leaves it.  process_queue must not keep
\* the mutex while it runs a call: the call may itself post.
PostReturns == \A t \in Threads : post[t] # "idle" ~> post[t] = "idle"
=============================================================================
