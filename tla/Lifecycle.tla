------------------------------ MODULE Lifecycle ------------------------------
(***************************************************************************)
(* The life of the objects of one thread: were_new, were::connect,          *)
(* were::link, collapse() and the reference counts of were_pointer.         *)
(*                                                                         *)
(* collapse() emits the object's signal destroyed once.  The slots of that  *)
(* signal are the object's own clean-up, the collapse of the objects linked *)
(* to it, and the breakers that take connections away, each connection with *)
(* one breaker at its source and one at its context.  An emission goes      *)
(* through the list of connections as it was when the emission began, while *)
(* the slots change the lists, collapse further objects and drop the last   *)
(* references to objects, whose destructors collapse their parts in turn.   *)
(* So the calls are nested, and the model keeps their stack.                *)
(*                                                                         *)
(* Objects are numbered so that an object is linked only to a smaller one   *)
(* and is part only of a smaller one: the program's links and parts have no *)
(* cycle.  Nor do they meet: the program calls were::link with no object    *)
(* that another one collapses in its destructor.  If it did, disintegrate() *)
(* could be entered again (see NotEnteredAgain).                            *)
(***************************************************************************)
EXTENDS Naturals, Sequences

CONSTANTS
    N,                  \* bound: the number of objects
    Own,                \* the objects that connect destroyed to a slot of theirs
    MaxConnections      \* bound: connections made, the objects' own included

Objects == 1..N

ASSUME LifecycleAssumption ==
    /\ N \in Nat
    /\ Own \subseteq Objects
    /\ MaxConnections \in Nat

VARIABLES
    state,          \* "none", "integrated", "disintegrated" or "deleted"
    connections,    \* the connections that exist
    made,           \* how many connections were made
    held,           \* objects that something outside has a pointer to
    parts,          \* the objects an object has as members
    stack,          \* calls of disintegrate() and destructors, innermost first
    linked,         \* history: pairs of were::link
    cleanups        \* history: how often an object's own slot has run

vars == <<state, connections, made, held, parts, stack, linked, cleanups>>

\* What a connection does: the source's own clean-up, the collapse of the
\* context, or, for all signals but destroyed, something else.  Ids grow, so
\* they give the order in which connections were made.
Connection == [id: 1..MaxConnections, kind: {"own", "link", "other"},
               source: Objects, context: Objects]

Mentions(c) == {c.source, c.context}

-----------------------------------------------------------------------------
(* The signal destroyed *)

\* The slots that were::connect has added to destroyed of object o: for each
\* connection the call, if it connects destroyed itself, and the breaker.  An
\* object's connection to itself has two breakers there; the second finds
\* nothing left to remove, and one stands for both.
Destroyed(o) ==
    {e \in [does: {"call", "break"}, of: connections] :
        /\ o \in Mentions(e.of)
        /\ e.does = "call" => e.of.source = o /\ e.of.kind # "other"}

\* The order of the slots in the list: that of the connections, and a
\* connection's call before its breaker.
Before(d, e) ==
    \/ d.of.id < e.of.id
    \/ d.of.id = e.of.id /\ d.does = "call" /\ e.does = "break"

\* Frames of the stack: disintegrate(), which emits destroyed, and a
\* destructor, which collapses the parts.  An emission keeps the whole list
\* it goes through.
Disintegrating(o) ==
    [object |-> o, slots |-> Destroyed(o), todo |-> Destroyed(o),
     deleting |-> FALSE, left |-> {}]

Deleting(o) ==
    [object |-> o, slots |-> {}, todo |-> {}, deleting |-> TRUE, left |-> parts[o]]

\* The stack after a call of disintegrate(), which returns at once unless the
\* object is integrated.
Disintegrate(o, calls) ==
    IF state[o] = "integrated" THEN <<Disintegrating(o)>> \o calls ELSE calls

-----------------------------------------------------------------------------
(* Reference counts.  Pointers are kept by whoever made the object, by the
   object it is part of, by the connections, and by the calls in progress. *)

Frames(calls) == {calls[i] : i \in 1..Len(calls)}

Referenced(o) ==
    \/ o \in held
    \/ \E p \in Objects : state[p] \in {"integrated", "disintegrated"} /\ o \in parts[p]
    \/ \E c \in connections : o \in Mentions(c)
    \/ \E f \in Frames(stack) :
        \/ o = f.object
        \/ \E e \in f.slots : o \in Mentions(e.of)
        \/ o \in f.left

\* The last reference was dropped: unreference() deletes the object at once.
Unreferenced(o) == state[o] \in {"integrated", "disintegrated"} /\ ~Referenced(o)

Settled == \A o \in Objects : ~Unreferenced(o)

-----------------------------------------------------------------------------
(* What the program does from outside.  The stack is empty. *)

Idle == stack = <<>> /\ Settled

Fresh(kind, source, context) ==
    [id |-> made + 1, kind |-> kind, source |-> source, context |-> context]

\* Fault: the integrators run twice.
IntegrateTwice(o) ==
    IF o \in Own
    THEN /\ made + 2 <= MaxConnections
         /\ connections' = connections \cup
                {Fresh("own", o, o), [Fresh("own", o, o) EXCEPT !.id = @ + 1]}
         /\ made' = made + 2
    ELSE UNCHANGED <<connections, made>>

\* integrate(): the integrators connect the object's own slot.
Integrate(o) ==
    IF o \in Own
    THEN /\ made < MaxConnections
         /\ connections' = connections \cup {Fresh("own", o, o)}
         /\ made' = made + 1
    ELSE UNCHANGED <<connections, made>>

Parts == UNION {parts[o] : o \in Objects}

\* were_new, with members that were made before and are handed over.
Create(o, members) ==
    /\ Idle
    /\ state[o] = "none"
    /\ members \subseteq held
    /\ \A p \in members : o < p
    /\ \A q \in linked : q[1] \notin members /\ q[2] \notin members
    /\ state' = [state EXCEPT ![o] = "integrated"]
    /\ parts' = [parts EXCEPT ![o] = members]
    /\ held' = (held \ members) \cup {o}
    /\ Integrate(o)
    /\ UNCHANGED <<stack, linked, cleanups>>

\* were::connect of any signal but destroyed.  Connections of an object to
\* itself are broken like its own slot, so those stand for all of them.
Connect(source, context) ==
    /\ Idle
    /\ source # context
    /\ state[source] = "integrated" /\ state[context] = "integrated"
    /\ made < MaxConnections
    /\ connections' = connections \cup {Fresh("other", source, context)}
    /\ made' = made + 1
    /\ UNCHANGED <<state, held, parts, stack, linked, cleanups>>

\* Fault: were::link connects the other way round.
LinkReversed(first, second) ==
    /\ Idle
    /\ state[first] = "integrated" /\ state[second] = "integrated"
    /\ second < first
    /\ first \notin Parts /\ second \notin Parts
    /\ made < MaxConnections
    /\ connections' = connections \cup {Fresh("link", first, second)}
    /\ made' = made + 1
    /\ linked' = linked \cup {<<first, second>>}
    /\ UNCHANGED <<state, held, parts, stack, cleanups>>

\* were::link: first collapses when second does.
Link(first, second) ==
    /\ Idle
    /\ state[first] = "integrated" /\ state[second] = "integrated"
    /\ second < first
    /\ first \notin Parts /\ second \notin Parts
    /\ made < MaxConnections
    /\ connections' = connections \cup {Fresh("link", second, first)}
    /\ made' = made + 1
    /\ linked' = linked \cup {<<first, second>>}
    /\ UNCHANGED <<state, held, parts, stack, cleanups>>

\* A pointer outside goes out of scope.
Release(o) ==
    /\ Idle
    /\ o \in held
    /\ held' = held \ {o}
    /\ UNCHANGED <<state, connections, made, parts, stack, linked, cleanups>>

\* were_pointer::collapse, by whoever has a pointer to the object: that may be
\* the object it is part of, as when a surface takes another buffer.
Collapse(o) ==
    /\ Idle
    /\ state[o] = "integrated"
    /\ stack' = Disintegrate(o, stack)
    /\ UNCHANGED <<state, connections, made, held, parts, linked, cleanups>>

-----------------------------------------------------------------------------
(* The calls in progress *)

Top == Head(stack)

Outer == Tail(stack)

Emitting == stack # <<>> /\ Settled /\ ~Top.deleting

\* Slot e is the next one of the emission, and this is what it does.
HasSlot(e, does) ==
    /\ Emitting
    /\ e.does = does
    /\ \A d \in Top.todo : d = e \/ Before(e, d)

\* The stack when slot e is being called.
Advanced(e) == <<[Top EXCEPT !.todo = @ \ {e}]>> \o Outer

\* The object's own slot
CleanUp(e) ==
    /\ HasSlot(e, "call") /\ e.of.kind = "own"
    /\ cleanups' = [cleanups EXCEPT ![Top.object] = @ + 1]
    /\ stack' = Advanced(e)
    /\ UNCHANGED <<state, connections, made, held, parts, linked>>

\* Fault: the slot has the wrong pointer.
CollapseLinkedSource(e) ==
    /\ HasSlot(e, "call") /\ e.of.kind = "link"
    /\ stack' = Disintegrate(e.of.source, Advanced(e))
    /\ UNCHANGED <<state, connections, made, held, parts, linked, cleanups>>

\* Fault: disintegrate() throws if the object is not integrated.
CollapseLinkedThrows(e) ==
    /\ HasSlot(e, "call") /\ e.of.kind = "link"
    /\ state[e.of.context] = "integrated"
    /\ stack' = Disintegrate(e.of.context, Advanced(e))
    /\ UNCHANGED <<state, connections, made, held, parts, linked, cleanups>>

\* The slot of were::link
CollapseLinked(e) ==
    /\ HasSlot(e, "call") /\ e.of.kind = "link"
    /\ stack' = Disintegrate(e.of.context, Advanced(e))
    /\ UNCHANGED <<state, connections, made, held, parts, linked, cleanups>>

\* Fault: a breaker does not remove the connection that calls the slot.
BreakNothing(e) ==
    /\ HasSlot(e, "break")
    /\ stack' = Advanced(e)
    /\ UNCHANGED <<state, connections, made, held, parts, linked, cleanups>>

\* were_breaker
Break(e) ==
    /\ HasSlot(e, "break")
    /\ connections' = connections \ {e.of}
    /\ stack' = Advanced(e)
    /\ UNCHANGED <<state, made, held, parts, linked, cleanups>>

\* disintegrate() returns.
Return ==
    /\ Emitting
    /\ Top.todo = {}
    /\ state' = [state EXCEPT ![Top.object] = "disintegrated"]
    /\ stack' = Outer
    /\ UNCHANGED <<connections, made, held, parts, linked, cleanups>>

\* delete, as soon as the last reference is dropped
Delete(o) ==
    /\ Unreferenced(o)
    /\ state' = [state EXCEPT ![o] = "deleted"]
    /\ stack' = <<Deleting(o)>> \o stack
    /\ UNCHANGED <<connections, made, held, parts, linked, cleanups>>

\* The destructor collapses its parts and returns.  Its pointer to a part lasts to
\* the end of the destructor in the code, and ends with the collapse here: the
\* part is deleted a little earlier, which no property tells apart.
Destructor ==
    /\ stack # <<>> /\ Settled /\ Top.deleting
    /\ \/ \E p \in Top.left :
            stack' = Disintegrate(p, <<[Top EXCEPT !.left = @ \ {p}]>> \o Outer)
       \/ Top.left = {} /\ stack' = Outer
    /\ UNCHANGED <<state, connections, made, held, parts, linked, cleanups>>

-----------------------------------------------------------------------------
Init ==
    /\ state = [o \in Objects |-> "none"]
    /\ connections = {}
    /\ made = 0
    /\ held = {}
    /\ parts = [o \in Objects |-> {}]
    /\ stack = <<>>
    /\ linked = {}
    /\ cleanups = [o \in Objects |-> 0]

Calls ==
    \/ stack # <<>> /\ \E e \in Top.todo : CleanUp(e) \/ CollapseLinked(e) \/ Break(e)
    \/ Return
    \/ \E o \in Objects : Delete(o)
    \/ Destructor

Next ==
    \/ \E o \in Objects : \E members \in SUBSET held : Create(o, members)
    \/ \E o, p \in Objects : Connect(o, p) \/ Link(o, p)
    \/ \E o \in Objects : Release(o) \/ Collapse(o)
    \/ Calls

Spec == Init /\ [][Next]_vars

\* A call that is in progress goes on.
FairSpec == Spec /\ WF_vars(Calls)

-----------------------------------------------------------------------------
(* Properties *)

Slot == [does: {"call", "break"}, of: Connection]

Frame == [object: Objects, slots: SUBSET Slot, todo: SUBSET Slot,
          deleting: BOOLEAN, left: SUBSET Objects]

TypeOK ==
    /\ state \in [Objects -> {"none", "integrated", "disintegrated", "deleted"}]
    /\ connections \subseteq Connection
    /\ made \in 0..MaxConnections
    /\ held \subseteq Objects
    /\ parts \in [Objects -> SUBSET Objects]
    /\ stack \in Seq(Frame)
    /\ linked \subseteq Objects \X Objects
    /\ cleanups \in [Objects -> Nat]

\* However the collapses of linked objects and of parts are nested, an object
\* is cleaned up once, and never deleted without.
CleanedUpOnce ==
    \A o \in Objects :
        /\ cleanups[o] <= 1
        /\ o \in Own /\ state[o] \in {"disintegrated", "deleted"} => cleanups[o] = 1

\* disintegrate() of an object is not entered again while it is in progress,
\* which its state, set at the end, would not prevent.
NotEnteredAgain ==
    \A i, j \in 1..Len(stack) :
        stack[i].object = stack[j].object /\ ~stack[i].deleting /\ ~stack[j].deleting
        => i = j

\* When a collapse has returned, every object linked to a collapsed one, and
\* every part of a deleted one, is collapsed too.
CascadeComplete ==
    Idle =>
        /\ \A q \in linked : state[q[2]] # "integrated" => state[q[1]] # "integrated"
        /\ \A o \in Objects : state[o] = "deleted" =>
            \A p \in parts[o] : state[p] # "integrated"

\* When a collapse has returned, no connection refers to an object that is
\* collapsed: it lives as long as pointers outside say, and is not leaked.
CollapsedIsFree ==
    Idle => \A c \in connections : \A o \in Mentions(c) : state[o] = "integrated"

\* A cascade of collapses comes to an end.
CascadeEnds == []<>(stack = <<>>)
=============================================================================
