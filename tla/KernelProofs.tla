---------------------------- MODULE KernelProofs ----------------------------
(*                                                                         *)
(* Handler, for any set of posting threads and any number of posts: its     *)
(* type invariant, the absence of lost wake-ups and of blocking reads, and  *)
(* that it implements the safety part of CallQueue.                         *)
(***************************************************************************)
(* The kernel that the program is built on: objects and calls between       *)
(* threads.                                                                 *)
(*                                                                         *)
(* Lifecycle, for any number of objects and connections: an object is       *)
(* cleaned up once and never deleted without, disintegrate() is not entered *)
(* again while it is in progress, a cascade of collapses is complete, and   *)
(* no connection outlives the objects it connects.                          *)
(*                                                                         *)
(* The argument is about the stack of calls.  A frame is disintegrate() of  *)
(* an object, which emits destroyed, or a destructor.  Frames of linked     *)
(* objects lie on frames of smaller linked objects only, and disintegrate() *)
(* of a part runs no further call at all: its slots end no reference that   *)
(* its own list of slots does not keep.  The rest of the invariant says     *)
(* what the slots that are still to be called will do.                      *)
(***************************************************************************)
EXTENDS Lifecycle, Handler, SequenceTheorems, TLAPS

-----------------------------------------------------------------------------
(* The invariant *)

\* Call f may run inside of call g: g is not disintegrate() of a part, and a
\* linked object is collapsed only by disintegrate() of a smaller one.
Within(f, g, members) ==
    /\ ~g.deleting => g.object \notin members
    /\ ~f.deleting /\ f.object \notin members => ~g.deleting /\ g.object < f.object

Nested(calls, members) ==
    \A i, j \in 1..Len(calls) : i < j => Within(calls[i], calls[j], members)

\* disintegrate() of o is in progress.
Collapsing(o) == \E f \in Frames(stack) : ~f.deleting /\ f.object = o

LinksOK ==
    \A q \in linked :
        /\ q[2] < q[1]
        /\ q[1] \notin Parts /\ q[2] \notin Parts
        /\ state[q[1]] # "none" /\ state[q[2]] # "none"

PartsOK ==
    /\ \A o \in held : state[o] # "none"
    /\ \A o \in Parts : state[o] # "none"

ConnectionOK(c) ==
    /\ c.kind = "own" => c.source = c.context /\ c.source \in Own
    /\ c.kind = "link" => <<c.context, c.source>> \in linked

\* Connections are of the three kinds, and an object has one slot of its own.
ConnectionsOK ==
    /\ \A c \in connections : ConnectionOK(c)
    /\ \A c, d \in connections :
        c.kind = "own" /\ d.kind = "own" /\ c.source = d.source => c = d

OwnCall(e) == e.does = "call" /\ e.of.kind = "own"

SlotOK(e, o) ==
    /\ ConnectionOK(e.of)
    /\ o \in Mentions(e.of)
    /\ e.does = "call" => e.of.source = o /\ e.of.kind # "other"

FrameOK(f) ==
    /\ f.todo \subseteq f.slots
    /\ f.deleting =>
        state[f.object] = "deleted" /\ f.slots = {} /\ f.left \subseteq parts[f.object]
    /\ ~f.deleting => state[f.object] = "integrated" /\ f.left = {}
    /\ \A e \in f.slots : SlotOK(e, f.object)
    /\ \A d, e \in f.slots : OwnCall(d) /\ OwnCall(e) => d = e

FramesOK == \A f \in Frames(stack) : FrameOK(f)

Nesting == Nested(stack, Parts)

\* While disintegrate() of a part runs, no reference ends.
PartsSettled ==
    stack # <<>> /\ ~Top.deleting /\ Top.object \in Parts => Settled

\* An object's own slot has run if it is collapsed, and not if it is not.
CleanUpsOK ==
    \A o \in Objects :
        /\ o \notin Own => cleanups[o] = 0
        /\ o \in Own =>
            /\ state[o] = "none" => cleanups[o] = 0
            /\ state[o] = "integrated" /\ ~Collapsing(o) =>
                /\ cleanups[o] = 0
                /\ \E c \in connections : c.kind = "own" /\ c.source = o
            /\ state[o] \in {"disintegrated", "deleted"} => cleanups[o] = 1

\* While the object is collapsing its own slot has run or is still to be called.
EmissionsClean ==
    \A f \in Frames(stack) : ~f.deleting /\ f.object \in Own =>
        \/ cleanups[f.object] = 0 /\ \E e \in f.todo : OwnCall(e)
        \/ cleanups[f.object] = 1 /\ \A e \in f.todo : ~OwnCall(e)

\* A connection's ends are not collapsed, and an end that is collapsing is
\* going to break it.
ConnectionsBroken ==
    \A c \in connections : \A o \in Mentions(c) :
        /\ state[o] = "integrated"
        /\ \A f \in Frames(stack) : ~f.deleting /\ f.object = o =>
            [does |-> "break", of |-> c] \in f.todo

IsLink(c, first, second) ==
    c.kind = "link" /\ c.source = second /\ c.context = first

\* If first is linked to second and is not collapsed, it is collapsing, or the
\* link still stands, or second is collapsing and is going to collapse first.
LinkPending(first, second) ==
    \/ Collapsing(first)
    \/ ~Collapsing(second) /\ \E c \in connections : IsLink(c, first, second)
    \/ \E f \in Frames(stack) :
        /\ ~f.deleting /\ f.object = second
        /\ \E e \in f.todo : e.does = "call" /\ IsLink(e.of, first, second)

LinksPending ==
    \A q \in linked : state[q[1]] = "integrated" => LinkPending(q[1], q[2])

\* A part of a deleted object is collapsed, is collapsing, or its owner's
\* destructor is going to collapse it.
PartsPending ==
    \A o, p \in Objects :
        state[o] = "deleted" /\ p \in parts[o] /\ state[p] = "integrated" =>
            \/ Collapsing(p)
            \/ \E f \in Frames(stack) : f.deleting /\ f.object = o /\ p \in f.left

IndInv ==
    /\ TypeOK
    /\ LinksOK
    /\ PartsOK
    /\ ConnectionsOK
    /\ FramesOK
    /\ Nesting
    /\ PartsSettled
    /\ CleanUpsOK
    /\ EmissionsClean
    /\ ConnectionsBroken
    /\ LinksPending
    /\ PartsPending

-----------------------------------------------------------------------------
(* Stacks *)

\* A call is entered.
LEMMA PushFrame ==
    ASSUME NEW f \in Frame, NEW calls \in Seq(Frame)
    PROVE  LET pushed == <<f>> \o calls IN
           /\ pushed \in Seq(Frame)
           /\ pushed # <<>>
           /\ Head(pushed) = f
           /\ Len(pushed) = Len(calls) + 1
           /\ pushed[1] = f
           /\ \A i \in 1..Len(calls) : pushed[i + 1] = calls[i]
           /\ \A i \in 2..Len(pushed) : i - 1 \in 1..Len(calls) /\ pushed[i] = calls[i - 1]
           /\ Frames(pushed) = {f} \cup Frames(calls)
<1> DEFINE pushed == <<f>> \o calls
<1>1. /\ pushed \in Seq(Frame)
      /\ Len(pushed) = Len(calls) + 1
      /\ Len(calls) \in Nat
      /\ pushed[1] = f
      /\ \A i \in 1..Len(calls) : pushed[i + 1] = calls[i]
    OBVIOUS
<1>2. pushed # <<>>
    BY <1>1
<1>3. Head(pushed) = f
    BY <1>1, <1>2
<1>4. \A i \in 2..Len(pushed) : i - 1 \in 1..Len(calls) /\ pushed[i] = calls[i - 1]
    <2> SUFFICES ASSUME NEW i \in 2..Len(pushed)
                 PROVE  i - 1 \in 1..Len(calls) /\ pushed[i] = calls[i - 1]
        OBVIOUS
    <2>1. i \in Int /\ 2 <= i /\ i <= Len(calls) + 1
        BY <1>1
    <2>2. i - 1 \in 1..Len(calls) /\ (i - 1) + 1 = i
        BY <1>1, <2>1
    <2> QED BY <1>1, <2>2
<1>5. Frames(pushed) = {f} \cup Frames(calls)
    <2>1. ASSUME NEW g \in Frames(pushed) PROVE g \in {f} \cup Frames(calls)
        <3>1. PICK i \in 1..Len(pushed) : g = pushed[i]
            BY <2>1 DEF Frames
        <3>2. CASE i = 1
            BY <1>1, <3>1, <3>2
        <3>3. CASE i # 1
            <4>1. i \in 2..Len(pushed)
                BY <1>1, <3>3
            <4> QED BY <1>4, <3>1, <4>1 DEF Frames
        <3> QED BY <3>2, <3>3
    <2>2. f \in Frames(pushed)
        <3>1. 1 \in 1..Len(pushed)
            BY <1>1
        <3> QED BY <1>1, <3>1 DEF Frames
    <2>3. ASSUME NEW g \in Frames(calls) PROVE g \in Frames(pushed)
        <3>1. PICK i \in 1..Len(calls) : g = calls[i]
            BY <2>3 DEF Frames
        <3>2. i + 1 \in 1..Len(pushed)
            BY <1>1
        <3> QED BY <1>1, <3>1, <3>2 DEF Frames
    <2> QED BY <2>1, <2>2, <2>3
<1> QED BY <1>1, <1>2, <1>3, <1>4, <1>5

\* A call returns.
LEMMA PopFrame ==
    ASSUME NEW calls \in Seq(Frame), calls # <<>>
    PROVE  /\ Head(calls) \in Frame
           /\ Tail(calls) \in Seq(Frame)
           /\ calls = <<Head(calls)>> \o Tail(calls)
           /\ Frames(calls) = {Head(calls)} \cup Frames(Tail(calls))
<1>1. Head(calls) \in Frame /\ Tail(calls) \in Seq(Frame)
    BY HeadTailProperties
<1>2. calls = <<Head(calls)>> \o Tail(calls)
    <2>1. /\ Len(calls) \in Nat /\ Len(calls) # 0 /\ Head(calls) = calls[1]
          /\ Len(Tail(calls)) = Len(calls) - 1
          /\ \A i \in 1..(Len(calls) - 1) : Tail(calls)[i] = calls[i + 1]
        OBVIOUS
    <2> QED BY <1>1, <2>1, ConcatProperties, SMTT(30)
<1> QED BY <1>1, <1>2, PushFrame

\* No call is in progress.
LEMMA NoFrames == Frames(<<>>) = {}
BY DEF Frames

\* Entering a call that may run inside of the others keeps the stack nested.
LEMMA NestedPush ==
    ASSUME NEW f \in Frame, NEW calls \in Seq(Frame), NEW members,
           Nested(calls, members), \A g \in Frames(calls) : Within(f, g, members)
    PROVE  Nested(<<f>> \o calls, members)
<1> DEFINE pushed == <<f>> \o calls
<1> SUFFICES ASSUME NEW i \in 1..Len(pushed), NEW j \in 1..Len(pushed), i < j
             PROVE  Within(pushed[i], pushed[j], members)
    BY DEF Nested
<1>1. /\ Len(pushed) = Len(calls) + 1 /\ Len(calls) \in Nat /\ pushed[1] = f
      /\ \A k \in 2..Len(pushed) : k - 1 \in 1..Len(calls) /\ pushed[k] = calls[k - 1]
    BY PushFrame
<1>2. j \in 2..Len(pushed)
    BY <1>1
<1>3. j - 1 \in 1..Len(calls) /\ pushed[j] = calls[j - 1]
    BY <1>1, <1>2
<1>4. CASE i = 1
    BY <1>1, <1>3, <1>4 DEF Frames
<1>5. CASE i # 1
    <2>1. i \in 2..Len(pushed)
        BY <1>1, <1>5
    <2>2. i - 1 \in 1..Len(calls) /\ pushed[i] = calls[i - 1]
        BY <1>1, <2>1
    <2>3. i - 1 < j - 1
        BY <1>1
    <2> QED BY <1>3, <2>2, <2>3 DEF Nested
<1> QED BY <1>4, <1>5

\* What a nested stack says of its innermost call, and of the others.
LEMMA NestedPop ==
    ASSUME NEW f \in Frame, NEW calls \in Seq(Frame), NEW members,
           Nested(<<f>> \o calls, members)
    PROVE  /\ Nested(calls, members)
           /\ \A g \in Frames(calls) : Within(f, g, members)
<1> DEFINE pushed == <<f>> \o calls
<1>1. /\ Len(pushed) = Len(calls) + 1 /\ Len(calls) \in Nat /\ pushed[1] = f
      /\ \A i \in 1..Len(calls) : pushed[i + 1] = calls[i]
    BY PushFrame
<1>2. ASSUME NEW i \in 1..Len(calls), NEW j \in 1..Len(calls), i < j
      PROVE  Within(calls[i], calls[j], members)
    <2>1. i + 1 \in 1..Len(pushed) /\ j + 1 \in 1..Len(pushed) /\ i + 1 < j + 1
        BY <1>1, <1>2
    <2> QED BY <1>1, <2>1 DEF Nested
<1>3. ASSUME NEW g \in Frames(calls) PROVE Within(f, g, members)
    <2>1. PICK i \in 1..Len(calls) : g = calls[i]
        BY <1>3 DEF Frames
    <2>2. 1 \in 1..Len(pushed) /\ i + 1 \in 1..Len(pushed) /\ 1 < i + 1
        BY <1>1, <2>1
    <2> QED BY <1>1, <2>1, <2>2 DEF Nested
<1> QED BY <1>2, <1>3 DEF Nested
-----------------------------------------------------------------------------
(* The steps that begin with an empty stack *)

\* The initial state satisfies the invariant.
LEMMA IndInvInit == Init => IndInv
<1> SUFFICES ASSUME Init PROVE IndInv
    OBVIOUS
<1>1. TypeOK
    <2>1. stack \in Seq(Frame)
        BY EmptySeq DEF Init
    <2> QED BY <2>1, LifecycleAssumption DEF Init, TypeOK
<1>2. Frames(stack) = {}
    BY NoFrames DEF Init
<1>3. Parts = {}
    BY DEF Init, Parts
<1>4. LinksOK /\ PartsOK /\ ConnectionsOK
    BY <1>3 DEF Init, LinksOK, PartsOK, ConnectionsOK
<1>5. Nesting /\ PartsSettled
    BY DEF Init, Nesting, Nested, PartsSettled
<1>6. FramesOK /\ EmissionsClean /\ ConnectionsBroken /\ LinksPending /\ PartsPending
    BY <1>2 DEF Init, FramesOK, EmissionsClean, ConnectionsBroken, LinksPending, PartsPending
<1>7. CleanUpsOK
    BY DEF Init, CleanUpsOK
<1> QED BY <1>1, <1>4, <1>5, <1>6, <1>7 DEF IndInv

\* With no call in progress and none after the step, the conjuncts about calls
\* hold.
LEMMA StillIdle ==
    ASSUME stack = <<>>, stack' = stack
    PROVE  /\ Frames(stack) = {} /\ Frames(stack)' = {}
           /\ FramesOK' /\ Nesting' /\ PartsSettled' /\ EmissionsClean'
<1>1. Frames(stack) = {} /\ Frames(stack)' = {}
    BY NoFrames
<1>2. Nesting' /\ PartsSettled'
    BY DEF Nesting, Nested, PartsSettled
<1> QED BY <1>1, <1>2 DEF FramesOK, EmissionsClean

\* integrate() adds at most the object's own connection.
LEMMA CreateStep ==
    ASSUME IndInv, NEW o \in Objects, NEW members \in SUBSET held, Create(o, members)
    PROVE  IndInv'
<1> USE DEF IndInv
<1>1. /\ stack = <<>> /\ stack' = stack /\ state[o] = "none"
      /\ state' = [state EXCEPT ![o] = "integrated"]
      /\ parts' = [parts EXCEPT ![o] = members]
      /\ held' = (held \ members) \cup {o}
      /\ linked' = linked /\ cleanups' = cleanups
      /\ \A q \in linked : q[1] \notin members /\ q[2] \notin members
    BY DEF Create, Idle
<1>2. PICK own :
        /\ connections' = IF o \in Own THEN connections \cup {own} ELSE connections
        /\ made' \in 0..MaxConnections
        /\ o \in Own => own \in Connection
        /\ own.kind = "own" /\ own.source = o /\ own.context = o
    <2>1. WITNESS Fresh("own", o, o)
    <2> QED BY LifecycleAssumption DEF Create, Integrate, Fresh, TypeOK, Connection
<1>3. TypeOK'
    <2>1. connections' \subseteq Connection
        BY <1>2 DEF TypeOK
    <2>2. parts' \in [Objects -> SUBSET Objects] /\ held' \subseteq Objects
        BY <1>1 DEF TypeOK
    <2> QED BY <1>1, <1>2, <2>1, <2>2 DEF TypeOK
<1>4. Parts' \subseteq Parts \cup members
    BY <1>1 DEF Parts, TypeOK
<1>5. LinksOK'
    BY <1>1, <1>4 DEF LinksOK, TypeOK
<1>6. PartsOK'
    BY <1>1, <1>4 DEF PartsOK, TypeOK
<1>7. FramesOK' /\ Nesting' /\ PartsSettled' /\ EmissionsClean'
      /\ Frames(stack) = {} /\ Frames(stack)' = {}
    BY <1>1, StillIdle
<1>8. \A c \in connections : o \notin Mentions(c)
    BY <1>1 DEF ConnectionsBroken
<1>9. ConnectionsOK'
    <2>1. \A c \in connections : ConnectionOK(c)'
        BY <1>1 DEF ConnectionsOK, ConnectionOK
    <2>2. o \in Own => ConnectionOK(own)'
        BY <1>2 DEF ConnectionOK
    <2>3. \A c \in connections : c.source # o
        BY <1>8 DEF Mentions
    <2>4. \A c \in connections' : ConnectionOK(c)'
        BY <1>2, <2>1, <2>2
    <2>5. \A c, d \in connections' :
            c.kind = "own" /\ d.kind = "own" /\ c.source = d.source => c = d
        BY <1>2, <2>3 DEF ConnectionsOK
    <2> QED BY <2>4, <2>5 DEF ConnectionsOK
<1>10. CleanUpsOK'
    <2> SUFFICES ASSUME NEW p \in Objects
                 PROVE  /\ p \notin Own => cleanups[p] = 0
                        /\ p \in Own =>
                            /\ state'[p] = "none" => cleanups[p] = 0
                            /\ state'[p] = "integrated" =>
                                /\ cleanups[p] = 0
                                /\ \E c \in connections' : c.kind = "own" /\ c.source = p
                            /\ state'[p] \in {"disintegrated", "deleted"} => cleanups[p] = 1
        BY <1>1, <1>7 DEF CleanUpsOK
    <2>1. ~Collapsing(p)
        BY <1>7 DEF Collapsing
    <2>2. CASE p = o
        BY <1>1, <1>2, <2>2 DEF CleanUpsOK, TypeOK
    <2>3. CASE p # o
        BY <1>1, <1>2, <2>1, <2>3 DEF CleanUpsOK, TypeOK
    <2> QED BY <2>2, <2>3
<1>11. ConnectionsBroken'
    <2>1. \A c \in connections : \A p \in Mentions(c) : state'[p] = "integrated"
        <3> SUFFICES ASSUME NEW c \in connections, NEW p \in Mentions(c)
                     PROVE  state'[p] = "integrated"
            OBVIOUS
        <3>1. p \in Objects
            BY DEF TypeOK, Connection, Mentions
        <3>2. p # o /\ state[p] = "integrated"
            BY <1>8 DEF ConnectionsBroken
        <3> QED BY <1>1, <3>1, <3>2
    <2>2. \A p \in Mentions(own) : state'[p] = "integrated"
        BY <1>1, <1>2 DEF TypeOK, Mentions
    <2>3. \A c \in connections' : c \in connections \/ c = own
        BY <1>2
    <2> QED BY <1>7, <2>1, <2>2, <2>3 DEF ConnectionsBroken, Mentions
<1>12. LinksPending'
    <2> SUFFICES ASSUME NEW q \in linked, state'[q[1]] = "integrated"
                 PROVE  LinkPending(q[1], q[2])'
        BY <1>1 DEF LinksPending
    <2>1. q[1] # o /\ state[q[1]] = "integrated"
        BY <1>1 DEF LinksOK, TypeOK
    <2>2. LinkPending(q[1], q[2])
        BY <2>1 DEF LinksPending
    <2> QED BY <1>2, <1>7, <2>2 DEF LinkPending, Collapsing
<1>13. PartsPending'
    <2> SUFFICES ASSUME NEW r \in Objects, NEW p \in Objects,
                        state'[r] = "deleted", p \in parts'[r], state'[p] = "integrated"
                 PROVE  FALSE
        BY DEF PartsPending
    <2>1. r # o /\ state[r] = "deleted" /\ p \in parts[r]
        BY <1>1 DEF TypeOK
    <2>2. p # o /\ state[p] = "integrated"
        BY <1>1, <2>1 DEF TypeOK, PartsOK, Parts
    <2> QED BY <1>7, <2>1, <2>2 DEF PartsPending, Collapsing
<1> QED BY <1>3, <1>5, <1>6, <1>7, <1>9, <1>10, <1>11, <1>12, <1>13

\* Connections are made between integrated objects.
LEMMA ConnectStep ==
    ASSUME IndInv, NEW o \in Objects, NEW p \in Objects, Connect(o, p) \/ Link(o, p)
    PROVE  IndInv'
<1> USE DEF IndInv
<1>1. PICK c \in Connection :
        /\ connections' = connections \cup {c}
        /\ Mentions(c) = {o, p}
        /\ \/ c.kind = "other" /\ linked' = linked
           \/ /\ c.kind = "link" /\ linked' = linked \cup {<<o, p>>}
              /\ c.source = p /\ c.context = o /\ p < o /\ o \notin Parts /\ p \notin Parts
    <2>1. CASE Connect(o, p)
        <3> DEFINE c == [id |-> made + 1, kind |-> "other", source |-> o, context |-> p]
        <3>1. c \in Connection
            BY <2>1, LifecycleAssumption DEF Connect, Connection, TypeOK
        <3>2. connections' = connections \cup {c} /\ linked' = linked
            BY <2>1 DEF Connect, Fresh
        <3> QED BY <3>1, <3>2 DEF Mentions
    <2>2. CASE Link(o, p)
        <3> DEFINE c == [id |-> made + 1, kind |-> "link", source |-> p, context |-> o]
        <3>1. c \in Connection
            BY <2>2, LifecycleAssumption DEF Link, Connection, TypeOK
        <3>2. /\ connections' = connections \cup {c} /\ linked' = linked \cup {<<o, p>>}
              /\ p < o /\ o \notin Parts /\ p \notin Parts
            BY <2>2 DEF Link, Fresh
        <3> QED BY <3>1, <3>2 DEF Mentions
    <2> QED BY <2>1, <2>2
<1>2. /\ stack = <<>> /\ stack' = stack
      /\ state[o] = "integrated" /\ state[p] = "integrated"
      /\ state' = state /\ held' = held /\ parts' = parts /\ cleanups' = cleanups
      /\ made' \in 0..MaxConnections
    BY LifecycleAssumption DEF Connect, Link, Idle, TypeOK
<1>3. TypeOK'
    BY <1>1, <1>2 DEF TypeOK
<1>4. Parts' = Parts
    BY <1>2 DEF Parts
<1>5. LinksOK' /\ PartsOK'
    BY <1>1, <1>2, <1>4 DEF LinksOK, PartsOK
<1>6. FramesOK' /\ Nesting' /\ PartsSettled' /\ EmissionsClean'
      /\ Frames(stack) = {} /\ Frames(stack)' = {}
    BY <1>2, StillIdle
<1>7. ConnectionsOK'
    <2>1. ASSUME NEW d \in connections' PROVE ConnectionOK(d)'
        BY <1>1, <2>1 DEF ConnectionsOK, ConnectionOK
    <2> QED BY <1>1, <2>1 DEF ConnectionsOK
<1>8. CleanUpsOK'
    <2>1. \A r \in Objects : ~Collapsing(r) /\ ~Collapsing(r)'
        BY <1>6 DEF Collapsing
    <2> QED BY <1>1, <1>2, <2>1 DEF CleanUpsOK
<1>9. ConnectionsBroken'
    BY <1>1, <1>2, <1>6 DEF ConnectionsBroken, Mentions
<1>10. LinksPending'
    <2> SUFFICES ASSUME NEW q \in linked', state[q[1]] = "integrated"
                 PROVE  \E d \in connections' : IsLink(d, q[1], q[2])
        BY <1>2, <1>6 DEF LinksPending, LinkPending, Collapsing
    <2>1. CASE q \in linked
        BY <1>1, <1>6, <2>1 DEF LinksPending, LinkPending, Collapsing
    <2>2. CASE q \notin linked
        BY <1>1, <2>2 DEF IsLink
    <2> QED BY <2>1, <2>2
<1>11. PartsPending'
    BY <1>2, <1>6 DEF PartsPending, Collapsing
<1> QED BY <1>3, <1>5, <1>6, <1>7, <1>8, <1>9, <1>10, <1>11

\* A pointer outside goes out of scope.
LEMMA ReleaseStep ==
    ASSUME IndInv, NEW o \in Objects, Release(o)
    PROVE  IndInv'
<1> USE DEF IndInv, Release
<1>1. /\ FramesOK' /\ Nesting' /\ PartsSettled' /\ EmissionsClean'
      /\ Frames(stack) = {} /\ Frames(stack)' = {}
    BY StillIdle DEF Idle
<1>2. TypeOK'
    BY DEF TypeOK
<1>3. Parts' = Parts
    BY DEF Parts
<1>4. LinksOK' /\ PartsOK'
    BY <1>3 DEF LinksOK, PartsOK
<1>5. ConnectionsOK' /\ ConnectionsBroken'
    BY <1>1 DEF ConnectionsOK, ConnectionOK, ConnectionsBroken, Mentions
<1>6. CleanUpsOK'
    BY <1>1 DEF CleanUpsOK, Collapsing
<1>7. LinksPending' /\ PartsPending'
    BY <1>1 DEF LinksPending, LinkPending, Collapsing, PartsPending
<1> QED BY <1>1, <1>2, <1>4, <1>5, <1>6, <1>7
-----------------------------------------------------------------------------
(* The steps of the calls in progress *)

\* The innermost call and the ones it runs inside of.
LEMMA TopFrame ==
    ASSUME IndInv, stack # <<>>
    PROVE  /\ Top \in Frame /\ Outer \in Seq(Frame)
           /\ stack = <<Top>> \o Outer
           /\ Frames(stack) = {Top} \cup Frames(Outer)
           /\ FrameOK(Top) /\ \A f \in Frames(Outer) : FrameOK(f)
           /\ Nested(Outer, Parts)
           /\ \A f \in Frames(Outer) : Within(Top, f, Parts)
           /\ \A f \in Frames(Outer) :
                ~Top.deleting /\ ~f.deleting => f.object # Top.object
<1>1. /\ Top \in Frame /\ Outer \in Seq(Frame)
      /\ stack = <<Top>> \o Outer
      /\ Frames(stack) = {Top} \cup Frames(Outer)
    BY PopFrame DEF IndInv, TypeOK, Top, Outer
<1>2. FrameOK(Top) /\ \A f \in Frames(Outer) : FrameOK(f)
    BY <1>1 DEF IndInv, FramesOK
<1>3. Nested(Outer, Parts) /\ \A f \in Frames(Outer) : Within(Top, f, Parts)
    BY <1>1, NestedPop DEF IndInv, Nesting
<1>4. ASSUME NEW f \in Frames(Outer), ~Top.deleting, ~f.deleting
      PROVE  f.object # Top.object
    <2>1. Top.object \in Nat
        BY <1>1 DEF Frame, Objects
    <2>2. Within(Top, f, Parts)
        BY <1>3
    <2> QED BY <1>4, <2>1, <2>2 DEF Within
<1> QED BY <1>1, <1>2, <1>3, <1>4

\* Calling a slot takes it from the slots that are still to be called.
LEMMA Advance ==
    ASSUME IndInv, stack # <<>>, NEW e \in Top.todo
    PROVE  \E g \in Frame :
            /\ g.object = Top.object /\ g.slots = Top.slots /\ g.todo = Top.todo \ {e}
            /\ g.deleting = Top.deleting /\ g.left = Top.left
            /\ Advanced(e) = <<g>> \o Outer
            /\ Advanced(e) \in Seq(Frame) /\ Advanced(e) # <<>> /\ Head(Advanced(e)) = g
            /\ Frames(Advanced(e)) = {g} \cup Frames(Outer)
            /\ Nested(Advanced(e), Parts)
            /\ FrameOK(g)
<1> DEFINE g == [Top EXCEPT !.todo = @ \ {e}]
<1>1. /\ g \in Frame
      /\ g.object = Top.object /\ g.slots = Top.slots /\ g.todo = Top.todo \ {e}
      /\ g.deleting = Top.deleting /\ g.left = Top.left
    BY TopFrame DEF Frame
<1>2. Advanced(e) = <<g>> \o Outer
    BY DEF Advanced
<1>3. FrameOK(g)
    <2>1. FrameOK(Top)
        BY TopFrame
    <2> HIDE DEF g
    <2> QED BY <1>1, <2>1 DEF FrameOK
<1> HIDE DEF g
<1>4. \A f \in Frames(Outer) : Within(g, f, Parts)
    BY <1>1, TopFrame DEF Within
<1>5. Nested(Advanced(e), Parts)
    BY <1>1, <1>2, <1>4, TopFrame, NestedPush
<1>6. /\ Advanced(e) \in Seq(Frame) /\ Advanced(e) # <<>> /\ Head(Advanced(e)) = g
      /\ Frames(Advanced(e)) = {g} \cup Frames(Outer)
    BY <1>1, <1>2, TopFrame, PushFrame
<1> QED BY <1>1, <1>2, <1>3, <1>5, <1>6

\* What an emission that begins is going to do.
LEMMA NewFrame ==
    ASSUME IndInv, NEW o \in Objects, state[o] = "integrated"
    PROVE  \E f \in Frame :
            /\ f = Disintegrating(o)
            /\ f.object = o /\ ~f.deleting /\ f.todo = f.slots /\ FrameOK(f)
            /\ \A c \in connections :
                /\ o \in Mentions(c) => [does |-> "break", of |-> c] \in f.todo
                /\ c.source = o /\ c.kind # "other" => [does |-> "call", of |-> c] \in f.todo
<1> DEFINE f == Disintegrating(o)
<1>1. Destroyed(o) \subseteq Slot
    BY DEF Destroyed, Slot, IndInv, TypeOK
<1>2. /\ f \in Frame /\ f.object = o /\ f.deleting = FALSE
      /\ f.slots = Destroyed(o) /\ f.todo = Destroyed(o) /\ f.left = {}
    BY <1>1 DEF Disintegrating, Frame
<1>3. \A e \in Destroyed(o) : SlotOK(e, o)
    BY DEF Destroyed, SlotOK, IndInv, ConnectionsOK
<1>4. \A d, e \in Destroyed(o) : OwnCall(d) /\ OwnCall(e) => d = e
    <2> SUFFICES ASSUME NEW d \in Destroyed(o), NEW e \in Destroyed(o),
                        OwnCall(d), OwnCall(e)
                 PROVE  d = e
        OBVIOUS
    <2>1. d.of = e.of
        BY DEF Destroyed, OwnCall, IndInv, ConnectionsOK
    <2> QED BY <2>1 DEF Destroyed, OwnCall
<1>5. \A c \in connections :
        /\ o \in Mentions(c) => [does |-> "break", of |-> c] \in Destroyed(o)
        /\ c.source = o /\ c.kind # "other" => [does |-> "call", of |-> c] \in Destroyed(o)
    BY DEF Destroyed, Mentions
<1>6. FrameOK(f)
    <2> HIDE DEF f
    <2> QED BY <1>2, <1>3, <1>4 DEF FrameOK
<1> QED BY <1>2, <1>5, <1>6

\* An object's own slot runs: it was still to be called, and no other of the
\* object's is.
LEMMA CleanUpStep ==
    ASSUME IndInv, stack # <<>>, NEW e \in Top.todo, CleanUp(e)
    PROVE  IndInv'
<1> USE DEF IndInv
<1>1. /\ ~Top.deleting /\ Settled /\ OwnCall(e)
      /\ cleanups' = [cleanups EXCEPT ![Top.object] = @ + 1]
      /\ stack' = Advanced(e)
      /\ state' = state /\ connections' = connections /\ made' = made /\ held' = held
      /\ parts' = parts /\ linked' = linked /\ Parts' = Parts
    BY DEF CleanUp, HasSlot, Emitting, OwnCall, Parts
<1>2. PICK g \in Frame :
        /\ g.object = Top.object /\ g.slots = Top.slots /\ g.todo = Top.todo \ {e}
        /\ g.deleting = Top.deleting /\ g.left = Top.left
        /\ stack' \in Seq(Frame) /\ stack' # <<>> /\ Top' = g
        /\ Frames(stack') = {g} \cup Frames(Outer)
        /\ Nested(stack', Parts)
        /\ FrameOK(g)
    BY <1>1, Advance DEF Top
<1>3. /\ Frames(stack) = {Top} \cup Frames(Outer) /\ Top \in Frame /\ FrameOK(Top)
      /\ \A f \in Frames(Outer) : FrameOK(f) /\ (~f.deleting => f.object # Top.object)
    BY <1>1, TopFrame
<1> DEFINE o == Top.object
<1>4. o \in Objects
    BY <1>3 DEF Frame
<1>5. o \in Own /\ cleanups[o] = 0 /\ \A d \in g.todo : ~OwnCall(d)
    <2>1. e.of.source = o /\ ConnectionOK(e.of)
        BY <1>1, <1>3 DEF FrameOK, SlotOK, OwnCall
    <2>2. o \in Own
        BY <1>1, <2>1 DEF ConnectionOK, OwnCall
    <2>3. cleanups[o] = 0
        BY <1>1, <1>3, <2>2 DEF EmissionsClean
    <2>4. \A d \in g.todo : ~OwnCall(d)
        BY <1>1, <1>2, <1>3 DEF FrameOK
    <2> QED BY <2>2, <2>3, <2>4
<1>6. cleanups' \in [Objects -> Nat] /\ cleanups'[o] = 1
      /\ \A p \in Objects : p # o => cleanups'[p] = cleanups[p]
    BY <1>1, <1>4, <1>5 DEF TypeOK
<1>7. TypeOK'
    BY <1>1, <1>2, <1>6 DEF TypeOK
<1>8. LinksOK' /\ PartsOK' /\ ConnectionsOK' /\ Nesting'
    BY <1>1, <1>2 DEF LinksOK, PartsOK, ConnectionsOK, ConnectionOK, Nesting
<1>9. FramesOK'
    BY <1>1, <1>2, <1>3 DEF FramesOK, FrameOK, SlotOK, ConnectionOK
<1>10. PartsSettled'
    <2>1. \A p \in Objects : Referenced(p) => Referenced(p)'
        BY <1>1, <1>2, <1>3 DEF Referenced
    <2> QED BY <1>1, <2>1 DEF PartsSettled, Settled, Unreferenced
<1>11. \A p \in Objects : Collapsing(p)' <=> Collapsing(p)
    BY <1>2, <1>3 DEF Collapsing
<1>12. CleanUpsOK'
    <2>1. Collapsing(o) /\ state[o] = "integrated"
        BY <1>1, <1>3 DEF Collapsing, FrameOK
    <2> QED BY <1>1, <1>5, <1>6, <1>11, <2>1 DEF CleanUpsOK
<1>13. EmissionsClean'
    <2> SUFFICES ASSUME NEW f \in Frames(stack'), ~f.deleting, f.object \in Own
                 PROVE  \/ cleanups'[f.object] = 0 /\ \E d \in f.todo : OwnCall(d)
                        \/ cleanups'[f.object] = 1 /\ \A d \in f.todo : ~OwnCall(d)
        BY DEF EmissionsClean
    <2>1. CASE f = g
        BY <1>2, <1>5, <1>6, <2>1
    <2>2. CASE f \in Frames(Outer)
        <3>1. f.object # o /\ f.object \in Objects
            BY <1>3, <2>2, LifecycleAssumption
        <3> QED BY <1>3, <1>6, <2>2, <3>1 DEF EmissionsClean
    <2> QED BY <1>2, <2>1, <2>2
<1>14. ConnectionsBroken'
    <2>1. ASSUME NEW c PROVE [does |-> "break", of |-> c] # e
        BY <1>1 DEF OwnCall
    <2> QED BY ZenonT(40), <1>1, <1>2, <1>3, <2>1 DEF ConnectionsBroken, Mentions
<1>15. LinksPending'
    <2> SUFFICES ASSUME NEW q \in linked, state[q[1]] = "integrated"
                 PROVE  LinkPending(q[1], q[2])'
        BY <1>1 DEF LinksPending
    <2>1. LinkPending(q[1], q[2]) /\ q[1] \in Objects /\ q[2] \in Objects
        BY DEF LinksPending, TypeOK
    <2>2. \A d \in Top.todo : IsLink(d.of, q[1], q[2]) => d \in g.todo
        BY <1>1, <1>2 DEF IsLink, OwnCall
    <2> QED BY <1>1, <1>2, <1>3, <1>11, <2>1, <2>2 DEF LinkPending
<1>16. PartsPending'
    BY <1>1, <1>2, <1>3, <1>11 DEF PartsPending
<1> QED BY <1>7, <1>8, <1>9, <1>10, <1>12, <1>13, <1>14, <1>15, <1>16

\* A breaker removes a connection.  The list that the emission goes through
\* keeps the references to its ends.
LEMMA BreakStep ==
    ASSUME IndInv, stack # <<>>, NEW e \in Top.todo, Break(e)
    PROVE  IndInv'
<1> USE DEF IndInv
<1>1. /\ ~Top.deleting /\ Settled /\ e.does = "break"
      /\ connections' = connections \ {e.of}
      /\ stack' = Advanced(e)
      /\ state' = state /\ made' = made /\ held' = held
      /\ parts' = parts /\ linked' = linked /\ cleanups' = cleanups /\ Parts' = Parts
    BY DEF Break, HasSlot, Emitting, Parts
<1>2. PICK g \in Frame :
        /\ g.object = Top.object /\ g.slots = Top.slots /\ g.todo = Top.todo \ {e}
        /\ g.deleting = Top.deleting /\ g.left = Top.left
        /\ stack' \in Seq(Frame) /\ stack' # <<>> /\ Top' = g
        /\ Frames(stack') = {g} \cup Frames(Outer)
        /\ Nested(stack', Parts)
        /\ FrameOK(g)
    BY <1>1, Advance DEF Top
<1>3. /\ Frames(stack) = {Top} \cup Frames(Outer) /\ Top \in Frame /\ FrameOK(Top)
      /\ \A f \in Frames(Outer) : FrameOK(f) /\ (~f.deleting => f.object # Top.object)
    BY <1>1, TopFrame
<1> DEFINE o == Top.object
<1>4. e \in Top.slots /\ o \in Mentions(e.of) /\ ConnectionOK(e.of)
    BY <1>3 DEF FrameOK, SlotOK
<1>5. TypeOK'
    BY <1>1, <1>2 DEF TypeOK
<1>6. LinksOK' /\ PartsOK' /\ Nesting'
    BY <1>1, <1>2 DEF LinksOK, PartsOK, Nesting
<1>7. ConnectionsOK'
    BY <1>1 DEF ConnectionsOK, ConnectionOK
<1>8. FramesOK'
    BY <1>1, <1>2, <1>3 DEF FramesOK, FrameOK, SlotOK, ConnectionOK
<1>9. PartsSettled'
    <2>1. ASSUME NEW p \in Objects, Referenced(p) PROVE Referenced(p)'
        <3>1. CASE p \in Mentions(e.of)
            <4>1. g \in Frames(stack') /\ e \in g.slots
                BY <1>2, <1>4
            <4> QED BY <3>1, <4>1 DEF Referenced, Mentions
        <3>2. CASE p \notin Mentions(e.of)
            BY <1>1, <1>2, <1>3, <2>1, <3>2 DEF Referenced, Mentions
        <3> QED BY <3>1, <3>2
    <2> QED BY <1>1, <2>1 DEF PartsSettled, Settled, Unreferenced
<1>10. \A p \in Objects : Collapsing(p)' <=> Collapsing(p)
    BY <1>2, <1>3 DEF Collapsing
<1>11. Collapsing(o)
    BY <1>1, <1>3 DEF Collapsing
<1>12. CleanUpsOK'
    <2>1. \A p \in Objects : ~Collapsing(p) => \A c \in connections :
            c.kind = "own" /\ c.source = p => c \in connections'
        BY <1>1, <1>4, <1>11 DEF ConnectionOK, Mentions
    <2> QED BY <1>1, <1>10, <2>1 DEF CleanUpsOK
<1>13. EmissionsClean'
    <2>1. ~OwnCall(e)
        BY <1>1 DEF OwnCall
    <2> QED BY <1>1, <1>2, <1>3, <2>1 DEF EmissionsClean
<1>14. ConnectionsBroken'
    <2> SUFFICES ASSUME NEW c \in connections', NEW p \in Mentions(c)
                 PROVE  /\ state[p] = "integrated"
                        /\ \A f \in Frames(stack') : ~f.deleting /\ f.object = p =>
                            [does |-> "break", of |-> c] \in f.todo
        BY <1>1 DEF ConnectionsBroken, Mentions
    <2>1. c \in connections /\ [does |-> "break", of |-> c] # e
        BY <1>1
    <2> QED BY <1>2, <1>3, <2>1 DEF ConnectionsBroken
<1>15. LinksPending'
    <2> SUFFICES ASSUME NEW q \in linked, state[q[1]] = "integrated"
                 PROVE  LinkPending(q[1], q[2])'
        BY <1>1 DEF LinksPending
    <2>1. LinkPending(q[1], q[2]) /\ q[1] \in Objects /\ q[2] \in Objects
        BY DEF LinksPending, TypeOK
    <2>2. \A d \in Top.todo : d.does = "call" => d \in g.todo
        BY <1>1, <1>2
    <2>3. \A c \in connections : IsLink(c, q[1], q[2]) /\ ~Collapsing(q[2]) /\ ~Collapsing(q[1])
            => c \in connections'
        BY <1>1, <1>4, <1>11 DEF IsLink, Mentions
    <2> QED BY <1>1, <1>2, <1>3, <1>10, <2>1, <2>2, <2>3 DEF LinkPending
<1>16. PartsPending'
    BY <1>1, <1>2, <1>3, <1>10 DEF PartsPending
<1> QED BY <1>5, <1>6, <1>7, <1>8, <1>9, <1>12, <1>13, <1>14, <1>15, <1>16

\* disintegrate() returns when all slots were called: the object is cleaned up
\* and no connection mentions it.
LEMMA ReturnStep ==
    ASSUME IndInv, Return
    PROVE  IndInv'
<1> USE DEF IndInv
<1> DEFINE o == Top.object
<1>1. /\ stack # <<>> /\ ~Top.deleting /\ Top.todo = {}
      /\ state' = [state EXCEPT ![o] = "disintegrated"]
      /\ stack' = Outer
      /\ connections' = connections /\ made' = made /\ held' = held
      /\ parts' = parts /\ linked' = linked /\ cleanups' = cleanups /\ Parts' = Parts
    BY DEF Return, Emitting, Parts
<1>2. /\ Frames(stack) = {Top} \cup Frames(Outer) /\ Top \in Frame /\ FrameOK(Top)
      /\ Outer \in Seq(Frame) /\ Nested(Outer, Parts)
      /\ \A f \in Frames(Outer) : FrameOK(f) /\ (~f.deleting => f.object # o)
      /\ \A f \in Frames(Outer) : Within(Top, f, Parts)
    BY <1>1, TopFrame
<1>3. o \in Objects /\ state[o] = "integrated"
    BY <1>1, <1>2 DEF Frame, FrameOK
<1>4. state'[o] = "disintegrated" /\ \A p \in Objects : p # o => state'[p] = state[p]
    BY <1>1, <1>3 DEF TypeOK
<1>5. TypeOK'
    BY <1>1, <1>2 DEF TypeOK
<1>6. LinksOK'
    BY <1>1, <1>4 DEF LinksOK, TypeOK
<1>7. PartsOK'
    <2>1. Parts \subseteq Objects
        BY DEF Parts, TypeOK
    <2> QED BY <1>1, <1>4, <2>1 DEF PartsOK, TypeOK
<1>8. ConnectionsOK' /\ Nesting'
    BY <1>1, <1>2 DEF ConnectionsOK, ConnectionOK, Nesting
<1>9. FramesOK'
    <2> SUFFICES ASSUME NEW f \in Frames(Outer) PROVE FrameOK(f)'
        BY <1>1 DEF FramesOK
    <2>1. f \in Frame
        BY <1>2 DEF Frames
    <2>2. f.object \in Objects
        BY <2>1 DEF Frame
    <2>3. FrameOK(f) /\ f.object # o
        BY <1>2, <1>3 DEF FrameOK
    <2> QED BY <1>1, <1>4, <2>2, <2>3 DEF FrameOK, SlotOK, ConnectionOK
<1>10. PartsSettled'
    <2> SUFFICES ASSUME Outer # <<>> PROVE ~Head(Outer).deleting => Head(Outer).object \notin Parts
        BY <1>1 DEF PartsSettled, Top
    <2>1. Head(Outer) \in Frames(Outer)
        BY <1>2, PopFrame
    <2> QED BY <1>2, <2>1 DEF Within
<1>11. \A p \in Objects : p # o => (Collapsing(p)' <=> Collapsing(p))
    BY <1>1, <1>2 DEF Collapsing
<1>12. CleanUpsOK'
    <2>1. o \in Own => cleanups[o] = 1
        BY <1>1, <1>2 DEF EmissionsClean
    <2> QED BY <1>1, <1>4, <1>11, <2>1 DEF CleanUpsOK
<1>13. EmissionsClean'
    BY <1>1, <1>2 DEF EmissionsClean
<1>14. ConnectionsBroken'
    <2> SUFFICES ASSUME NEW c \in connections, NEW p \in Mentions(c)
                 PROVE  /\ state'[p] = "integrated"
                        /\ \A f \in Frames(Outer) : ~f.deleting /\ f.object = p =>
                            [does |-> "break", of |-> c] \in f.todo
        BY <1>1 DEF ConnectionsBroken, Mentions
    <2>1. p \in Objects
        BY DEF TypeOK, Connection, Mentions
    <2>2. p # o
        BY <1>1, <1>2 DEF ConnectionsBroken
    <2> QED BY <1>2, <1>4, <2>1, <2>2 DEF ConnectionsBroken
<1>15. LinksPending'
    <2> SUFFICES ASSUME NEW q \in linked, state'[q[1]] = "integrated"
                 PROVE  LinkPending(q[1], q[2])'
        BY <1>1 DEF LinksPending
    <2>1. q[1] \in Objects /\ q[2] \in Objects /\ q[1] # o
        BY <1>4 DEF TypeOK
    <2>2. LinkPending(q[1], q[2])
        BY <1>4, <2>1 DEF LinksPending
    <2>3. CASE Collapsing(q[1])
        BY <1>11, <2>1, <2>3 DEF LinkPending
    <2>4. CASE ~Collapsing(q[2]) /\ \E c \in connections : IsLink(c, q[1], q[2])
        BY <1>1, <1>2, <2>4 DEF LinkPending, Collapsing
    <2>5. CASE \E f \in Frames(stack) :
                /\ ~f.deleting /\ f.object = q[2]
                /\ \E e \in f.todo : e.does = "call" /\ IsLink(e.of, q[1], q[2])
        BY <1>1, <1>2, <2>5 DEF LinkPending
    <2> QED BY <2>2, <2>3, <2>4, <2>5 DEF LinkPending
<1>16. PartsPending'
    <2> SUFFICES ASSUME NEW r \in Objects, NEW p \in Objects,
                        state'[r] = "deleted", p \in parts[r], state'[p] = "integrated"
                 PROVE  \/ Collapsing(p)'
                        \/ \E f \in Frames(Outer) : f.deleting /\ f.object = r /\ p \in f.left
        BY <1>1 DEF PartsPending
    <2>1. r # o /\ p # o
        BY <1>4
    <2> QED BY <1>1, <1>2, <1>4, <1>11, <2>1 DEF PartsPending
<1> QED BY <1>5, <1>6, <1>7, <1>8, <1>9, <1>10, <1>12, <1>13, <1>14, <1>15, <1>16

\* An object is deleted: nothing refers to it, so it is cleaned up and no call
\* in progress is its own.
LEMMA DeleteStep ==
    ASSUME IndInv, NEW o \in Objects, Delete(o)
    PROVE  IndInv'
<1> USE DEF IndInv
<1>1. /\ ~Settled /\ ~Referenced(o) /\ state[o] \in {"integrated", "disintegrated"}
      /\ state' = [state EXCEPT ![o] = "deleted"]
      /\ stack' = <<Deleting(o)>> \o stack
      /\ connections' = connections /\ made' = made /\ held' = held
      /\ parts' = parts /\ linked' = linked /\ cleanups' = cleanups /\ Parts' = Parts
    BY DEF Delete, Unreferenced, Settled, Parts
<1>2. /\ \A c \in connections : o \notin Mentions(c)
      /\ \A f \in Frames(stack) : f.object # o
    BY <1>1 DEF Referenced
<1>3. PICK x \in Frame :
        /\ x = Deleting(o) /\ x.object = o /\ x.slots = {} /\ x.todo = {}
        /\ x.deleting = TRUE /\ x.left = parts[o]
    <2>1. parts[o] \subseteq Objects
        BY DEF TypeOK
    <2>2. Deleting(o) \in Frame
        BY <2>1 DEF Deleting, Frame
    <2> QED BY <2>2 DEF Deleting
<1>4. /\ stack' \in Seq(Frame) /\ stack' # <<>> /\ Top' = x
      /\ Frames(stack') = {x} \cup Frames(stack)
    BY <1>1, <1>3, PushFrame DEF TypeOK, Top
<1>5. state'[o] = "deleted" /\ \A p \in Objects : p # o => state'[p] = state[p]
    BY <1>1 DEF TypeOK
<1>6. TypeOK'
    BY <1>1, <1>4 DEF TypeOK
<1>7. LinksOK'
    BY <1>1, <1>5 DEF LinksOK, TypeOK
<1>8. PartsOK'
    <2>1. Parts \subseteq Objects
        BY DEF Parts, TypeOK
    <2> QED BY <1>1, <1>5, <2>1 DEF PartsOK, TypeOK
<1>9. ConnectionsOK'
    BY <1>1 DEF ConnectionsOK, ConnectionOK
<1>10. \A f \in Frames(stack) : f.object \in Objects
    <2>1. \A f \in Frames(stack) : f \in Frame
        BY DEF Frames, TypeOK
    <2> QED BY <2>1 DEF Frame
<1>11. FramesOK'
    <2>1. FrameOK(x)'
        BY <1>1, <1>3, <1>5 DEF FrameOK
    <2>2. ASSUME NEW f \in Frames(stack) PROVE FrameOK(f)'
        <3>1. FrameOK(f) /\ state'[f.object] = state[f.object]
            BY <1>2, <1>5, <1>10 DEF FramesOK
        <3> QED BY <1>1, <3>1 DEF FrameOK, SlotOK, ConnectionOK
    <2> QED BY <1>4, <2>1, <2>2 DEF FramesOK
<1>12. Nesting'
    <2>1. \A f \in Frames(stack) : ~f.deleting => f.object \notin Parts
        <3>1. CASE stack = <<>>
            BY <3>1, NoFrames
        <3>2. CASE stack # <<>>
            BY <1>1, <3>2, TopFrame DEF Within, PartsSettled
        <3> QED BY <3>1, <3>2
    <2>2. \A f \in Frames(stack) : Within(x, f, Parts)
        BY <1>3, <2>1 DEF Within
    <2> QED BY <1>1, <1>3, <2>2, NestedPush DEF Nesting, TypeOK
<1>13. PartsSettled'
    BY <1>3, <1>4 DEF PartsSettled
<1>14. \A p \in Objects : Collapsing(p)' <=> Collapsing(p)
    BY <1>3, <1>4 DEF Collapsing
<1>15. CleanUpsOK'
    <2>1. o \in Own => cleanups[o] = 1
        <3>1. ~Collapsing(o)
            BY <1>2 DEF Collapsing
        <3> QED BY <1>1, <1>2, <3>1 DEF CleanUpsOK, Mentions
    <2> QED BY <1>1, <1>5, <1>14, <2>1 DEF CleanUpsOK
<1>16. EmissionsClean'
    BY <1>1, <1>3, <1>4 DEF EmissionsClean
<1>17. ConnectionsBroken'
    <2> SUFFICES ASSUME NEW c \in connections, NEW p \in Mentions(c)
                 PROVE  /\ state'[p] = "integrated"
                        /\ \A f \in Frames(stack') : ~f.deleting /\ f.object = p =>
                            [does |-> "break", of |-> c] \in f.todo
        BY <1>1 DEF ConnectionsBroken, Mentions
    <2>1. p \in Objects
        BY DEF TypeOK, Connection, Mentions
    <2> QED BY <1>2, <1>3, <1>4, <1>5, <2>1 DEF ConnectionsBroken
<1>18. LinksPending'
    <2> SUFFICES ASSUME NEW q \in linked, state'[q[1]] = "integrated"
                 PROVE  LinkPending(q[1], q[2])'
        BY <1>1 DEF LinksPending
    <2>1. q[1] \in Objects /\ q[2] \in Objects /\ q[1] # o
        BY <1>5 DEF TypeOK
    <2>2. LinkPending(q[1], q[2])
        BY <1>5, <2>1 DEF LinksPending
    <2> QED BY <1>1, <1>4, <1>14, <2>1, <2>2 DEF LinkPending
<1>19. PartsPending'
    <2> SUFFICES ASSUME NEW r \in Objects, NEW p \in Objects,
                        state'[r] = "deleted", p \in parts[r], state'[p] = "integrated"
                 PROVE  \/ Collapsing(p)'
                        \/ \E f \in Frames(stack') : f.deleting /\ f.object = r /\ p \in f.left
        BY <1>1 DEF PartsPending
    <2>1. CASE r = o
        BY <1>3, <1>4, <2>1
    <2>2. CASE r # o
        BY <1>4, <1>5, <1>14, <2>2 DEF PartsPending
    <2> QED BY <2>1, <2>2
<1> QED BY <1>6, <1>7, <1>8, <1>9, <1>11, <1>12, <1>13, <1>15, <1>16, <1>17, <1>18, <1>19

\* Call f has become call g on the way to a collapse of o: the slot or the part
\* that led to it is no longer to be done.
Closer(f, g, o) ==
    /\ g.object = f.object /\ g.deleting = f.deleting /\ g.slots = f.slots
    /\ g.todo \subseteq f.todo
    /\ \A e \in f.todo :
        \/ e \in g.todo
        \/ e.does = "call" /\ e.of.kind = "link" /\ e.of.context = o
    /\ g.left \subseteq f.left /\ f.left \subseteq g.left \cup {o}

\* disintegrate() of o is called, from outside, from the slot of a link or from
\* a destructor, with the calls in progress being base.
LEMMA DisintegrateStep ==
    ASSUME IndInv, Settled, NEW o \in Objects, NEW base \in Seq(Frame),
           stack' = Disintegrate(o, base),
           UNCHANGED <<state, connections, made, held, parts, linked, cleanups>>,
           Nested(base, Parts),
           \A g \in Frames(base) : FrameOK(g) /\ (~g.deleting => g.object \notin Parts),
           o \notin Parts =>
            \A g \in Frames(base) : ~g.deleting /\ g.object < o,
           \A g \in Frames(base) : \E f \in Frames(stack) : Closer(f, g, o),
           \A f \in Frames(stack) : \E g \in Frames(base) : Closer(f, g, o)
    PROVE  IndInv'
<1> USE DEF IndInv
<1>1. Parts' = Parts
    BY DEF Parts
<1>2. LinksOK' /\ PartsOK' /\ ConnectionsOK'
    BY <1>1 DEF LinksOK, PartsOK, ConnectionsOK, ConnectionOK
<1>3. \A g \in Frames(base) : FrameOK(g)'
    BY DEF FrameOK, SlotOK, ConnectionOK
<1>4. CASE state[o] # "integrated"
    <2>1. stack' = base
        BY <1>4 DEF Disintegrate
    <2>2. TypeOK'
        BY <2>1 DEF TypeOK
    <2>3. FramesOK' /\ Nesting'
        BY <1>1, <1>3, <2>1 DEF FramesOK, Nesting
    <2>4. PartsSettled'
        <3> SUFFICES ASSUME base # <<>> PROVE ~Head(base).deleting => Head(base).object \notin Parts
            BY <1>1, <2>1 DEF PartsSettled, Top
        <3>1. Head(base) \in Frames(base)
            BY PopFrame
        <3> QED BY <3>1
    <2>5. \A p \in Objects : Collapsing(p)' <=> Collapsing(p)
        BY <2>1 DEF Collapsing, Closer
    <2>6. CleanUpsOK'
        BY <2>5 DEF CleanUpsOK
    <2>7. EmissionsClean'
        BY <2>1 DEF EmissionsClean, Closer, OwnCall
    <2>8. ConnectionsBroken'
        <3> SUFFICES ASSUME NEW c \in connections, NEW p \in Mentions(c),
                            NEW g \in Frames(base), ~g.deleting, g.object = p
                     PROVE  [does |-> "break", of |-> c] \in g.todo
            BY <2>1 DEF ConnectionsBroken, Mentions
        <3>1. PICK f \in Frames(stack) : Closer(f, g, o)
            OBVIOUS
        <3>2. [does |-> "break", of |-> c] \in f.todo
            BY <3>1 DEF ConnectionsBroken, Closer
        <3> QED BY <3>1, <3>2 DEF Closer
    <2>9. LinksPending'
        <3> SUFFICES ASSUME NEW q \in linked, state[q[1]] = "integrated"
                     PROVE  LinkPending(q[1], q[2])'
            BY DEF LinksPending
        <3>1. LinkPending(q[1], q[2]) /\ q[1] \in Objects /\ q[2] \in Objects /\ q[1] # o
            BY <1>4 DEF LinksPending, TypeOK
        <3>2. CASE Collapsing(q[1]) \/ (~Collapsing(q[2]) /\ \E c \in connections : IsLink(c, q[1], q[2]))
            BY <2>5, <3>1, <3>2 DEF LinkPending
        <3>3. ASSUME NEW f \in Frames(stack), ~f.deleting, f.object = q[2],
                     NEW e \in f.todo, e.does = "call", IsLink(e.of, q[1], q[2])
              PROVE  LinkPending(q[1], q[2])'
            <4>1. PICK g \in Frames(base) : Closer(f, g, o)
                BY <3>3
            <4>2. e \in g.todo /\ ~g.deleting /\ g.object = q[2]
                BY <3>1, <3>3, <4>1 DEF Closer, IsLink
            <4> QED BY <2>1, <3>3, <4>2 DEF LinkPending
        <3> QED BY <3>1, <3>2, <3>3 DEF LinkPending
    <2>10. PartsPending'
        <3> SUFFICES ASSUME NEW r \in Objects, NEW p \in Objects,
                            state[r] = "deleted", p \in parts[r], state[p] = "integrated"
                     PROVE  \/ Collapsing(p)'
                            \/ \E g \in Frames(base) : g.deleting /\ g.object = r /\ p \in g.left
            BY <2>1 DEF PartsPending
        <3>1. p # o
            BY <1>4
        <3> QED BY <2>5, <3>1 DEF PartsPending, Closer
    <2> QED BY <1>2, <2>2, <2>3, <2>4, <2>6, <2>7, <2>8, <2>9, <2>10
<1>5. CASE state[o] = "integrated"
    <2>1. PICK n \in Frame :
            /\ n = Disintegrating(o)
            /\ n.object = o /\ ~n.deleting /\ n.todo = n.slots /\ FrameOK(n)
            /\ \A c \in connections :
                /\ o \in Mentions(c) => [does |-> "break", of |-> c] \in n.todo
                /\ c.source = o /\ c.kind # "other" => [does |-> "call", of |-> c] \in n.todo
        BY <1>5, NewFrame
    <2>2. stack' = <<n>> \o base
        BY <1>5, <2>1 DEF Disintegrate
    <2>3. /\ stack' \in Seq(Frame) /\ stack' # <<>> /\ Top' = n
          /\ Frames(stack') = {n} \cup Frames(base)
        BY <2>2, PushFrame DEF Top
    <2>4. TypeOK'
        BY <2>3 DEF TypeOK
    <2>5. FramesOK'
        <3>1. FrameOK(n)'
            BY <2>1 DEF FrameOK, SlotOK, ConnectionOK
        <3> QED BY <1>3, <2>3, <3>1 DEF FramesOK
    <2>6. Nesting'
        <3>1. \A g \in Frames(base) : Within(n, g, Parts)
            BY <2>1 DEF Within
        <3> QED BY <1>1, <2>2, <3>1, NestedPush DEF Nesting
    <2>7. PartsSettled'
        <3>1. ASSUME NEW p \in Objects, Referenced(p) PROVE Referenced(p)'
            <4>1. CASE p = o
                BY <2>1, <2>3, <4>1 DEF Referenced
            <4>2. CASE p # o
                BY <2>3, <3>1, <4>2 DEF Referenced, Closer
            <4> QED BY <4>1, <4>2
        <3> QED BY <3>1 DEF PartsSettled, Settled, Unreferenced
    <2>8. /\ \A p \in Objects : Collapsing(p)' <=> Collapsing(p) \/ p = o
          /\ ~Collapsing(o)
        <3>1. \A p \in Objects : Collapsing(p)' <=> Collapsing(p) \/ p = o
            BY <2>1, <2>3 DEF Collapsing, Closer
        <3>2. ~Collapsing(o)
            <4>1. \A g \in Frames(base) : ~g.deleting => g.object # o
                BY LifecycleAssumption DEF Objects
            <4> QED BY <4>1 DEF Collapsing, Closer
        <3> QED BY <3>1, <3>2
    <2>9. CleanUpsOK'
        BY <2>8 DEF CleanUpsOK
    <2>10. EmissionsClean'
        <3>1. ASSUME NEW g \in Frames(base), ~g.deleting, g.object \in Own
              PROVE  \/ cleanups[g.object] = 0 /\ \E e \in g.todo : OwnCall(e)
                     \/ cleanups[g.object] = 1 /\ \A e \in g.todo : ~OwnCall(e)
            BY <3>1 DEF EmissionsClean, Closer, OwnCall
        <3>2. o \in Own => cleanups[o] = 0 /\ \E e \in n.todo : OwnCall(e)
            <4> SUFFICES ASSUME o \in Own PROVE cleanups[o] = 0 /\ \E e \in n.todo : OwnCall(e)
                OBVIOUS
            <4>1. cleanups[o] = 0 /\ \E c \in connections : c.kind = "own" /\ c.source = o
                BY <1>5, <2>8 DEF CleanUpsOK
            <4>2. PICK c \in connections : c.kind = "own" /\ c.source = o
                BY <4>1
            <4>3. [does |-> "call", of |-> c] \in n.todo
                BY <2>1, <4>2
            <4> QED BY <4>1, <4>2, <4>3 DEF OwnCall
        <3> QED BY <2>1, <2>3, <3>1, <3>2 DEF EmissionsClean
    <2>11. ConnectionsBroken'
        <3> SUFFICES ASSUME NEW c \in connections, NEW p \in Mentions(c),
                            NEW g \in Frames(stack'), ~g.deleting, g.object = p
                     PROVE  [does |-> "break", of |-> c] \in g.todo
            BY DEF ConnectionsBroken, Mentions
        <3>1. CASE g = n
            BY <2>1, <3>1
        <3>2. CASE g \in Frames(base)
            <4>1. PICK f \in Frames(stack) : Closer(f, g, o)
                BY <3>2
            <4>2. [does |-> "break", of |-> c] \in f.todo
                BY <4>1 DEF ConnectionsBroken, Closer
            <4> QED BY <4>1, <4>2 DEF Closer
        <3> QED BY <2>3, <3>1, <3>2
    <2>12. LinksPending'
        <3> SUFFICES ASSUME NEW q \in linked, state[q[1]] = "integrated"
                     PROVE  LinkPending(q[1], q[2])'
            BY DEF LinksPending
        <3>1. LinkPending(q[1], q[2]) /\ q[1] \in Objects /\ q[2] \in Objects
            BY DEF LinksPending, TypeOK
        <3>2. CASE q[1] = o \/ Collapsing(q[1])
            BY <2>8, <3>1, <3>2 DEF LinkPending
        <3>3. ASSUME NEW c \in connections, IsLink(c, q[1], q[2]), ~Collapsing(q[2])
              PROVE  LinkPending(q[1], q[2])'
            <4>1. CASE q[2] = o
                <5>1. [does |-> "call", of |-> c] \in n.todo
                    BY <2>1, <3>3, <4>1 DEF IsLink
                <5> QED BY <2>1, <2>3, <3>3, <4>1, <5>1 DEF LinkPending
            <4>2. CASE q[2] # o
                BY <2>8, <3>1, <3>3, <4>2 DEF LinkPending
            <4> QED BY <4>1, <4>2
        <3>4. ASSUME NEW f \in Frames(stack), ~f.deleting, f.object = q[2], q[1] # o,
                     NEW e \in f.todo, e.does = "call", IsLink(e.of, q[1], q[2])
              PROVE  LinkPending(q[1], q[2])'
            <4>1. PICK g \in Frames(base) : Closer(f, g, o)
                BY <3>4
            <4>2. e \in g.todo /\ ~g.deleting /\ g.object = q[2]
                BY <3>4, <4>1 DEF Closer, IsLink
            <4> QED BY <2>3, <3>4, <4>2 DEF LinkPending
        <3> QED BY <3>1, <3>2, <3>3, <3>4 DEF LinkPending
    <2>13. PartsPending'
        <3> SUFFICES ASSUME NEW r \in Objects, NEW p \in Objects,
                            state[r] = "deleted", p \in parts[r], state[p] = "integrated"
                     PROVE  \/ Collapsing(p)'
                            \/ \E g \in Frames(stack') : g.deleting /\ g.object = r /\ p \in g.left
            BY DEF PartsPending
        <3>1. CASE p = o
            BY <2>8, <3>1
        <3>2. CASE p # o
            BY <2>3, <2>8, <3>2 DEF PartsPending, Closer
        <3> QED BY <3>1, <3>2
    <2> QED BY <1>2, <2>4, <2>5, <2>6, <2>7, <2>9, <2>10, <2>11, <2>12, <2>13
<1> QED BY <1>4, <1>5

\* collapse() from outside
LEMMA CollapseStep ==
    ASSUME IndInv, NEW o \in Objects, Collapse(o)
    PROVE  IndInv'
<1>1. stack = <<>> /\ Settled /\ stack' = Disintegrate(o, stack)
      /\ UNCHANGED <<state, connections, made, held, parts, linked, cleanups>>
    BY DEF Collapse, Idle
<1>2. Frames(stack) = {} /\ stack \in Seq(Frame) /\ Nested(stack, Parts)
    BY <1>1, NoFrames DEF IndInv, TypeOK, Nesting
<1> QED BY <1>1, <1>2, DisintegrateStep

\* The slot of a link collapses a larger object, and neither is a part.
LEMMA CollapseLinkedStep ==
    ASSUME IndInv, stack # <<>>, NEW e \in Top.todo, CollapseLinked(e)
    PROVE  IndInv'
<1> DEFINE o == e.of.context
<1>1. /\ Settled /\ ~Top.deleting /\ e.does = "call" /\ e.of.kind = "link"
      /\ stack' = Disintegrate(o, Advanced(e))
      /\ UNCHANGED <<state, connections, made, held, parts, linked, cleanups>>
    BY DEF CollapseLinked, HasSlot, Emitting
<1>2. PICK g \in Frame :
        /\ g.object = Top.object /\ g.slots = Top.slots /\ g.todo = Top.todo \ {e}
        /\ g.deleting = Top.deleting /\ g.left = Top.left
        /\ Advanced(e) \in Seq(Frame)
        /\ Frames(Advanced(e)) = {g} \cup Frames(Outer)
        /\ Nested(Advanced(e), Parts)
        /\ FrameOK(g)
    BY Advance
<1>3. /\ Frames(stack) = {Top} \cup Frames(Outer) /\ Top \in Frame /\ FrameOK(Top)
      /\ \A f \in Frames(Outer) : FrameOK(f) /\ Within(Top, f, Parts)
    BY TopFrame
<1>4. <<o, Top.object>> \in linked
    BY <1>1, <1>3 DEF FrameOK, SlotOK, ConnectionOK
<1>5. o \in Objects /\ Top.object < o /\ o \notin Parts /\ Top.object \notin Parts
    BY <1>4 DEF IndInv, TypeOK, LinksOK
<1>6. \A f \in Frames(Advanced(e)) :
        FrameOK(f) /\ ~f.deleting /\ f.object \notin Parts /\ f.object < o
    <2>1. ASSUME NEW f \in Frames(Outer)
          PROVE  ~f.deleting /\ f.object \notin Parts /\ f.object < o
        <3>1. ~f.deleting /\ f.object \notin Parts /\ f.object < Top.object
            BY <1>1, <1>3, <1>5, <2>1 DEF Within
        <3>2. f \in Frame
            BY <2>1, TopFrame DEF Frames
        <3>3. f.object \in Nat /\ Top.object \in Nat /\ o \in Nat
            BY <1>3, <1>5, <3>2 DEF Frame, Objects
        <3> QED BY <1>5, <3>1, <3>3
    <2> QED BY <1>1, <1>2, <1>3, <1>5, <2>1
<1>7. Closer(Top, g, o)
    <2>1. \A d \in Top.todo : d \in g.todo \/ d = e
        BY <1>2
    <2> QED BY <1>1, <1>2, <2>1 DEF Closer
<1>8. \A f \in Frames(Outer) : Closer(f, f, o)
    BY DEF Closer
<1> HIDE DEF o
<1> QED BY <1>1, <1>2, <1>3, <1>5, <1>6, <1>7, <1>8, DisintegrateStep

\* A destructor collapses a part or returns.
LEMMA DestructorStep ==
    ASSUME IndInv, Destructor
    PROVE  IndInv'
<1>1. /\ stack # <<>> /\ Settled /\ Top.deleting
      /\ UNCHANGED <<state, connections, made, held, parts, linked, cleanups>>
    BY DEF Destructor
<1>2. /\ Frames(stack) = {Top} \cup Frames(Outer) /\ Top \in Frame /\ FrameOK(Top)
      /\ Outer \in Seq(Frame) /\ Nested(Outer, Parts)
      /\ \A f \in Frames(Outer) : FrameOK(f) /\ Within(Top, f, Parts)
    BY <1>1, TopFrame
<1>3. CASE \E p \in Top.left :
            stack' = Disintegrate(p, <<[Top EXCEPT !.left = @ \ {p}]>> \o Outer)
    <2>1. PICK p \in Top.left :
            stack' = Disintegrate(p, <<[Top EXCEPT !.left = @ \ {p}]>> \o Outer)
        BY <1>3
    <2> DEFINE x == [Top EXCEPT !.left = @ \ {p}]
    <2>2. /\ x \in Frame /\ x.object = Top.object /\ x.slots = Top.slots /\ x.todo = Top.todo
          /\ x.deleting = Top.deleting /\ x.left = Top.left \ {p}
        BY <1>2 DEF Frame
    <2>3. stack' = Disintegrate(p, <<x>> \o Outer)
        BY <2>1
    <2> HIDE DEF x
    <2>4. p \in Objects /\ p \in Parts
        <3>1. Top.object \in Objects /\ p \in parts[Top.object]
            BY <1>1, <1>2 DEF Frame, FrameOK
        <3> QED BY <3>1 DEF Parts, IndInv, TypeOK
    <2>5. FrameOK(x) /\ \A f \in Frames(Outer) : Within(x, f, Parts)
        BY <1>1, <1>2, <2>2 DEF FrameOK, Within
    <2>6. /\ <<x>> \o Outer \in Seq(Frame) /\ Frames(<<x>> \o Outer) = {x} \cup Frames(Outer)
          /\ Nested(<<x>> \o Outer, Parts)
        BY <1>2, <2>2, <2>5, PushFrame, NestedPush
    <2>7. \A f \in Frames(<<x>> \o Outer) :
            FrameOK(f) /\ (~f.deleting => f.object \notin Parts)
        BY <1>1, <1>2, <2>2, <2>5, <2>6 DEF Within
    <2>8. Closer(Top, x, p)
        BY <2>2 DEF Closer
    <2>9. \A f \in Frames(Outer) : Closer(f, f, p)
        BY DEF Closer
    <2> QED BY <1>1, <1>2, <2>3, <2>4, <2>6, <2>7, <2>8, <2>9, DisintegrateStep
<1>4. CASE Top.left = {} /\ stack' = Outer
    <2> USE DEF IndInv
    <2>1. TypeOK'
        BY <1>1, <1>2, <1>4 DEF TypeOK
    <2>2. Parts' = Parts
        BY <1>1 DEF Parts
    <2>3. LinksOK' /\ PartsOK' /\ ConnectionsOK' /\ Nesting'
        BY <1>1, <1>2, <1>4, <2>2 DEF LinksOK, PartsOK, ConnectionsOK, ConnectionOK, Nesting
    <2>4. FramesOK'
        BY <1>1, <1>2, <1>4 DEF FramesOK, FrameOK, SlotOK, ConnectionOK
    <2>5. PartsSettled'
        <3> SUFFICES ASSUME Outer # <<>> PROVE ~Head(Outer).deleting => Head(Outer).object \notin Parts
            BY <1>4, <2>2 DEF PartsSettled, Top
        <3>1. Head(Outer) \in Frames(Outer)
            BY <1>2, PopFrame
        <3> QED BY <1>2, <3>1 DEF Within
    <2>6. \A p \in Objects : Collapsing(p)' <=> Collapsing(p)
        BY <1>1, <1>2, <1>4 DEF Collapsing
    <2>7. CleanUpsOK' /\ EmissionsClean'
        BY <1>1, <1>2, <1>4, <2>6 DEF CleanUpsOK, EmissionsClean
    <2>8. ConnectionsBroken'
        BY <1>1, <1>2, <1>4 DEF ConnectionsBroken, Mentions
    <2>9. LinksPending'
        <3> SUFFICES ASSUME NEW q \in linked, state[q[1]] = "integrated"
                     PROVE  LinkPending(q[1], q[2])'
            BY <1>1 DEF LinksPending
        <3>1. LinkPending(q[1], q[2]) /\ q[1] \in Objects /\ q[2] \in Objects
            BY DEF LinksPending, TypeOK
        <3> QED BY <1>1, <1>2, <1>4, <2>6, <3>1 DEF LinkPending
    <2>10. PartsPending'
        BY <1>1, <1>2, <1>4, <2>6 DEF PartsPending
    <2> QED BY <2>1, <2>3, <2>4, <2>5, <2>7, <2>8, <2>9, <2>10
<1> QED BY <1>3, <1>4 DEF Destructor

-----------------------------------------------------------------------------
(* The theorems *)

\* Every step keeps the invariant.
LEMMA IndInvStep == IndInv /\ [Next]_vars => IndInv'
<1> SUFFICES ASSUME IndInv, [Next]_vars PROVE IndInv'
    OBVIOUS
<1>1. CASE Next
    <2>1. CASE \E o \in Objects : \E members \in SUBSET held : Create(o, members)
        BY <2>1, CreateStep
    <2>2. CASE \E o, p \in Objects : Connect(o, p) \/ Link(o, p)
        BY <2>2, ConnectStep
    <2>3. CASE \E o \in Objects : Release(o) \/ Collapse(o)
        BY <2>3, ReleaseStep, CollapseStep
    <2>4. CASE Calls
        <3>1. CASE stack # <<>> /\ \E e \in Top.todo : CleanUp(e) \/ CollapseLinked(e) \/ Break(e)
            BY <3>1, CleanUpStep, CollapseLinkedStep, BreakStep
        <3>2. CASE Return
            BY <3>2, ReturnStep
        <3>3. CASE \E o \in Objects : Delete(o)
            BY <3>3, DeleteStep
        <3>4. CASE Destructor
            BY <3>4, DestructorStep
        <3> QED BY <2>4, <3>1, <3>2, <3>3, <3>4 DEF Calls
    <2> QED BY <1>1, <2>1, <2>2, <2>3, <2>4 DEF Next
<1>2. CASE UNCHANGED vars
    <2>1. Parts' = Parts /\ Top' = Top
        BY <1>2 DEF Parts, Top, vars
    <2>2. TypeOK' /\ LinksOK' /\ PartsOK' /\ ConnectionsOK' /\ FramesOK' /\ Nesting'
        BY <1>2, <2>1 DEF vars, IndInv, TypeOK, LinksOK, PartsOK, ConnectionsOK, ConnectionOK,
            FramesOK, FrameOK, SlotOK, Nesting
    <2>3. PartsSettled'
        BY <1>2, <2>1 DEF vars, IndInv, PartsSettled, Settled, Unreferenced, Referenced
    <2>4. CleanUpsOK' /\ EmissionsClean' /\ ConnectionsBroken'
        BY <1>2 DEF vars, IndInv, CleanUpsOK, Collapsing, EmissionsClean, ConnectionsBroken
    <2>5. LinksPending' /\ PartsPending'
        BY <1>2 DEF vars, IndInv, LinksPending, LinkPending, Collapsing, PartsPending
    <2> QED BY <2>2, <2>3, <2>4, <2>5 DEF IndInv
<1> QED BY <1>1, <1>2

\* The invariant holds for any number of objects and connections.
THEOREM Invariant == Spec => []IndInv
BY IndInvInit, IndInvStep, PTL DEF Spec

\* The types of Lifecycle's state.
THEOREM TypeCorrect == Spec => []TypeOK
<1>1. IndInv => TypeOK
    BY DEF IndInv
<1> QED BY <1>1, Invariant, PTL

\* However collapses are nested, the slot an object has connected to its own
\* signal destroyed runs once, and before the object is deleted.
THEOREM AlwaysCleanedUpOnce == Spec => []CleanedUpOnce
<1>1. IndInv => CleanedUpOnce
    <2> SUFFICES ASSUME IndInv, NEW o \in Objects
                 PROVE  /\ cleanups[o] <= 1
                        /\ o \in Own /\ state[o] \in {"disintegrated", "deleted"} => cleanups[o] = 1
        BY DEF CleanedUpOnce
    <2>1. CASE Collapsing(o)
        <3>1. PICK f \in Frames(stack) : ~f.deleting /\ f.object = o
            BY <2>1 DEF Collapsing
        <3>2. state[o] = "integrated"
            BY <3>1 DEF IndInv, FramesOK, FrameOK
        <3>3. cleanups[o] \in {0, 1}
            BY <3>1 DEF IndInv, CleanUpsOK, EmissionsClean
        <3> QED BY <3>2, <3>3
    <2>2. CASE ~Collapsing(o)
        <3>1. cleanups[o] \in {0, 1}
            BY <2>2 DEF IndInv, CleanUpsOK, TypeOK
        <3> QED BY <3>1 DEF IndInv, CleanUpsOK
    <2> QED BY <2>1, <2>2
<1> QED BY <1>1, Invariant, PTL

\* disintegrate() of an object is never entered while it is in progress, though
\* its state is set only when it returns.
THEOREM NeverEnteredAgain == Spec => []NotEnteredAgain
<1>1. IndInv => NotEnteredAgain
    <2> SUFFICES ASSUME IndInv, NEW i \in 1..Len(stack), NEW j \in 1..Len(stack), i < j,
                        ~stack[i].deleting, ~stack[j].deleting
                 PROVE  stack[i].object # stack[j].object
        BY DEF NotEnteredAgain
    <2>1. stack[i] \in Frame
        BY DEF IndInv, TypeOK
    <2>2. stack[i].object \in Nat
        BY <2>1 DEF Frame, Objects
    <2>3. Within(stack[i], stack[j], Parts)
        BY DEF IndInv, Nesting, Nested
    <2> QED BY <2>2, <2>3 DEF Within
<1> QED BY <1>1, Invariant, PTL

\* When a collapse has returned, whatever was linked to a collapsed object and
\* whatever a deleted object had as a part is collapsed.
THEOREM CascadesComplete == Spec => []CascadeComplete
<1>1. IndInv => CascadeComplete
    <2> SUFFICES ASSUME IndInv, Idle
                 PROVE  /\ \A q \in linked : state[q[2]] # "integrated" => state[q[1]] # "integrated"
                        /\ \A o \in Objects : state[o] = "deleted" =>
                            \A p \in parts[o] : state[p] # "integrated"
        BY DEF CascadeComplete
    <2>1. Frames(stack) = {}
        BY NoFrames DEF Idle
    <2>2. ASSUME NEW q \in linked, state[q[1]] = "integrated" PROVE state[q[2]] = "integrated"
        <3>1. PICK c \in connections : IsLink(c, q[1], q[2])
            BY <2>1, <2>2 DEF IndInv, LinksPending, LinkPending, Collapsing
        <3> QED BY <3>1 DEF IndInv, ConnectionsBroken, Mentions, IsLink
    <2>3. ASSUME NEW o \in Objects, state[o] = "deleted", NEW p \in parts[o]
          PROVE  state[p] # "integrated"
        <3>1. p \in Objects
            BY <2>3 DEF IndInv, TypeOK
        <3> QED BY <2>1, <2>3, <3>1 DEF IndInv, PartsPending, Collapsing
    <2> QED BY <2>2, <2>3
<1> QED BY <1>1, Invariant, PTL

\* A connection never refers to an object that is collapsed.
THEOREM CollapsedAlwaysFree == Spec => []CollapsedIsFree
<1>1. IndInv => CollapsedIsFree
    BY DEF IndInv, ConnectionsBroken, CollapsedIsFree
<1> QED BY <1>1, Invariant, PTL

-----------------------------------------------------------------------------
(* Handler *)

\* A thread inside post() has counted the call it is posting, so that the
\* call it pushes is one of Call.
BegunPosts == \A t \in Threads : post[t] \in {"lock", "push"} => npost[t] > 0

\* The inductive invariant.
HandlerInv ==
    /\ HandlerTypeOK
    /\ BegunPosts
    /\ NoLostWakeup
    /\ NoBlockingRead

-----------------------------------------------------------------------------
\* The initial states satisfy the inductive invariant.
LEMMA HandlerInvInit == HandlerInit => HandlerInv
<1> SUFFICES ASSUME HandlerInit PROVE HandlerInv
    OBVIOUS
<1>1. HandlerTypeOK
    <2>1. queue \in Seq(Call) /\ ran \in Seq(Call)
        BY EmptySeq DEF HandlerInit
    <2>2. npost \in [Threads -> 0..MaxPosts]
        BY HandlerAssumption DEF HandlerInit
    <2>3. mutex \in Threads \cup {NoThread} /\ post \in [Threads -> {"idle", "lock", "push", "write"}]
        BY DEF HandlerInit
    <2> QED BY <2>1, <2>2, <2>3 DEF HandlerInit, HandlerTypeOK
<1>2. BegunPosts
    BY DEF HandlerInit, BegunPosts
<1>3. NoLostWakeup /\ NoBlockingRead
    BY DEF HandlerInit, NoLostWakeup, NoBlockingRead
<1> QED BY <1>1, <1>2, <1>3 DEF HandlerInv

\* Every step keeps the types.  BegunPosts is what makes a pushed call a Call.
LEMMA HandlerTypeStep == HandlerTypeOK /\ BegunPosts /\ HandlerNext => HandlerTypeOK'
<1> SUFFICES ASSUME HandlerTypeOK, BegunPosts, HandlerNext PROVE HandlerTypeOK'
    OBVIOUS
<1> USE HandlerAssumption DEF HandlerTypeOK
<1>1. ASSUME NEW t \in Threads, PostNext(t) PROVE HandlerTypeOK'
    <2>1. CASE PostCall(t)
        BY <1>1, <2>1 DEF PostCall
    <2>2. CASE PostLock(t)
        BY <1>1, <2>2 DEF PostLock
    <2>3. CASE PostPush(t)
        <3>1. <<t, npost[t]>> \in Call
            BY <1>1, <2>3 DEF PostPush, BegunPosts, Call
        <3> QED BY <1>1, <2>3, <3>1 DEF PostPush
    <2>4. CASE PostWrite(t)
        BY <1>1, <2>4 DEF PostWrite
    <2> QED BY <1>1, <2>1, <2>2, <2>3, <2>4 DEF PostNext, InPost
<1>2. CASE EpollWait
    BY <1>2 DEF EpollWait
<1>3. CASE ReadCounter
    BY <1>3 DEF ReadCounter
<1>4. CASE QueueLock
    BY <1>4 DEF QueueLock, Threads
<1>5. CASE QueuePop
    <2>1. Head(queue) \in Call /\ Tail(queue) \in Seq(Call)
        BY <1>5, HeadTailProperties DEF QueuePop
    <2> QED BY <1>5, <2>1 DEF QueuePop
<1>6. CASE CallReturn
    BY <1>6 DEF CallReturn
<1>7. CASE QueueEmpty
    BY <1>7 DEF QueueEmpty
<1> QED BY <1>1, <1>2, <1>3, <1>4, <1>5, <1>6, <1>7 DEF HandlerNext, LoopNext

\* Every step keeps the inductive invariant.
LEMMA HandlerInvStep == HandlerInv /\ [HandlerNext]_handlerVars => HandlerInv'
<1> SUFFICES ASSUME HandlerInv, [HandlerNext]_handlerVars PROVE HandlerInv'
    OBVIOUS
<1>1. CASE UNCHANGED handlerVars
    BY <1>1 DEF handlerVars, HandlerInv, HandlerTypeOK, BegunPosts, NoLostWakeup, NoBlockingRead
<1>2. CASE HandlerNext
    <2>1. HandlerTypeOK'
        BY <1>2, HandlerTypeStep DEF HandlerInv
    <2> USE DEF HandlerInv, HandlerTypeOK
    <2>2. ASSUME NEW t \in Threads, PostNext(t)
          PROVE  BegunPosts' /\ NoLostWakeup' /\ NoBlockingRead'
        <3>1. CASE PostCall(t)
            BY <2>2, <3>1 DEF PostCall, BegunPosts, NoLostWakeup, NoBlockingRead
        <3>2. CASE PostLock(t)
            BY <2>2, <3>2 DEF PostLock, BegunPosts, NoLostWakeup, NoBlockingRead
        <3>3. CASE PostPush(t)
            BY <2>2, <3>3 DEF PostPush, BegunPosts, NoLostWakeup, NoBlockingRead
        <3>4. CASE PostWrite(t)
            BY <2>2, <3>4 DEF PostWrite, BegunPosts, NoLostWakeup, NoBlockingRead
        <3> QED BY <2>2, <3>1, <3>2, <3>3, <3>4 DEF PostNext, InPost
    <2>3. ASSUME LoopNext
          PROVE  BegunPosts' /\ NoLostWakeup' /\ NoBlockingRead'
        <3>1. CASE EpollWait
            \* The edge is given up only when it is reported or stale.
            BY <3>1 DEF EpollWait, BegunPosts, NoLostWakeup, NoBlockingRead
        <3>2. CASE ReadCounter
            BY <3>2 DEF ReadCounter, BegunPosts, NoLostWakeup, NoBlockingRead
        <3>3. CASE QueueLock
            BY <3>3 DEF QueueLock, BegunPosts, NoLostWakeup, NoBlockingRead
        <3>4. CASE QueuePop
            BY <3>4 DEF QueuePop, BegunPosts, NoLostWakeup, NoBlockingRead
        <3>5. CASE CallReturn
            BY <3>5 DEF CallReturn, BegunPosts, NoLostWakeup, NoBlockingRead
        <3>6. CASE QueueEmpty
            BY <3>6 DEF QueueEmpty, BegunPosts, NoLostWakeup, NoBlockingRead
        <3> QED BY <2>3, <3>1, <3>2, <3>3, <3>4, <3>5, <3>6 DEF LoopNext
    <2> QED BY <1>2, <2>1, <2>2, <2>3 DEF HandlerNext
<1> QED BY <1>1, <1>2

\* The inductive invariant holds in every behaviour of the handler.
THEOREM HandlerInvariance == HandlerSpec => []HandlerInv
BY HandlerInvInit, HandlerInvStep, PTL DEF HandlerSpec

\* The handler is type correct, for any posters and any number of posts.
THEOREM HandlerTypeCorrect == HandlerSpec => []HandlerTypeOK
<1>1. HandlerInv => HandlerTypeOK
    BY DEF HandlerInv
<1> QED BY <1>1, HandlerInvariance, PTL

\* No wake-up is lost between a push, the eventfd and epoll: for any number
\* of posting threads, the loop never sleeps on a queued call that nobody is
\* going to wake it for.
THEOREM NoWakeupLost == HandlerSpec => []NoLostWakeup
<1>1. HandlerInv => NoLostWakeup
    BY DEF HandlerInv
<1> QED BY <1>1, HandlerInvariance, PTL

\* The loop's thread never hangs in the read of its eventfd.
THEOREM ReadNeverBlocks == HandlerSpec => []NoBlockingRead
<1>1. HandlerInv => NoBlockingRead
    BY DEF HandlerInv
<1> QED BY <1>1, HandlerInvariance, PTL

-----------------------------------------------------------------------------
(* Refinement: every step of the handler is a step of CallQueue or leaves   *)
(* its state alone.  Only the push and the pop are visible.                 *)

LEMMA QueueInit == HandlerInit => Queue!Init
<1> SUFFICES ASSUME HandlerInit PROVE Queue!Init
    OBVIOUS
<1>1. ran = <<>> /\ queue = <<>>
    BY DEF HandlerInit
<1>2. ran \o queue = <<>> /\ Len(ran) = 0
    BY <1>1
<1> QED BY <1>2 DEF Queue!Init

LEMMA QueueStep == HandlerInv /\ [HandlerNext]_handlerVars => [Queue!Next]_(Queue!vars)
<1> SUFFICES ASSUME HandlerInv, [HandlerNext]_handlerVars PROVE [Queue!Next]_(Queue!vars)
    OBVIOUS
<1> USE DEF HandlerInv, HandlerTypeOK
<1>1. CASE UNCHANGED <<ran, queue>>
    BY <1>1 DEF Queue!vars
<1>2. ASSUME NEW t \in Threads, PostPush(t) PROVE Queue!Post
    <2>1. <<t, npost[t]>> \in Call
        BY <1>2, HandlerAssumption DEF PostPush, BegunPosts, Call
    <2>2. ran' = ran /\ queue' = Append(queue, <<t, npost[t]>>)
        BY <1>2 DEF PostPush
    <2>3. ran \o Append(queue, <<t, npost[t]>>) = Append(ran \o queue, <<t, npost[t]>>)
        BY <2>1
    <2> QED BY <2>1, <2>2, <2>3 DEF Queue!Post
<1>3. CASE QueuePop
    <2>1. ran' = Append(ran, Head(queue)) /\ queue' = Tail(queue) /\ queue # <<>>
        BY <1>3 DEF QueuePop
    <2>2. Head(queue) \in Call /\ Tail(queue) \in Seq(Call)
        BY <2>1, HeadTailProperties
    <2>3. ran' \o queue' = ran \o queue
        BY <2>1, <2>2
    <2>4. Len(ran') = Len(ran) + 1 /\ Len(ran) < Len(ran \o queue)
        BY <2>1, <2>2
    <2> QED BY <2>3, <2>4 DEF Queue!Start, Queue!Next
<1>4. CASE HandlerNext
    <2>1. ASSUME NEW t \in Threads, PostNext(t)
          PROVE  PostPush(t) \/ UNCHANGED <<ran, queue>>
        BY <2>1 DEF PostNext, InPost, PostCall, PostLock, PostWrite
    <2>2. ASSUME LoopNext PROVE QueuePop \/ UNCHANGED <<ran, queue>>
        BY <2>2 DEF LoopNext, EpollWait, ReadCounter, QueueLock, CallReturn, QueueEmpty
    <2> QED BY <1>1, <1>2, <1>3, <1>4, <2>1, <2>2 DEF HandlerNext, Queue!Next
<1> QED BY <1>1, <1>4 DEF handlerVars

\* The handler implements the safety part of CallQueue: calls are started in
\* the order of their push and each at most once, whatever the interleaving.
THEOREM HandlerRefinesCallQueue == HandlerSpec => StartsInOrder
BY QueueInit, QueueStep, HandlerInvariance, PTL DEF HandlerSpec, StartsInOrder, Queue!SafeSpec
=============================================================================
