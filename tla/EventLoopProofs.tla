--------------------------- MODULE EventLoopProofs ---------------------------
(***************************************************************************)
(* The event loop, for any number of clients, codes and expirations and any *)
(* size of a batch: events reach living objects, no edge is missed, and a   *)
(* socket is held by exactly those who should hold it.                      *)
(***************************************************************************)
EXTENDS EventLoop, FiniteSetTheorems, SequenceTheorems, TLAPS

Once(list) == \A i, j \in 1 .. Len(list) : list[i] = list[j] => i = j

OneEventEach(events) ==
    \A i, j \in 1 .. Len(events) : events[i].fd = events[j].fd => i = j

\* An event with this mask is yet to be handled.
Pending(events, f, mask) ==
    \E i \in 1 .. Len(events) : events[i].fd = f /\ events[i].mask = mask

\* epoll's list has a descriptor once, and only ones that are registered.
ListGood ==
    /\ Once(ready)
    /\ \A c \in Clients : Contains(ready, c) => object[c] = "open"

\* What waits to be accepted has no object yet.
BacklogGood ==
    /\ Once(backlog)
    /\ \A c \in Clients : Contains(backlog, c) => peer[c] # "none" /\ object[c] = "none"
    /\ \A c \in Clients : peer[c] = "none" => object[c] = "none"

\* A descriptor has one event in a batch; event_() of a socket is what is called.
BatchGood ==
    /\ OneEventEach(batch)
    /\ phase \in {"reading", "receiving", "leaving"} => Current \in Clients
    /\ phase \in {"reading", "receiving"} => Head(batch).mask = "in"

Called(c) == phase \in {"reading", "receiving", "leaving"} /\ Current = c

\* The references to a socket, counted exactly
HeldBy(c) ==
    (IF object[c] = "open" THEN {"loop", "connections"} ELSE {})
    \cup (IF Called(c) THEN {"call"} ELSE {})

SocketsGood ==
    \A c \in Clients :
        /\ object[c] = "open" <=> c = connected
        /\ object[c] = "closed" <=> phase = "leaving" /\ Current = c /\ c # connected
        /\ holders[c] = HeldBy(c)

\* What has happened to a descriptor is on epoll's list or in the batch.
EdgesKept ==
    /\ backlog # <<>> => Contains(ready, Server)
    /\ \A c \in Clients : object[c] = "open" =>
        /\ peer[c] = "closed" => Contains(ready, c) \/ Pending(batch, c, "hangup")
        /\ unread[c] # <<>> => \/ Contains(ready, c)
                               \/ Pending(batch, c, "in") \/ Pending(batch, c, "hangup")

IndInv ==
    TypeOK /\ EventsAlive /\ ListGood /\ BacklogGood /\ BatchGood /\ SocketsGood /\ EdgesKept

-----------------------------------------------------------------------------
(* Sequences *)

\* A sequence is empty when it has no elements.
LEMMA EmptyLen ==
    ASSUME NEW S, NEW s \in Seq(S)
    PROVE  s = <<>> <=> Len(s) = 0
    BY EmptySeq, LenProperties

\* What Append does to the elements
LEMMA AppendFacts ==
    ASSUME NEW S, NEW s \in Seq(S), NEW e \in S
    PROVE  /\ Append(s, e) \in Seq(S)
           /\ \A f : Contains(Append(s, e), f) <=> Contains(s, f) \/ f = e
           /\ Once(s) /\ ~Contains(s, e) => Once(Append(s, e))
<1>1. /\ Append(s, e) \in Seq(S) /\ Len(Append(s, e)) = Len(s) + 1 /\ Len(s) \in Nat
      /\ \A i \in 1 .. Len(s) : Append(s, e)[i] = s[i]
      /\ Append(s, e)[Len(s) + 1] = e
    BY AppendProperties, LenProperties
<1> QED BY <1>1 DEF Contains, Once

\* What Tail does to the elements
LEMMA TailFacts ==
    ASSUME NEW S, NEW s \in Seq(S), s # <<>>, Once(s)
    PROVE  /\ Tail(s) \in Seq(S) /\ Head(s) \in S /\ Once(Tail(s))
           /\ Contains(s, Head(s))
           /\ \A f : Contains(Tail(s), f) <=> Contains(s, f) /\ f # Head(s)
<1>1. /\ Tail(s) \in Seq(S) /\ Len(Tail(s)) = Len(s) - 1 /\ Head(s) \in S
      /\ \A i \in 1 .. Len(Tail(s)) : Tail(s)[i] = s[i + 1]
      /\ Len(s) \in Nat \ {0}
    BY HeadTailProperties, EmptySeq
<1>2. Head(s) = s[1]
    OBVIOUS
<1>3. ASSUME NEW f, Contains(s, f), f # Head(s)
      PROVE  Contains(Tail(s), f)
    <2>1. PICK i \in 1 .. Len(s) : s[i] = f
        BY <1>3 DEF Contains
    <2>2. i # 1 /\ i - 1 \in 1 .. Len(Tail(s)) /\ Tail(s)[i - 1] = s[(i - 1) + 1]
        BY <1>1, <1>2, <1>3, <2>1
    <2> QED BY <2>1, <2>2 DEF Contains
<1>4. ASSUME NEW f, Contains(Tail(s), f)
      PROVE  Contains(s, f) /\ f # Head(s)
    <2>1. PICK i \in 1 .. Len(Tail(s)) : Tail(s)[i] = f
        BY <1>4 DEF Contains
    <2> QED BY <1>1, <1>2, <2>1 DEF Contains, Once
<1>5. Once(Tail(s)) /\ Contains(s, Head(s))
    BY <1>1, <1>2 DEF Once, Contains
<1> QED BY <1>1, <1>3, <1>4, <1>5

\* Taking a descriptor from epoll's list leaves the others.
LEMMA WithoutFacts ==
    ASSUME NEW S, ready \in Seq(S), Once(ready), NEW f
    PROVE  /\ Without(f) \in Seq(S) /\ Once(Without(f))
           /\ \A g : Contains(Without(f), g) <=> Contains(ready, g) /\ g # f
<1>1. CASE ~Contains(ready, f)
    BY <1>1 DEF Without
<1>2. CASE Contains(ready, f)
    <2> DEFINE k == CHOOSE i \in 1 .. Len(ready) : ready[i] = f
               front == SubSeq(ready, 1, k - 1)
               back == SubSeq(ready, k + 1, Len(ready))
    <2>1. k \in 1 .. Len(ready) /\ ready[k] = f
        BY <1>2 DEF Contains
    <2> HIDE DEF k
    <2>2. Len(ready) \in Nat /\ \A i \in 1 .. Len(ready) : ready[i] \in S
        BY LenProperties, ElementOfSeq
    <2>3. front \in Seq(S) /\ Len(front) = k - 1 /\ \A i \in 1 .. k - 1 : front[i] = ready[i]
        BY <2>1, <2>2, SubSeqProperties
    <2>4. /\ back \in Seq(S) /\ Len(back) = Len(ready) - k
          /\ \A i \in 1 .. Len(ready) - k : back[i] = ready[k + i]
        BY <2>1, <2>2, SubSeqProperties
    <2>5. Without(f) = front \o back
        BY <1>2 DEF Without, RemoveAt, k
    <2> HIDE DEF front, back
    <2>6. /\ front \o back \in Seq(S) /\ Len(front \o back) = Len(ready) - 1
          /\ \A i \in 1 .. Len(ready) - 1 :
                (front \o back)[i] = IF i < k THEN ready[i] ELSE ready[i + 1]
        <3>1. /\ front \o back \in Seq(S) /\ Len(front \o back) = Len(front) + Len(back)
              /\ \A i \in 1 .. Len(front) + Len(back) :
                    (front \o back)[i] = IF i <= Len(front) THEN front[i] ELSE back[i - Len(front)]
            BY <2>3, <2>4, ConcatProperties
        <3>2. ASSUME NEW i \in 1 .. Len(ready) - 1
              PROVE  (front \o back)[i] = IF i < k THEN ready[i] ELSE ready[i + 1]
            <4>1. CASE i < k
                BY <2>1, <2>2, <2>3, <2>4, <3>1, <4>1
            <4>2. CASE ~(i < k)
                <5>1. i - (k - 1) \in 1 .. Len(ready) - k /\ k + (i - (k - 1)) = i + 1
                    BY <2>1, <2>2, <4>2
                <5>2. (front \o back)[i] = back[i - (k - 1)]
                    BY <2>1, <2>2, <2>3, <2>4, <3>1, <4>2
                <5> QED BY <2>4, <4>2, <5>1, <5>2
            <4> QED BY <4>1, <4>2
        <3> QED BY <2>1, <2>2, <2>3, <2>4, <3>1, <3>2
    <2>7. Once(front \o back)
        BY SMTT(30), <2>1, <2>2, <2>6 DEF Once
    <2>8. ASSUME NEW g, Contains(ready, g), g # f
          PROVE  Contains(front \o back, g)
        <3>1. PICK i \in 1 .. Len(ready) : ready[i] = g
            BY <2>8 DEF Contains
        <3>2. CASE i < k
            <4>1. i \in 1 .. Len(ready) - 1
                BY <2>1, <2>2, <3>2
            <4> QED BY <2>6, <3>1, <3>2, <4>1 DEF Contains
        <3>3. CASE i > k
            <4>1. i - 1 \in 1 .. Len(ready) - 1 /\ ~(i - 1 < k) /\ (i - 1) + 1 = i
                BY <2>1, <2>2, <3>3
            <4> QED BY <2>6, <3>1, <4>1 DEF Contains
        <3> QED BY <2>1, <2>8, <3>1, <3>2, <3>3
    <2>9. ASSUME NEW g, Contains(front \o back, g)
          PROVE  Contains(ready, g) /\ g # f
        <3>1. PICK i \in 1 .. Len(ready) - 1 : (front \o back)[i] = g
            BY <2>6, <2>9 DEF Contains
        <3>2. CASE i < k
            <4>1. i \in 1 .. Len(ready) /\ i # k /\ ready[i] = g
                BY <2>1, <2>2, <2>6, <3>1, <3>2
            <4> QED BY <2>1, <4>1 DEF Contains, Once
        <3>3. CASE ~(i < k)
            <4>1. i + 1 \in 1 .. Len(ready) /\ i + 1 # k /\ ready[i + 1] = g
                BY <2>1, <2>2, <2>6, <3>1, <3>3
            <4> QED BY <2>1, <4>1 DEF Contains, Once
        <3> QED BY <3>2, <3>3
    <2> QED BY <2>5, <2>6, <2>7, <2>8, <2>9
<1> QED BY <1>1, <1>2

\* Waking a descriptor puts it on epoll's list, once.
LEMMA WokenFacts ==
    ASSUME ready \in Seq(Fds), Once(ready), NEW f \in Fds
    PROVE  /\ Woken(f) \in Seq(Fds) /\ Once(Woken(f))
           /\ \A g : Contains(Woken(f), g) <=> Contains(ready, g) \/ g = f
    BY AppendFacts DEF Woken

\* When event_() has returned, the event is gone, and the others are left.
LEMMA HandledFacts ==
    ASSUME TypeOK, batch # <<>>, OneEventEach(batch), Handled
    PROVE  /\ batch' \in Seq(Events) /\ Len(batch') <= MaxEvents
           /\ phase' \in {"wait", "event"} /\ (phase' = "wait" <=> batch' = <<>>)
           /\ OneEventEach(batch')
           /\ Len(batch') = Len(batch) - 1 /\ Len(batch) \in Nat \ {0}
           /\ \A i \in 1 .. Len(batch') : batch'[i] = batch[i + 1] /\ batch'[i].fd # Current
           /\ \A c, mask : c # Current /\ Pending(batch, c, mask) => Pending(batch', c, mask)
<1>1. /\ batch' \in Seq(Events) /\ Len(batch') = Len(batch) - 1
      /\ \A i \in 1 .. Len(batch') : batch'[i] = batch[i + 1]
      /\ Len(batch) \in Nat \ {0} /\ Len(batch) <= MaxEvents
    BY HeadTailProperties, EmptySeq DEF TypeOK, Handled
<1>2. Current = batch[1].fd
    BY DEF Current
<1>3. \A i \in 1 .. Len(batch') : batch'[i].fd # Current
    BY <1>1, <1>2 DEF OneEventEach
<1>4. OneEventEach(batch')
    BY <1>1 DEF OneEventEach
<1>5. ASSUME NEW c, NEW mask, c # Current, Pending(batch, c, mask)
      PROVE  Pending(batch', c, mask)
    <2>1. PICK i \in 1 .. Len(batch) : batch[i].fd = c /\ batch[i].mask = mask
        BY <1>5 DEF Pending
    <2>2. i - 1 \in 1 .. Len(batch') /\ batch'[i - 1] = batch[(i - 1) + 1]
        BY <1>1, <1>2, <1>5, <2>1
    <2> QED BY <2>1, <2>2 DEF Pending
<1>6. Len(batch') <= MaxEvents /\ phase' \in {"wait", "event"} /\ (phase' = "wait" <=> batch' = <<>>)
    <2>1. MaxEvents \in Nat
        BY EventLoopAssumption DEF EventLoopConstants
    <2> QED BY <1>1, <2>1 DEF Handled
<1> QED BY <1>1, <1>3, <1>4, <1>5, <1>6

-----------------------------------------------------------------------------
(* epoll_wait *)

\* What is reported is reported as "in" or as "hangup", and the end of a client
\* always as the latter.
LEMMA MaskFacts ==
    ASSUME TypeOK, NEW f \in Fds
    PROVE  /\ Mask(f) \in {"", "in", "hangup"}
           /\ f \in Clients /\ peer[f] = "closed" => Mask(f) = "hangup"
           /\ f \in Clients /\ unread[f] # <<>> => Mask(f) # ""
           /\ f = Server /\ backlog # <<>> => Mask(f) # ""
<1>1. Server \notin Clients /\ Timer \notin Clients /\ Server # Timer
    BY EventLoopAssumption DEF EventLoopConstants
<1>2. CASE f \in Clients
    <2>1. Mask(f) = IF peer[f] = "closed" THEN "hangup" ELSE IF unread[f] # <<>> THEN "in" ELSE ""
        BY <1>1, <1>2 DEF Mask
    <2> QED BY <1>1, <1>2, <2>1
<1>3. CASE f = Server
    <2>1. Mask(f) = IF backlog # <<>> THEN "in" ELSE ""
        BY <1>1, <1>3 DEF Mask
    <2> QED BY <1>1, <1>3, <2>1
<1>4. CASE f = Timer
    <2>1. Mask(f) = IF expired THEN "in" ELSE ""
        BY <1>1, <1>4 DEF Mask
    <2> QED BY <1>1, <1>4, <2>1
<1> QED BY <1>2, <1>3, <1>4 DEF Fds

\* The batch holds each descriptor that was looked at and has something to
\* report, once; the others stay on the list, and the listening socket too.
LEMMA EpollFacts ==
    ASSUME TypeOK, Once(ready), EpollWait
    PROVE  /\ batch' \in Seq(Events) /\ Len(batch') <= MaxEvents
           /\ phase' \in {"wait", "event"} /\ (phase' = "wait" <=> batch' = <<>>)
           /\ OneEventEach(batch')
           /\ \A i \in 1 .. Len(batch') : Contains(ready, batch'[i].fd)
           /\ ready' \in Seq(Fds) /\ Once(ready')
           /\ \A f : Contains(ready', f) => Contains(ready, f)
           /\ \A f : Contains(ready, f) /\ Mask(f) # "" =>
                 Contains(ready', f) \/ Pending(batch', f, Mask(f))
           /\ Contains(ready, Server) /\ Mask(Server) # "" => Contains(ready', Server)
<1> DEFINE n == Cardinality(Reported)
           rest == SubSeq(ready, Looked + 1, Len(ready))
           again == IF \E i \in Reported : ready[i] = Server THEN <<Server>> ELSE <<>>
<1>1. /\ Len(ready) \in Nat /\ Looked \in 0 .. Len(ready) /\ Looked <= MaxEvents
      /\ MaxEvents \in Nat
      /\ \A i \in 1 .. Len(ready) : ready[i] \in Fds
    BY EventLoopAssumption, LenProperties, ElementOfSeq DEF TypeOK, EventLoopConstants, Looked
<1>2. Reported \subseteq 1 .. Looked /\ Reported \subseteq 1 .. Len(ready)
    <2>1. Reported \subseteq 1 .. Looked
        BY DEF Reported
    <2>2. 1 .. Looked \subseteq 1 .. Len(ready)
        BY <1>1
    <2> QED BY <2>1, <2>2
<1>3. IsFiniteSet(Reported) /\ n \in Nat /\ n <= MaxEvents /\ (n = 0 <=> Reported = {})
    <2>1. \A a, b \in Int : IsFiniteSet(a .. b) /\ Cardinality(a .. b) = IF a > b THEN 0 ELSE b - a + 1
        BY FS_Interval
    <2> DEFINE places == 1 .. Looked
    <2>2. IsFiniteSet(places) /\ Cardinality(places) = Looked
        <3>1. 1 \in Int /\ Looked \in Int
            BY <1>1
        <3>2. Cardinality(places) = IF 1 > Looked THEN 0 ELSE Looked - 1 + 1
            BY <2>1, <3>1
        <3>3. IsFiniteSet(places)
            BY <2>1, <3>1
        <3> HIDE DEF places
        <3> QED BY <1>1, <3>2, <3>3
    <2>3. Reported \subseteq places
        BY <1>2
    <2> HIDE DEF places
    <2>4. IsFiniteSet(Reported) /\ n <= Cardinality(places)
        BY <2>2, <2>3, FS_Subset
    <2>5. n \in Nat /\ (n = 0 <=> Reported = {})
        BY <2>4, FS_CardinalityType, FS_EmptySet
    <2> QED BY <1>1, <2>2, <2>4, <2>5
<1>4. PICK order \in InOrder(Reported) :
        batch' = [i \in 1 .. n |-> [fd |-> ready[order[i]], mask |-> Mask(ready[order[i]])]]
    BY DEF EpollWait
<1> HIDE DEF n
<1>5. /\ order \in [1 .. n -> Reported]
      /\ \A i, j \in 1 .. n : order[i] = order[j] => i = j
      /\ \A p \in Reported : \E i \in 1 .. n : order[i] = p
    BY <1>4 DEF InOrder, Bijection, Injection, Surjection, IsInjective, n
<1>6. \A i \in 1 .. n : /\ order[i] \in Reported
                         /\ ready[order[i]] \in Fds
                         /\ Mask(ready[order[i]]) \in {"in", "hangup"}
    <2> TAKE i \in 1 .. n
    <2>1. order[i] \in Reported
        BY <1>5
    <2>2. ready[order[i]] \in Fds
        BY <1>1, <1>2, <2>1
    <2>3. Mask(ready[order[i]]) # ""
        BY <2>1 DEF Reported
    <2> QED BY <2>1, <2>2, <2>3, MaskFacts
<1>7. /\ batch' \in Seq(Events) /\ Len(batch') = n
      /\ \A i \in 1 .. n : batch'[i].fd = ready[order[i]] /\ batch'[i].mask = Mask(ready[order[i]])
    BY <1>3, <1>4, <1>6 DEF Events
<1>8. OneEventEach(batch')
    <2> SUFFICES ASSUME NEW i \in 1 .. n, NEW j \in 1 .. n, batch'[i].fd = batch'[j].fd
                 PROVE  i = j
        BY <1>7 DEF OneEventEach
    <2>1. order[i] \in 1 .. Len(ready) /\ order[j] \in 1 .. Len(ready)
        BY <1>2, <1>6
    <2>2. ready[order[i]] = ready[order[j]]
        BY <1>7
    <2> QED BY <1>5, <2>1, <2>2 DEF Once
<1>9. \A i \in 1 .. Len(batch') : Contains(ready, batch'[i].fd)
    BY <1>2, <1>6, <1>7 DEF Contains
<1>10. phase' \in {"wait", "event"} /\ (phase' = "wait" <=> batch' = <<>>)
    <2>1. batch' = <<>> <=> n = 0
        BY <1>3, <1>7, EmptyLen
    <2> QED BY <1>3, <2>1 DEF EpollWait
<1>11. /\ rest \in Seq(Fds) /\ Len(rest) = Len(ready) - Looked
       /\ \A i \in 1 .. Len(ready) - Looked : rest[i] = ready[Looked + i]
    BY <1>1, SubSeqProperties
<1>12. /\ again \in Seq(Fds) /\ \A f : Contains(again, f) <=> f = Server /\ \E i \in Reported : ready[i] = Server
       /\ Len(again) \in {0, 1} /\ \A i \in 1 .. Len(again) : again[i] = Server
    <2>1. CASE \E i \in Reported : ready[i] = Server
        <3>1. again = <<Server>> /\ Server \in Fds
            BY <2>1 DEF Fds
        <3> HIDE DEF again
        <3> QED BY <2>1, <3>1 DEF Contains
    <2>2. CASE ~\E i \in Reported : ready[i] = Server
        <3>1. again = <<>>
            BY <2>2
        <3> HIDE DEF again
        <3> QED BY <2>2, <3>1 DEF Contains
    <2> QED BY <2>1, <2>2
<1>13. ready' = rest \o again
    BY DEF EpollWait
<1> HIDE DEF rest, again
<1>14. /\ ready' \in Seq(Fds) /\ Len(ready') = Len(rest) + Len(again)
       /\ \A i \in 1 .. Len(rest) + Len(again) :
             ready'[i] = IF i <= Len(rest) THEN rest[i] ELSE again[i - Len(rest)]
    BY <1>11, <1>12, <1>13, ConcatProperties
<1>15. \A f : Contains(ready', f) <=> Contains(rest, f) \/ Contains(again, f)
    <2> TAKE f
    <2>1. ASSUME Contains(ready', f)
          PROVE  Contains(rest, f) \/ Contains(again, f)
        <3>1. PICK i \in 1 .. Len(ready') : ready'[i] = f
            BY <2>1 DEF Contains
        <3>2. CASE i <= Len(rest)
            BY <1>1, <1>11, <1>14, <3>1, <3>2 DEF Contains
        <3>3. CASE ~(i <= Len(rest))
            <4>1. i - Len(rest) \in 1 .. Len(again)
                BY <1>1, <1>11, <1>12, <1>14, <3>3
            <4> QED BY <1>14, <3>1, <3>3, <4>1 DEF Contains
        <3> QED BY <3>2, <3>3
    <2>2. ASSUME Contains(rest, f)
          PROVE  Contains(ready', f)
        <3>1. PICK i \in 1 .. Len(rest) : rest[i] = f
            BY <2>2 DEF Contains
        <3>2. i \in 1 .. Len(ready') /\ ready'[i] = f
            BY <1>1, <1>11, <1>12, <1>14, <3>1
        <3> QED BY <3>2 DEF Contains
    <2>3. ASSUME Contains(again, f)
          PROVE  Contains(ready', f)
        <3>1. PICK i \in 1 .. Len(again) : again[i] = f
            BY <2>3 DEF Contains
        <3>2. /\ Len(rest) + i \in 1 .. Len(ready') /\ (Len(rest) + i) - Len(rest) = i
              /\ ~(Len(rest) + i <= Len(rest))
            BY <1>1, <1>11, <1>12, <1>14, <3>1
        <3>3. ready'[Len(rest) + i] = f
            BY <1>14, <3>1, <3>2
        <3> QED BY <3>2, <3>3 DEF Contains
    <2> QED BY <2>1, <2>2, <2>3
<1>16. \A f : Contains(rest, f) => \E i \in Looked + 1 .. Len(ready) : ready[i] = f
    <2> TAKE f
    <2> HAVE Contains(rest, f)
    <2>1. PICK i \in 1 .. Len(rest) : rest[i] = f
        BY DEF Contains
    <2>2. Looked + i \in Looked + 1 .. Len(ready) /\ ready[Looked + i] = f
        BY <1>1, <1>11, <2>1
    <2> QED BY <2>2
<1>17. \A f : Contains(ready', f) => Contains(ready, f)
    <2> TAKE f
    <2> HAVE Contains(ready', f)
    <2>1. CASE Contains(rest, f)
        <3>1. PICK i \in Looked + 1 .. Len(ready) : ready[i] = f
            BY <1>16, <2>1
        <3>2. i \in 1 .. Len(ready)
            BY <1>1, <3>1
        <3> QED BY <3>1, <3>2 DEF Contains
    <2>2. CASE Contains(again, f)
        <3>1. PICK i \in Reported : ready[i] = f
            BY <1>12, <2>2
        <3>2. i \in 1 .. Len(ready)
            BY <1>2, <3>1
        <3> QED BY <3>1, <3>2 DEF Contains
    <2> QED BY <1>15, <2>1, <2>2
<1>18. Once(ready')
    <2> SUFFICES ASSUME NEW i \in 1 .. Len(ready'), NEW j \in 1 .. Len(ready'),
                        ready'[i] = ready'[j], i < j
                 PROVE  FALSE
        BY <1>1, <1>11, <1>12, <1>14 DEF Once
    <2>1. /\ Len(rest) \in Nat /\ Len(ready') = Len(rest) + Len(again)
          /\ i \in 1 .. Len(rest) + Len(again) /\ j \in 1 .. Len(rest) + Len(again)
        BY <1>1, <1>11, <1>14
    <2>4. i \in 1 .. Len(rest)
        BY <1>12, <2>1
    <2>5. /\ ready'[i] = rest[i] /\ rest[i] = ready[Looked + i]
          /\ Looked + i \in 1 .. Len(ready) /\ Looked + i > Looked
        BY <1>1, <1>11, <1>14, <2>1, <2>4
    <2>2. CASE j <= Len(rest)
        <3>1. j \in 1 .. Len(rest)
            BY <2>1, <2>2
        <3>2. /\ ready'[j] = rest[j] /\ rest[j] = ready[Looked + j]
              /\ Looked + j \in 1 .. Len(ready) /\ Looked + i # Looked + j
            BY <1>1, <1>11, <1>14, <2>1, <3>1
        <3> QED BY <2>5, <3>2 DEF Once
    <2>3. CASE ~(j <= Len(rest))
        <3>1. j - Len(rest) \in 1 .. Len(again)
            BY <1>12, <2>1, <2>3
        <3>2. ready'[j] = Server /\ Contains(again, Server)
            BY <1>12, <1>14, <2>1, <2>3, <3>1 DEF Contains
        <3>3. PICK p \in Reported : ready[p] = Server
            BY <1>12, <3>2
        <3>4. p \in 1 .. Len(ready) /\ p \in 1 .. Looked
            BY <1>2, <3>3
        <3>5. ready[Looked + i] = ready[p] /\ Looked + i # p
            <4>1. Looked + i # p
                BY <1>1, <2>1, <2>4, <3>4
            <4> QED BY <2>5, <3>2, <3>3, <4>1
        <3> QED BY <2>5, <3>4, <3>5 DEF Once
    <2> QED BY <2>2, <2>3
<1>19. ASSUME NEW f, Contains(ready, f), Mask(f) # ""
       PROVE  /\ Contains(ready', f) \/ Pending(batch', f, Mask(f))
              /\ f = Server => Contains(ready', f)
    <2>1. PICK p \in 1 .. Len(ready) : ready[p] = f
        BY <1>19 DEF Contains
    <2>2. CASE p > Looked
        <3>1. p - Looked \in 1 .. Len(rest) /\ Looked + (p - Looked) = p
            BY <1>1, <1>11, <2>2
        <3>2. rest[p - Looked] = f
            BY <1>11, <2>1, <3>1
        <3> QED BY <1>15, <3>1, <3>2 DEF Contains
    <2>3. CASE ~(p > Looked)
        <3>1. p \in Reported
            <4>1. p \in 1 .. Looked
                BY <1>1, <2>3
            <4> QED BY <1>19, <2>1, <4>1 DEF Reported
        <3>2. PICK i \in 1 .. n : order[i] = p
            BY <1>5, <3>1
        <3>3. Pending(batch', f, Mask(f))
            <4>1. batch'[i].fd = f /\ batch'[i].mask = Mask(f) /\ i \in 1 .. Len(batch')
                BY <1>7, <2>1, <3>2
            <4> QED BY <4>1 DEF Pending
        <3>4. f = Server => Contains(ready', f)
            BY <1>12, <1>15, <2>1, <3>1
        <3> QED BY <3>3, <3>4
    <2> QED BY <2>2, <2>3
<1>20. Len(batch') <= MaxEvents
    BY <1>3, <1>7
<1> QED BY <1>7, <1>8, <1>9, <1>10, <1>14, <1>17, <1>18, <1>19, <1>20

-----------------------------------------------------------------------------
(* What happens outside *)

\* A client that connects is new to the server.
LEMMA PeerConnectStep ==
    ASSUME IndInv, NEW c \in Clients, PeerConnect(c)
    PROVE  IndInv'
<1> USE DEF IndInv
<1>1. c \notin {Server} /\ Server \in Fds
    BY EventLoopAssumption DEF EventLoopConstants, Fds
<1>2. /\ ready' \in Seq(Fds) /\ Once(ready')
      /\ \A g : Contains(ready', g) <=> Contains(ready, g) \/ g = Server
    BY <1>1, WokenFacts DEF PeerConnect, TypeOK, ListGood
<1>3. /\ backlog' \in Seq(Clients) /\ Once(backlog')
      /\ \A d : Contains(backlog', d) <=> Contains(backlog, d) \/ d = c
    BY AppendFacts DEF PeerConnect, TypeOK, BacklogGood
<1>4. TypeOK'
    BY <1>2, <1>3 DEF PeerConnect, TypeOK, service, timerVars
<1>5. EventsAlive' /\ BatchGood'
    BY DEF PeerConnect, EventsAlive, BatchGood, Current, service
<1>6. ListGood'
    BY <1>1, <1>2, EventLoopAssumption DEF PeerConnect, ListGood, service, EventLoopConstants
<1>7. BacklogGood'
    BY <1>3 DEF PeerConnect, BacklogGood, TypeOK, service
<1>8. SocketsGood'
    BY DEF PeerConnect, SocketsGood, HeldBy, Called, Current, service
<1>9. EdgesKept'
    BY <1>2 DEF PeerConnect, EdgesKept, BacklogGood, TypeOK, service
<1> QED BY <1>4, <1>5, <1>6, <1>7, <1>8, <1>9

\* A code reaches an open socket with a wake-up.
LEMMA PeerSendStep ==
    ASSUME IndInv, NEW c \in Clients, NEW code \in Messages, PeerSend(c, code)
    PROVE  IndInv'
<1> USE DEF IndInv
<1>1. c \in Fds
    BY DEF Fds
<1>2. /\ ready' \in Seq(Fds) /\ Once(ready')
      /\ \A g : Contains(ready', g) <=> Contains(ready, g) \/ (g = c /\ object[c] = "open")
    BY <1>1, WokenFacts DEF PeerSend, TypeOK, ListGood
<1>3. unread' \in [Clients -> Seq(Messages)] /\ sent' \in [Clients -> 0 .. MaxCodes]
    <2>1. Append(unread[c], code) \in Seq(Messages)
        BY AppendProperties DEF TypeOK
    <2>2. sent[c] + 1 \in 0 .. MaxCodes
        BY EventLoopAssumption DEF PeerSend, TypeOK, EventLoopConstants
    <2> QED BY <2>1, <2>2 DEF PeerSend, TypeOK
<1>4. TypeOK'
    BY <1>2, <1>3 DEF PeerSend, TypeOK, service, timerVars
<1>5. EventsAlive' /\ BatchGood' /\ BacklogGood'
    BY DEF PeerSend, EventsAlive, BatchGood, BacklogGood, Current, service
<1>6. ListGood'
    BY <1>2 DEF PeerSend, ListGood, service
<1>7. SocketsGood'
    BY DEF PeerSend, SocketsGood, HeldBy, Called, Current, service
<1>8. EdgesKept'
    BY <1>2 DEF PeerSend, EdgesKept, TypeOK, service
<1> QED BY <1>4, <1>5, <1>6, <1>7, <1>8

\* So does the end of the client.
LEMMA PeerCloseStep ==
    ASSUME IndInv, NEW c \in Clients, PeerClose(c)
    PROVE  IndInv'
<1> USE DEF IndInv
<1>1. c \in Fds
    BY DEF Fds
<1>2. /\ ready' \in Seq(Fds) /\ Once(ready')
      /\ \A g : Contains(ready', g) <=> Contains(ready, g) \/ (g = c /\ object[c] = "open")
    BY <1>1, WokenFacts DEF PeerClose, TypeOK, ListGood
<1>4. TypeOK'
    BY <1>2 DEF PeerClose, TypeOK, service, timerVars
<1>5. EventsAlive' /\ BatchGood'
    BY DEF PeerClose, EventsAlive, BatchGood, Current, service
<1>6. ListGood'
    BY <1>2 DEF PeerClose, ListGood, service
<1>7. BacklogGood'
    BY DEF PeerClose, BacklogGood, TypeOK, service
<1>8. SocketsGood'
    BY DEF PeerClose, SocketsGood, HeldBy, Called, Current, service
<1>9. EdgesKept'
    BY <1>2 DEF PeerClose, EdgesKept, TypeOK, service
<1> QED BY <1>4, <1>5, <1>6, <1>7, <1>8, <1>9

LEMMA ExpireStep ==
    ASSUME IndInv, Expire
    PROVE  IndInv'
<1> USE DEF IndInv
<1>1. Timer \in Fds /\ Timer \notin Clients
    BY EventLoopAssumption DEF EventLoopConstants, Fds
<1>2. /\ ready' \in Seq(Fds) /\ Once(ready')
      /\ \A g : Contains(ready', g) <=> Contains(ready, g) \/ g = Timer
    BY <1>1, WokenFacts DEF Expire, TypeOK, ListGood
<1>3. ticks' \in 0 .. MaxTicks
    BY EventLoopAssumption DEF Expire, TypeOK, EventLoopConstants
<1>4. TypeOK'
    BY <1>2, <1>3 DEF Expire, TypeOK, service, outside
<1>5. EventsAlive' /\ BatchGood' /\ BacklogGood'
    BY DEF Expire, EventsAlive, BatchGood, BacklogGood, Current, service, outside
<1>6. ListGood'
    BY <1>1, <1>2 DEF Expire, ListGood, service
<1>7. SocketsGood'
    BY DEF Expire, SocketsGood, HeldBy, Called, Current, service
<1>8. EdgesKept'
    BY <1>2 DEF Expire, EdgesKept, service, outside
<1> QED BY <1>4, <1>5, <1>6, <1>7, <1>8

-----------------------------------------------------------------------------
(* The loop *)

LEMMA EpollWaitStep ==
    ASSUME IndInv, EpollWait
    PROVE  IndInv'
<1> USE DEF IndInv
<1>1. /\ batch' \in Seq(Events) /\ Len(batch') <= MaxEvents
      /\ phase' \in {"wait", "event"} /\ (phase' = "wait" <=> batch' = <<>>)
      /\ OneEventEach(batch')
      /\ \A i \in 1 .. Len(batch') : Contains(ready, batch'[i].fd)
      /\ ready' \in Seq(Fds) /\ Once(ready')
      /\ \A f : Contains(ready', f) => Contains(ready, f)
    BY EpollFacts DEF ListGood
<1>2. /\ \A f : Contains(ready, f) /\ Mask(f) # "" =>
                 Contains(ready', f) \/ Pending(batch', f, Mask(f))
      /\ Contains(ready, Server) /\ Mask(Server) # "" => Contains(ready', Server)
    BY EpollFacts DEF ListGood
<1>3. /\ phase = "wait" /\ batch = <<>> /\ UNCHANGED <<peer, sent, backlog, unread, object, holders, connected>>
      /\ UNCHANGED <<armed, expired, ticks>>
    BY DEF EpollWait, TypeOK, outside, service, timerVars
<1>4. TypeOK'
    BY <1>1, <1>3 DEF TypeOK
<1>5. EventsAlive'
    BY <1>1, <1>3 DEF EventsAlive, ListGood
<1>6. BatchGood'
    BY <1>1 DEF BatchGood
<1>7. ListGood' /\ BacklogGood'
    BY <1>1, <1>3 DEF ListGood, BacklogGood
<1>8. SocketsGood'
    BY <1>1, <1>3 DEF SocketsGood, HeldBy, Called
<1>9. EdgesKept'
    <2>1. backlog # <<>> => Mask(Server) # ""
        BY MaskFacts DEF Fds
    <2>2. ASSUME NEW c \in Clients, object[c] = "open"
          PROVE  /\ peer[c] = "closed" => Contains(ready', c) \/ Pending(batch', c, "hangup")
                 /\ unread[c] # <<>> => \/ Contains(ready', c)
                                        \/ Pending(batch', c, "in") \/ Pending(batch', c, "hangup")
        <3>1. /\ Mask(c) \in {"", "in", "hangup"}
              /\ peer[c] = "closed" => Mask(c) = "hangup"
              /\ unread[c] # <<>> => Mask(c) # ""
            BY MaskFacts DEF Fds
        <3>2. \A mask : ~Pending(batch, c, mask)
            BY <1>3 DEF Pending
        <3>3. peer[c] = "closed" \/ unread[c] # <<>> => Contains(ready, c)
            BY <2>2, <3>2 DEF EdgesKept
        <3>4. peer[c] = "closed" \/ unread[c] # <<>> =>
                 Contains(ready', c) \/ Pending(batch', c, Mask(c))
            BY <1>2, <3>1, <3>3
        <3> QED BY <3>1, <3>4
    <2> QED BY <1>2, <1>3, <2>1, <2>2 DEF EdgesKept
<1> QED BY <1>4, <1>5, <1>6, <1>7, <1>8, <1>9

\* The current event is the batch's first, and there is one.
LEMMA CurrentFacts ==
    ASSUME TypeOK, phase # "wait"
    PROVE  /\ batch # <<>> /\ Len(batch) \in Nat \ {0}
           /\ Current = batch[1].fd /\ Head(batch) = batch[1]
           /\ \A i \in 1 .. Len(batch) : batch[i] \in Events
    BY EmptySeq, ElementOfSeq DEF TypeOK, Current

\* What the handling of an event leaves to be shown
LEMMA HandledStep ==
    ASSUME IndInv, phase \in {"event", "reading", "leaving"}, Handled
    PROVE  /\ BatchGood'
           /\ batch' \in Seq(Events) /\ Len(batch') <= MaxEvents
           /\ phase' \in {"wait", "event"} /\ (phase' = "wait" <=> batch' = <<>>)
           /\ \A i \in 1 .. Len(batch') :
                /\ batch'[i].fd # Current
                /\ batch'[i].fd \in Clients => object[batch'[i].fd] = "open"
           /\ \A c, mask : c # Current /\ Pending(batch, c, mask) => Pending(batch', c, mask)
<1> USE DEF IndInv
<1>1. batch # <<>>
    BY DEF TypeOK
<1>2. /\ batch' \in Seq(Events) /\ Len(batch') <= MaxEvents
      /\ phase' \in {"wait", "event"} /\ (phase' = "wait" <=> batch' = <<>>)
      /\ OneEventEach(batch')
      /\ Len(batch') = Len(batch) - 1 /\ Len(batch) \in Nat \ {0}
      /\ \A i \in 1 .. Len(batch') : batch'[i] = batch[i + 1] /\ batch'[i].fd # Current
      /\ \A c, mask : c # Current /\ Pending(batch, c, mask) => Pending(batch', c, mask)
    BY <1>1, HandledFacts DEF BatchGood
<1>3. ASSUME NEW i \in 1 .. Len(batch'), batch'[i].fd \in Clients
      PROVE  object[batch'[i].fd] = "open"
    <2>1. i + 1 \in 1 .. Len(batch) /\ i + 1 # 1 /\ batch'[i] = batch[i + 1]
        BY <1>2
    <2> QED BY <1>3, <2>1 DEF EventsAlive
<1> QED BY <1>2, <1>3 DEF BatchGood

\* A connection is accepted, and its object made, or rejected.
LEMMA NewConnectionStep ==
    ASSUME IndInv, NewConnection
    PROVE  IndInv'
<1> USE DEF IndInv
<1> DEFINE c == Head(backlog)
<1>1. /\ backlog' \in Seq(Clients) /\ c \in Clients /\ Once(backlog') /\ Contains(backlog, c)
      /\ \A d : Contains(backlog', d) <=> Contains(backlog, d) /\ d # c
    BY TailFacts DEF NewConnection, TypeOK, BacklogGood
<1>2. phase = "event" /\ Current = Server /\ Handled /\ UNCHANGED <<peer, sent, unread, armed, expired, ticks>>
    BY DEF NewConnection, outside, timerVars
<1>3. /\ BatchGood'
      /\ batch' \in Seq(Events) /\ Len(batch') <= MaxEvents
      /\ phase' \in {"wait", "event"} /\ (phase' = "wait" <=> batch' = <<>>)
      /\ \A i \in 1 .. Len(batch') : batch'[i].fd \in Clients => object[batch'[i].fd] = "open"
      /\ \A d, mask : d # Server /\ Pending(batch, d, mask) => Pending(batch', d, mask)
    BY <1>2, HandledStep
<1>4. object[c] = "none" /\ peer[c] # "none" /\ ~Contains(ready, c) /\ c # Nobody /\ c # Server
      /\ Server \notin Clients /\ c \in Fds
    BY <1>1, EventLoopAssumption DEF BacklogGood, ListGood, EventLoopConstants, Fds
<1>5. backlog # <<>> /\ backlog' = Tail(backlog)
    BY DEF NewConnection
<1>6. CASE connected # Nobody
    <2>1. UNCHANGED <<object, holders, connected, ready>>
        BY <1>6 DEF NewConnection, service
    <2>2. TypeOK'
        BY <1>1, <1>2, <1>3, <2>1 DEF TypeOK
    <2>3. EventsAlive'
        BY <1>3, <2>1 DEF EventsAlive
    <2>4. ListGood' /\ BacklogGood'
        BY <1>1, <1>2, <2>1 DEF ListGood, BacklogGood
    <2>5. SocketsGood'
        BY <1>2, <1>3, <2>1 DEF SocketsGood, HeldBy, Called
    <2>6. EdgesKept'
        BY <1>2, <1>3, <1>4, <1>5, <2>1 DEF EdgesKept
    <2> QED BY <1>3, <2>2, <2>3, <2>4, <2>5, <2>6
<1>7. CASE connected = Nobody
    <2>1. /\ object' = [object EXCEPT ![c] = "open"]
          /\ holders' = [holders EXCEPT ![c] = {"loop", "connections"}]
          /\ connected' = c
          /\ ready' = Registered(c, ready)
        BY <1>7 DEF NewConnection
    <2> HIDE DEF c
    <2>2. /\ ready' \in Seq(Fds) /\ Once(ready')
          /\ \A f : Contains(ready', f) <=>
                \/ Contains(ready, f)
                \/ f = c /\ (unread[c] # <<>> \/ peer[c] = "closed")
        BY <1>4, <2>1, AppendFacts DEF Registered, TypeOK, ListGood
    <2>3. TypeOK'
        BY <1>1, <1>2, <1>3, <2>1, <2>2 DEF TypeOK
    <2>4. EventsAlive'
        BY <1>3, <2>1 DEF EventsAlive, TypeOK
    <2>5. ListGood'
        BY <1>1, <2>1, <2>2 DEF ListGood, TypeOK
    <2>6. BacklogGood'
        BY <1>1, <1>2, <1>4, <2>1 DEF BacklogGood, TypeOK
    <2>7. SocketsGood'
        <3> SUFFICES ASSUME NEW d \in Clients
                     PROVE  /\ object'[d] = "open" <=> d = connected'
                            /\ object'[d] # "closed"
                            /\ holders'[d] = HeldBy(d)'
            BY <1>3 DEF SocketsGood
        <3>1. object[d] \notin {"open", "closed"} /\ holders[d] = {}
            BY <1>2, <1>7, EventLoopAssumption DEF SocketsGood, HeldBy, Called, EventLoopConstants
        <3>2. /\ object'[d] = IF d = c THEN "open" ELSE object[d]
              /\ holders'[d] = IF d = c THEN {"loop", "connections"} ELSE holders[d]
            BY <1>1, <2>1 DEF TypeOK
        <3>3. HeldBy(d)' = IF object'[d] = "open" THEN {"loop", "connections"} ELSE {}
            BY <1>3 DEF HeldBy, Called
        <3> QED BY <2>1, <3>1, <3>2, <3>3
    <2>8. EdgesKept'
        <3>1. backlog' # <<>> => Contains(ready', Server)
            BY <1>5, <2>2 DEF EdgesKept
        <3>2. ASSUME NEW d \in Clients, object'[d] = "open"
              PROVE  /\ peer'[d] = "closed" => Contains(ready', d) \/ Pending(batch', d, "hangup")
                     /\ unread'[d] # <<>> => \/ Contains(ready', d)
                                             \/ Pending(batch', d, "in") \/ Pending(batch', d, "hangup")
            <4>1. CASE d = c
                BY <1>2, <2>2, <4>1
            <4>2. CASE d # c
                <5>1. object[d] = "open" /\ d # Server
                    BY <1>4, <2>1, <3>2, <4>2 DEF TypeOK
                <5> QED BY <1>2, <1>3, <2>2, <5>1 DEF EdgesKept
            <4> QED BY <4>1, <4>2
        <3> QED BY <3>1, <3>2 DEF EdgesKept
    <2> QED BY <1>3, <2>3, <2>4, <2>5, <2>6, <2>7, <2>8
<1> QED BY <1>6, <1>7

\* event_() takes its reference to the socket.
LEMMA SocketEventStep ==
    ASSUME IndInv, SocketIn \/ SocketHangup
    PROVE  IndInv'
<1> USE DEF IndInv
<1> DEFINE c == Current
<1>1. /\ phase = "event" /\ c \in Clients
      /\ holders' = [holders EXCEPT ![c] = @ \cup {"call"}]
      /\ \/ phase' = "reading" /\ Head(batch).mask = "in"
         \/ phase' = "leaving"
      /\ UNCHANGED <<peer, sent, backlog, unread, object, connected, armed, expired, ticks, ready, batch>>
    BY DEF SocketIn, SocketHangup, outside, timerVars
<1>2. batch # <<>> /\ Len(batch) \in Nat \ {0} /\ c = batch[1].fd /\ Current' = c
    BY <1>1, CurrentFacts DEF Current
<1>3. object[c] = "open"
    BY <1>1, <1>2 DEF EventsAlive
<1> HIDE DEF c
<1>4. TypeOK'
    BY <1>1, <1>2 DEF TypeOK
<1>5. EventsAlive'
    BY <1>1 DEF EventsAlive
<1>6. ListGood' /\ BacklogGood' /\ EdgesKept'
    BY <1>1 DEF ListGood, BacklogGood, EdgesKept
<1>7. BatchGood'
    BY <1>1, <1>2 DEF BatchGood
<1>8. SocketsGood'
    <2> SUFFICES ASSUME NEW d \in Clients
                 PROVE  /\ object'[d] = "open" <=> d = connected'
                        /\ object'[d] = "closed" <=> phase' = "leaving" /\ Current' = d /\ d # connected'
                        /\ holders'[d] = HeldBy(d)'
        BY DEF SocketsGood
    <2>1. object[d] # "closed" /\ (object[d] = "open" <=> d = connected) /\ holders[d] = HeldBy(d)
        BY <1>1 DEF SocketsGood
    <2>2. holders'[d] = IF d = c THEN holders[d] \cup {"call"} ELSE holders[d]
        BY <1>1 DEF TypeOK
    <2>3. ~Called(d) /\ (Called(d)' <=> d = c)
        BY <1>1, <1>2 DEF Called
    <2>4. HeldBy(d)' = IF d = c THEN HeldBy(d) \cup {"call"} ELSE HeldBy(d)
        BY <1>1, <2>3 DEF HeldBy
    <2>5. object[d] # "closed" /\ ~(d = c /\ d # connected)
        BY <1>1, <1>2, <1>3 DEF SocketsGood
    <2> QED BY <1>1, <1>2, <2>1, <2>2, <2>4, <2>5
<1> QED BY <1>4, <1>5, <1>6, <1>7, <1>8

\* A code or a descriptor is read.
LEMMA ReadCodeStep ==
    ASSUME IndInv, ReadCode \/ ReceiveFds
    PROVE  IndInv'
<1> USE DEF IndInv
<1> DEFINE c == Current
<1>1. /\ phase \in {"reading", "receiving"} /\ phase' \in {"reading", "receiving"}
      /\ unread[c] # <<>> /\ unread' = [unread EXCEPT ![c] = Tail(@)]
      /\ UNCHANGED <<peer, sent, backlog, object, holders, connected, ready, batch>>
      /\ armed' \in BOOLEAN /\ expired' \in BOOLEAN /\ ticks' = ticks
    BY DEF ReadCode, ReceiveFds, Settime, outside, service, timerVars, TypeOK
<1>2. c \in Clients /\ Tail(unread[c]) \in Seq(Messages)
    BY <1>1, HeadTailProperties DEF BatchGood, TypeOK
<1>3. Current' = c
    BY <1>1 DEF Current
<1> HIDE DEF c
<1>4. TypeOK'
    BY <1>1, <1>2 DEF TypeOK
<1>5. EventsAlive' /\ ListGood' /\ BacklogGood' /\ BatchGood'
    BY <1>1, <1>3 DEF EventsAlive, ListGood, BacklogGood, BatchGood, c
<1>6. SocketsGood'
    BY <1>1, <1>3 DEF SocketsGood, HeldBy, Called, c
<1>7. EdgesKept'
    BY <1>1, <1>2 DEF EdgesKept, TypeOK
<1> QED BY <1>4, <1>5, <1>6, <1>7

\* The client has ended before its descriptor; its socket is to collapse.
LEMMA ReceiveFailsStep ==
    ASSUME IndInv, ReceiveFails
    PROVE  IndInv'
<1> USE DEF IndInv
<1>1. /\ phase = "receiving" /\ phase' = "leaving"
      /\ UNCHANGED <<peer, sent, backlog, unread, object, holders, connected,
                     armed, expired, ticks, ready, batch>>
    BY DEF ReceiveFails, outside, service, timerVars
<1>2. batch # <<>> /\ Len(batch) \in Nat \ {0} /\ Current = batch[1].fd /\ Current' = Current
    BY <1>1, CurrentFacts DEF Current
<1>3. Current \in Clients /\ object[Current] = "open" /\ Current = connected
    BY <1>1, <1>2 DEF BatchGood, EventsAlive, SocketsGood
<1>4. TypeOK'
    BY <1>1, <1>2 DEF TypeOK
<1>5. EventsAlive'
    BY <1>1 DEF EventsAlive
<1>6. ListGood' /\ BacklogGood' /\ EdgesKept'
    BY <1>1 DEF ListGood, BacklogGood, EdgesKept
<1>7. BatchGood'
    BY <1>1, <1>2, <1>3 DEF BatchGood
<1>8. SocketsGood'
    BY <1>1, <1>2, <1>3 DEF SocketsGood, HeldBy, Called
<1> QED BY <1>4, <1>5, <1>6, <1>7, <1>8

\* read() has read all there was.  If the client has ended since, its end is on
\* epoll's list.
LEMMA ReadEndsStep ==
    ASSUME IndInv, ReadEnds
    PROVE  IndInv'
<1> USE DEF IndInv
<1> DEFINE c == Current
<1>1. /\ phase = "reading" /\ unread[c] = <<>> /\ Handled
      /\ holders' = [holders EXCEPT ![c] = @ \ {"call"}]
      /\ UNCHANGED <<peer, sent, backlog, unread, object, connected, armed, expired, ticks, ready>>
    BY DEF ReadEnds, outside, timerVars
<1>2. /\ BatchGood'
      /\ batch' \in Seq(Events) /\ Len(batch') <= MaxEvents
      /\ phase' \in {"wait", "event"} /\ (phase' = "wait" <=> batch' = <<>>)
      /\ \A i \in 1 .. Len(batch') : batch'[i].fd \in Clients => object[batch'[i].fd] = "open"
      /\ \A d, mask : d # c /\ Pending(batch, d, mask) => Pending(batch', d, mask)
    BY <1>1, HandledStep
<1>3. c \in Clients /\ Len(batch) \in Nat \ {0} /\ c = batch[1].fd /\ batch[1].mask = "in"
    BY <1>1, CurrentFacts DEF BatchGood
<1>4. object[c] = "open"
    BY <1>1, <1>3 DEF EventsAlive
<1>5. ~Pending(batch, c, "hangup")
    BY <1>3 DEF Pending, BatchGood, OneEventEach
<1>6. TypeOK'
    BY <1>1, <1>2, <1>3 DEF TypeOK
<1>7. EventsAlive'
    BY <1>1, <1>2 DEF EventsAlive
<1>8. ListGood' /\ BacklogGood'
    BY <1>1 DEF ListGood, BacklogGood
<1>9. SocketsGood'
    <2> SUFFICES ASSUME NEW d \in Clients
                 PROVE  /\ object'[d] = "open" <=> d = connected'
                        /\ object'[d] # "closed"
                        /\ holders'[d] = HeldBy(d)'
        BY <1>2 DEF SocketsGood
    <2>1. object[d] # "closed" /\ (object[d] = "open" <=> d = connected) /\ holders[d] = HeldBy(d)
        BY <1>1 DEF SocketsGood
    <2>2. holders'[d] = IF d = c THEN holders[d] \ {"call"} ELSE holders[d]
        BY <1>1, <1>3 DEF TypeOK
    <2>3. HeldBy(d)' = HeldBy(d) \ (IF d = c THEN {"call"} ELSE {})
        BY <1>1, <1>2 DEF HeldBy, Called
    <2> QED BY <1>1, <2>1, <2>2, <2>3
<1>10. EdgesKept'
    <2>1. backlog' # <<>> => Contains(ready', Server)
        BY <1>1 DEF EdgesKept
    <2>2. ASSUME NEW d \in Clients, object'[d] = "open"
          PROVE  /\ peer'[d] = "closed" => Contains(ready', d) \/ Pending(batch', d, "hangup")
                 /\ unread'[d] # <<>> => \/ Contains(ready', d)
                                         \/ Pending(batch', d, "in") \/ Pending(batch', d, "hangup")
        <3>1. CASE d = c
            BY <1>1, <1>4, <1>5, <3>1 DEF EdgesKept
        <3>2. CASE d # c
            BY <1>1, <1>2, <2>2, <3>2 DEF EdgesKept
        <3> QED BY <3>1, <3>2
    <2> QED BY <2>1, <2>2 DEF EdgesKept
<1> QED BY <1>2, <1>6, <1>7, <1>8, <1>9, <1>10


\* The socket of a client that has ended collapses, and no event for it is left.
LEMMA CollapseStep ==
    ASSUME IndInv, Collapse
    PROVE  IndInv'
<1> USE DEF IndInv
<1> DEFINE c == Current
<1>1. /\ phase = "leaving" /\ connected = c /\ connected' = Nobody
      /\ object' = [object EXCEPT ![c] = "closed"]
      /\ holders' = [holders EXCEPT ![c] = @ \ {"loop", "connections"}]
      /\ unread' = [unread EXCEPT ![c] = <<>>]
      /\ ready' = Without(c)
      /\ UNCHANGED <<peer, sent, backlog, batch, phase>>
      /\ armed' \in BOOLEAN /\ expired' \in BOOLEAN /\ ticks' = ticks
    BY DEF Collapse, Settime, outside, timerVars, TypeOK
<1>2. /\ c \in Clients /\ Len(batch) \in Nat \ {0} /\ c = batch[1].fd /\ Current' = c
      /\ Nobody \notin Clients /\ Server \notin Clients
    BY <1>1, CurrentFacts, EventLoopAssumption DEF BatchGood, Current, EventLoopConstants
<1>3. /\ ready' \in Seq(Fds) /\ Once(ready')
      /\ \A g : Contains(ready', g) <=> Contains(ready, g) /\ g # c
    BY <1>1, WithoutFacts DEF TypeOK, ListGood
<1>4. object[c] = "open" /\ holders[c] = {"loop", "connections", "call"}
    BY <1>1, <1>2 DEF SocketsGood, HeldBy, Called
<1> HIDE DEF c
<1>5. /\ \A d \in Clients : /\ object'[d] = IF d = c THEN "closed" ELSE object[d]
                            /\ holders'[d] = IF d = c THEN {"call"} ELSE holders[d]
                            /\ unread'[d] = IF d = c THEN <<>> ELSE unread[d]
    BY <1>1, <1>2, <1>4 DEF TypeOK
<1>6. TypeOK'
    <2>1. <<>> \in Seq(Messages)
        BY EmptySeq
    <2>2. unread' \in [Clients -> Seq(Messages)]
        BY <1>1, <2>1 DEF TypeOK
    <2> QED BY <1>1, <1>3, <2>2 DEF TypeOK
<1>7. EventsAlive'
    <2> SUFFICES ASSUME NEW i \in 1 .. Len(batch), batch[i].fd \in Clients
                 PROVE  \/ object'[batch[i].fd] = "open"
                        \/ i = 1 /\ phase = "leaving" /\ "call" \in holders'[batch[i].fd]
        BY <1>1 DEF EventsAlive
    <2>1. CASE i = 1
        BY <1>1, <1>2, <1>5, <2>1
    <2>2. CASE i # 1
        <3>1. batch[i].fd # c
            BY <1>2, <2>2 DEF BatchGood, OneEventEach
        <3> QED BY <1>5, <2>2, <3>1 DEF EventsAlive
    <2> QED BY <2>1, <2>2
<1>8. ListGood'
    BY <1>3, <1>5 DEF ListGood
<1>9. BacklogGood'
    BY <1>1, <1>4, <1>5 DEF BacklogGood
<1>10. BatchGood'
    BY <1>1, <1>2 DEF BatchGood
<1>11. SocketsGood'
    <2> SUFFICES ASSUME NEW d \in Clients
                 PROVE  /\ object'[d] = "open" <=> d = connected'
                        /\ object'[d] = "closed" <=> phase' = "leaving" /\ Current' = d /\ d # connected'
                        /\ holders'[d] = HeldBy(d)'
        BY DEF SocketsGood
    <2>1. CASE d = c
        BY <1>1, <1>2, <1>5, <2>1 DEF HeldBy, Called
    <2>2. CASE d # c
        <3>1. object[d] # "open" /\ object[d] # "closed" /\ holders[d] = {}
            BY <1>1, <1>2, <2>2 DEF SocketsGood, HeldBy, Called, c
        <3> QED BY <1>1, <1>2, <1>5, <2>2, <3>1 DEF HeldBy, Called
    <2> QED BY <2>1, <2>2
<1>12. EdgesKept'
    <2>1. \A d \in Clients : object'[d] # "open"
        BY <1>1, <1>5 DEF SocketsGood
    <2>2. backlog' # <<>> => Contains(ready', Server)
        BY <1>1, <1>2, <1>3 DEF EdgesKept
    <2> QED BY <2>1, <2>2 DEF EdgesKept
<1> QED BY <1>6, <1>7, <1>8, <1>9, <1>10, <1>11, <1>12

\* event_() drops the last reference to a socket that has collapsed.
LEMMA LeftStep ==
    ASSUME IndInv, Left
    PROVE  IndInv'
<1> USE DEF IndInv
<1> DEFINE c == Current
<1>1. /\ phase = "leaving" /\ connected # c /\ Handled
      /\ holders' = [holders EXCEPT ![c] = holders[c] \ {"call"}]
      /\ object' = [object EXCEPT ![c] = IF holders[c] \ {"call"} = {} THEN "deleted" ELSE @]
      /\ UNCHANGED <<peer, sent, backlog, unread, connected, armed, expired, ticks, ready>>
    BY DEF Left, outside, timerVars
<1>2. /\ BatchGood'
      /\ batch' \in Seq(Events) /\ Len(batch') <= MaxEvents
      /\ phase' \in {"wait", "event"} /\ (phase' = "wait" <=> batch' = <<>>)
      /\ \A i \in 1 .. Len(batch') :
            /\ batch'[i].fd # c
            /\ batch'[i].fd \in Clients => object[batch'[i].fd] = "open"
      /\ \A d, mask : d # c /\ Pending(batch, d, mask) => Pending(batch', d, mask)
    BY <1>1, HandledStep
<1>3. c \in Clients /\ Len(batch) \in Nat \ {0} /\ c = batch[1].fd
    BY <1>1, CurrentFacts DEF BatchGood
<1>4. object[c] = "closed" /\ holders[c] = {"call"}
    BY <1>1, <1>3 DEF SocketsGood, HeldBy, Called
<1> HIDE DEF c
<1>5. \A d \in Clients : /\ object'[d] = IF d = c THEN "deleted" ELSE object[d]
                         /\ holders'[d] = IF d = c THEN {} ELSE holders[d]
    <2>1. holders[c] \ {"call"} = {}
        BY <1>4
    <2> QED BY <1>1, <1>3, <2>1 DEF TypeOK
<1>6. TypeOK'
    BY <1>1, <1>2 DEF TypeOK
<1>7. EventsAlive'
    BY <1>2, <1>5 DEF EventsAlive
<1>8. ListGood'
    BY <1>1, <1>4, <1>5 DEF ListGood
<1>9. BacklogGood'
    BY <1>1, <1>4, <1>5 DEF BacklogGood
<1>10. SocketsGood'
    <2> SUFFICES ASSUME NEW d \in Clients
                 PROVE  /\ object'[d] = "open" <=> d = connected'
                        /\ object'[d] # "closed"
                        /\ holders'[d] = HeldBy(d)'
        BY <1>2 DEF SocketsGood
    <2>1. HeldBy(d)' = IF object'[d] = "open" THEN {"loop", "connections"} ELSE {}
        BY <1>2 DEF HeldBy, Called
    <2>2. CASE d = c
        BY <1>1, <1>5, <2>1, <2>2
    <2>3. CASE d # c
        <3>1. /\ object[d] # "closed" /\ (object[d] = "open" <=> d = connected)
              /\ holders[d] = IF object[d] = "open" THEN {"loop", "connections"} ELSE {}
            BY <2>3 DEF SocketsGood, HeldBy, Called, c
        <3> QED BY <1>1, <1>5, <2>1, <2>3, <3>1
    <2> QED BY <2>2, <2>3
<1>11. EdgesKept'
    BY <1>1, <1>2, <1>5 DEF EdgesKept
<1> QED BY <1>2, <1>6, <1>7, <1>8, <1>9, <1>10, <1>11

\* The timer is read, or its read blocks.
LEMMA TimerInStep ==
    ASSUME IndInv, TimerIn
    PROVE  IndInv'
<1> USE DEF IndInv
<1>1. /\ phase = "event" /\ Current = Timer /\ expired' = FALSE /\ Timer \notin Clients
      /\ UNCHANGED <<peer, sent, backlog, unread, object, holders, connected, armed, ticks, ready>>
    BY EventLoopAssumption DEF TimerIn, outside, service, EventLoopConstants
<1>2. batch # <<>>
    BY <1>1, CurrentFacts
<1>3. /\ batch' \in Seq(Events) /\ Len(batch') <= MaxEvents
      /\ phase' \in {"wait", "event", "blocked"} /\ (phase' = "wait" <=> batch' = <<>>)
      /\ BatchGood'
      /\ \A i \in 1 .. Len(batch') : batch'[i].fd \in Clients => object[batch'[i].fd] = "open"
      /\ \A d \in Clients : \A mask : Pending(batch, d, mask) => Pending(batch', d, mask)
    <2>1. CASE Handled
        BY <1>1, <2>1, HandledStep
    <2>2. CASE phase' = "blocked" /\ batch' = batch
        BY <1>1, <1>2, <2>2 DEF TypeOK, BatchGood, EventsAlive, Pending
    <2> QED BY <2>1, <2>2 DEF TimerIn
<1>4. TypeOK'
    BY <1>1, <1>3 DEF TypeOK
<1>5. EventsAlive'
    BY <1>1, <1>3 DEF EventsAlive
<1>6. ListGood' /\ BacklogGood'
    BY <1>1 DEF ListGood, BacklogGood
<1>7. SocketsGood'
    BY <1>1, <1>3 DEF SocketsGood, HeldBy, Called
<1>8. EdgesKept'
    BY <1>1, <1>3 DEF EdgesKept
<1> QED BY <1>3, <1>4, <1>5, <1>6, <1>7, <1>8

-----------------------------------------------------------------------------
(* The theorems *)

LEMMA IndInvInit == Init => IndInv
<1> SUFFICES ASSUME Init PROVE IndInv
    OBVIOUS
<1>1. \A f : ~Contains(<<>>, f)
    BY DEF Contains
<1>2. TypeOK
    <2>1. /\ <<>> \in Seq(Clients) /\ <<>> \in Seq(Messages)
          /\ <<>> \in Seq(Fds) /\ <<>> \in Seq(Events) /\ Len(<<>>) = 0
        BY EmptySeq
    <2>2. /\ 0 \in 0 .. MaxCodes /\ 0 \in 0 .. MaxTicks /\ 0 <= MaxEvents
        BY EventLoopAssumption DEF EventLoopConstants
    <2>3. /\ peer \in [Clients -> {"none", "open", "closed"}]
          /\ unread \in [Clients -> Seq(Messages)] /\ sent \in [Clients -> 0 .. MaxCodes]
          /\ object \in [Clients -> {"none", "open", "closed", "deleted"}]
          /\ holders \in [Clients -> SUBSET {"loop", "connections", "call"}]
        BY <2>1, <2>2 DEF Init
    <2> QED BY <2>1, <2>2, <2>3 DEF Init, TypeOK
<1>3. EventsAlive /\ BatchGood
    BY DEF Init, EventsAlive, BatchGood, OneEventEach
<1>4. ListGood /\ BacklogGood /\ EdgesKept
    BY <1>1 DEF Init, ListGood, BacklogGood, EdgesKept, Once
<1>5. SocketsGood
    BY EventLoopAssumption DEF Init, SocketsGood, HeldBy, Called, EventLoopConstants
<1> QED BY <1>2, <1>3, <1>4, <1>5 DEF IndInv

LEMMA IndInvStep == IndInv /\ [Next]_vars => IndInv'
<1> SUFFICES ASSUME IndInv, [Next]_vars PROVE IndInv'
    OBVIOUS
<1>1. ASSUME NEW c \in Clients, PeerConnect(c) PROVE IndInv'
    BY <1>1, PeerConnectStep
<1>2. ASSUME NEW c \in Clients, PeerClose(c) PROVE IndInv'
    BY <1>2, PeerCloseStep
<1>3. ASSUME NEW c \in Clients, NEW code \in Messages, PeerSend(c, code) PROVE IndInv'
    BY <1>3, PeerSendStep
<1>4. CASE Expire
    BY <1>4, ExpireStep
<1>5. CASE EpollWait
    BY <1>5, EpollWaitStep
<1>6. CASE NewConnection
    BY <1>6, NewConnectionStep
<1>7. CASE SocketIn \/ SocketHangup
    BY <1>7, SocketEventStep
<1>8. CASE ReadCode \/ ReceiveFds
    BY <1>8, ReadCodeStep
<1>8a. CASE ReceiveFails
    BY <1>8a, ReceiveFailsStep
<1>9. CASE ReadEnds
    BY <1>9, ReadEndsStep
<1>10. CASE Collapse
    BY <1>10, CollapseStep
<1>11. CASE Left
    BY <1>11, LeftStep
<1>12. CASE TimerIn
    BY <1>12, TimerInStep
<1>13. CASE UNCHANGED vars
    BY <1>13 DEF IndInv, TypeOK, EventsAlive, ListGood, BacklogGood, BatchGood, SocketsGood,
                 EdgesKept, HeldBy, Called, Current, vars
<1> QED BY <1>1, <1>2, <1>3, <1>4, <1>5, <1>6, <1>7, <1>8, <1>8a, <1>9, <1>10, <1>11, <1>12, <1>13
        DEF Next, Outside, Run

\* The invariant of the loop holds at all times.
THEOREM Invariant == Spec => []IndInv
<1> QED BY IndInvInit, IndInvStep, PTL DEF Spec

\* were_thread, the server, the sockets and the timer keep their types, and the loop
\* waits exactly when its batch is empty.
THEOREM TypeCorrect == Spec => []TypeOK
<1>1. IndInv => TypeOK
    BY DEF IndInv
<1> QED BY <1>1, Invariant, PTL

\* process_events calls event_() only of an object that exists and is open, however
\* large the batch is and whatever the events before in it have closed.
THEOREM EventsReachLiving == Spec => []EventsAlive
<1>1. IndInv => EventsAlive
    BY DEF IndInv
<1> QED BY <1>1, Invariant, PTL

\* When epoll_wait sleeps, no connection, no code and no end of a client is left
\* unseen, although a socket's edge is reported once.
THEOREM NoEdgeMissed == Spec => []NothingStranded
<1>1. IndInv => NothingStranded
    <2> SUFFICES ASSUME IndInv, phase = "wait", ready = <<>>
                 PROVE  /\ backlog = <<>>
                        /\ connected # Nobody =>
                              unread[connected] = <<>> /\ peer[connected] = "open"
        BY DEF NothingStranded
    <2> USE DEF IndInv
    <2>1. batch = <<>> /\ \A f : ~Contains(ready, f)
        BY DEF TypeOK, Contains
    <2>2. \A c, mask : ~Pending(batch, c, mask)
        BY <2>1 DEF Pending
    <2>3. ASSUME connected # Nobody
          PROVE  unread[connected] = <<>> /\ peer[connected] = "open"
        <3>1. connected \in Clients /\ object[connected] = "open"
            BY <2>3 DEF TypeOK, SocketsGood
        <3>2. peer[connected] # "closed" /\ unread[connected] = <<>>
            BY <2>1, <2>2, <3>1 DEF EdgesKept
        <3>3. peer[connected] # "none"
            BY <3>1 DEF BacklogGood
        <3> QED BY <3>1, <3>2, <3>3 DEF TypeOK
    <2> QED BY <2>1, <2>3 DEF EdgesKept
<1> QED BY <1>1, Invariant, PTL

\* Between two batches an open were_unix_socket has its two references, and one that
\* has collapsed is deleted: none is leaked, and none is freed early.
THEOREM SocketsAlwaysFreed == Spec => []SocketsFreed
<1>1. IndInv => SocketsFreed
    <2> SUFFICES ASSUME IndInv, phase = "wait", NEW c \in Clients
                 PROVE  /\ object[c] = "open" => holders[c] = {"loop", "connections"}
                        /\ object[c] \in {"none", "deleted"} \/ c = connected
        BY DEF SocketsFreed
    <2> QED BY DEF IndInv, TypeOK, SocketsGood, HeldBy, Called
<1> QED BY <1>1, Invariant, PTL

=============================================================================
