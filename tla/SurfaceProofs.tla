---------------------------- MODULE SurfaceProofs ----------------------------
(***************************************************************************)
(* Surface, for any sets of surfaces, buffers and callbacks and any number  *)
(* of wrappers: the reference counts are exact, and from this there are no  *)
(* dangling pointers and no leaks; and the frame requests of a surface are  *)
(* answered once each and in order.                                         *)
(*                                                                         *)
(* The invariant is stated of the wrappers W, the members B and C of the    *)
(* surfaces, the living resources A and the unused ids F, so that a request *)
(* can be followed through the states its parts would leave: attach, say,   *)
(* lets go of one wrapper and then takes another.                           *)
(***************************************************************************)
EXTENDS Surface, SequenceTheorems, TLAPS

Bit(b) == IF b THEN 1 ELSE 0

\* A wrapper that a surface holds, or does not: each reference is counted, and
\* listener, integration and resource end together.
Sound(w, held) ==
    /\ w \in Wrapper
    /\ w.listener = w.integrated
    /\ w.listener => w.valid
    /\ held /\ w.valid => w.listener
    /\ w.refs = Bit(w.listener) + Bit(w.integrated) + Bit(held)

Held(i, B, C) == \E s \in Surfaces : B[s] = i \/ C[s] = i

\* The members' types: a surface that is gone holds nothing, and no wrapper is
\* held twice.
Members(W, B, C, A) ==
    /\ B \in [Surfaces -> 0..Len(W)]
    /\ C \in [Surfaces -> 0..Len(W)]
    /\ \A s \in Surfaces :
        /\ s \notin A => B[s] = 0 /\ C[s] = 0
        /\ B[s] # 0 => W[B[s]].res \in Buffers
        /\ C[s] # 0 => W[C[s]].res \in Callbacks
    /\ \A s, t \in Surfaces :
        /\ B[s] = B[t] /\ B[s] # 0 => s = t
        /\ C[s] = C[t] /\ C[s] # 0 => s = t

\* Wrappers believe in resources that exist; a callback has one wrapper, and
\* a buffer's wrapper listens only as long as a surface holds it.
Resourceful(W, B, A, F) ==
    /\ \A i \in 1..Len(W) :
        /\ W[i].res \notin F
        /\ W[i].listener => W[i].res \in A
        /\ ~W[i].valid => W[i].res \notin A
        /\ W[i].listener /\ W[i].res \in Buffers => \E s \in Surfaces : B[s] = i
    /\ \A i, j \in 1..Len(W) : W[i].res = W[j].res /\ W[i].res \in Callbacks => i = j

Exact(W, B, C, A, F) ==
    /\ W \in Seq(Wrapper)
    /\ A \subseteq Resources
    /\ F \subseteq Resources
    /\ \A i \in 1..Len(W) : Sound(W[i], Held(i, B, C))
    /\ Members(W, B, C, A)
    /\ Resourceful(W, B, A, F)

\* The wrappers D are those of W, of the same resources, and the ones of Same
\* are as they were.
Follows(D, W, Same) ==
    /\ Len(D) = Len(W)
    /\ \A j \in 1..Len(W) : D[j].res = W[j].res
    /\ \A j \in Same : D[j] = W[j]

\* The wrappers D are those of W and one more.
Grows(D, W) ==
    /\ Len(D) = Len(W) + 1
    /\ \A j \in 1..Len(W) : D[j] = W[j]

\* The callbacks that surfaces hold have not been destroyed behind them.
Pending(W, C) == \A s \in Surfaces : C[s] # 0 => W[C[s]].valid

-----------------------------------------------------------------------------
(* One wrapper *)

\* A new wrapper has three references: the surface, the listener, itself.
LEMMA NewSound ==
    ASSUME NEW r \in Buffers \cup Callbacks
    PROVE  Sound(NewWrapper(r), TRUE) /\ NewWrapper(r).res = r
           /\ NewWrapper(r).valid /\ NewWrapper(r).listener
    BY DEF NewWrapper, Sound, Wrapper, Bit

\* Collapsed and dropped, a wrapper is referenced by nobody.
LEMMA DetachSound ==
    ASSUME NEW w, Sound(w, TRUE)
    PROVE  /\ Sound(Unset(Collapse(w)), FALSE)
           /\ ~Unset(Collapse(w)).listener
           /\ Unset(Collapse(w)).res = w.res
           /\ Unset(Collapse(w)).valid = w.valid
<1>1. w \in Wrapper /\ w.valid = w.integrated /\ w.listener = w.integrated
    BY DEF Sound, Wrapper
<1>2. CASE w.integrated
    <2>1. w.refs = 3
        BY <1>1, <1>2 DEF Sound, Bit
    <2> DEFINE c == Collapse(w)
    <2>2. c = [w EXCEPT !.integrated = FALSE, !.listener = FALSE, !.refs = 1]
        BY <1>1, <1>2, <2>1 DEF Collapse, Wrapper
    <2> HIDE DEF c
    <2>3. c \in Wrapper
        BY <1>1, <2>2 DEF Wrapper
    <2>4. c.refs = 1 /\ c.listener = FALSE /\ c.integrated = FALSE
        BY <1>1, <2>2 DEF Wrapper
    <2>5. c.res = w.res /\ c.valid = w.valid
        BY <1>1, <2>2 DEF Wrapper
    <2>6. Unset(c) \in Wrapper /\ Unset(c).refs = 0 /\ ~Unset(c).listener
            /\ ~Unset(c).integrated /\ Unset(c).res = w.res /\ Unset(c).valid = w.valid
        BY <2>3, <2>4, <2>5 DEF Unset, Wrapper
    <2> QED BY <2>6 DEF Sound, Wrapper, Bit, c
<1>3. CASE ~w.integrated
    <2>1. w.refs = 1
        BY <1>1, <1>3 DEF Sound, Bit
    <2>2. Unset(Collapse(w)) = [w EXCEPT !.refs = 0]
        BY <1>1, <1>3, <2>1 DEF Unset, Collapse, Wrapper
    <2> QED BY <1>1, <1>3, <2>2 DEF Sound, Wrapper, Bit
<1> QED BY <1>1, <1>2, <1>3 DEF Wrapper

\* Dropped without collapse, a wrapper lives as long as its resource.
LEMMA UnsetSound ==
    ASSUME NEW w, Sound(w, TRUE)
    PROVE  /\ Sound(Unset(w), FALSE)
           /\ Unset(w).listener = w.listener
           /\ Unset(w).res = w.res
           /\ Unset(w).valid = w.valid
    BY DEF Unset, Sound, Wrapper, Bit

\* The end of the resource takes the listener's and the wrapper's own
\* references away, and no other.
LEMMA GoneSound ==
    ASSUME NEW w, NEW held \in BOOLEAN, Sound(w, held), w.listener
    PROVE  /\ Sound(ResourceGone(w), held)
           /\ ~ResourceGone(w).listener
           /\ ~ResourceGone(w).valid
           /\ ResourceGone(w).res = w.res
<1>1. w \in Wrapper /\ w.integrated = TRUE /\ w.refs = 2 + Bit(held)
    BY DEF Sound, Wrapper, Bit
<1> DEFINE m == 1 + Bit(held)
           g == [w EXCEPT !.valid = FALSE, !.listener = FALSE, !.refs = m]
<1>2. m \in Nat /\ m = w.refs - 1
    BY <1>1 DEF Bit
<1>3. ResourceGone(w) = Collapse(g)
    <2> HIDE DEF m
    <2>1. g = [w EXCEPT !.valid = FALSE, !.listener = FALSE, !.refs = @ - 1]
        BY <1>2
    <2> QED BY <2>1 DEF ResourceGone
<1>4. g \in Wrapper
    <2> HIDE DEF m
    <2> QED BY <1>1, <1>2 DEF Wrapper
<1>5. g.integrated = TRUE /\ g.valid = FALSE /\ g.listener = FALSE
    BY <1>1 DEF Wrapper
<1>6. g.refs = 1 + Bit(held) /\ g.res = w.res
    BY <1>1 DEF Wrapper
<1> HIDE DEF g
<1> DEFINE n == Bit(held)
           c == [g EXCEPT !.integrated = FALSE, !.refs = n]
<1>7. n \in Nat /\ n = g.refs - 1
    BY <1>6 DEF Bit
<1>8. Collapse(g) = c
    <2> HIDE DEF n
    <2>1. c = [g EXCEPT !.integrated = FALSE, !.listener = @, !.refs = @ - 1]
        BY <1>4, <1>7 DEF Wrapper
    <2> QED BY <2>1, <1>5 DEF Collapse
<1>9. c \in Wrapper
    <2> HIDE DEF n
    <2> QED BY <1>4, <1>7 DEF Wrapper
<1>10. c.integrated = FALSE /\ c.valid = FALSE /\ c.listener = FALSE
    BY <1>4, <1>5 DEF Wrapper
<1>11. c.refs = Bit(held) /\ c.res = w.res
    BY <1>4, <1>6 DEF Wrapper
<1> HIDE DEF c
<1>12. Sound(c, held)
    <2>1. c.refs = Bit(c.listener) + Bit(c.integrated) + Bit(held)
        BY <1>10, <1>11 DEF Bit
    <2> QED BY <2>1, <1>9, <1>10 DEF Sound
<1>13. ResourceGone(w) = c
    BY <1>3, <1>8
<1> QED BY <1>10, <1>11, <1>12, <1>13

-----------------------------------------------------------------------------
(* The parts of the requests *)

\* attach and ~sparkle_surface let go of the buffer.
LEMMA DetachExact ==
    ASSUME NEW W, NEW B, NEW C, NEW A, NEW F, Exact(W, B, C, A, F), NEW s \in Surfaces
    PROVE  LET D == Detached(W, B[s]) IN
           /\ Exact(D, [B EXCEPT ![s] = 0], C, A, F)
           /\ Follows(D, W, (1..Len(W)) \ {B[s]})
<1> DEFINE i == B[s]
           D == Detached(W, i)
           E == [B EXCEPT ![s] = 0]
<1> USE DEF Exact
<1>1. CASE i = 0
    <2>1. D = W /\ E = B
        BY <1>1 DEF Detached, Members
    <2> QED BY <2>1 DEF Follows
<1>2. CASE i # 0
    <2>1. i \in 1..Len(W)
        BY <1>2 DEF Members
    <2>2. Sound(W[i], TRUE)
        <3>1. Held(i, B, C) = TRUE
            BY DEF Held
        <3> QED BY <3>1, <2>1
    <2>3. Sound(Unset(Collapse(W[i])), FALSE) /\ ~Unset(Collapse(W[i])).listener
            /\ Unset(Collapse(W[i])).res = W[i].res /\ Unset(Collapse(W[i])).valid = W[i].valid
        BY <2>2, DetachSound
    <2>4. D = [W EXCEPT ![i] = Unset(Collapse(W[i]))]
        BY <1>2 DEF Detached
    <2>5. D \in Seq(Wrapper) /\ Len(D) = Len(W)
            /\ \A j \in 1..Len(W) : D[j] = IF j = i THEN Unset(Collapse(W[i])) ELSE W[j]
        <3>1. Unset(Collapse(W[i])) \in Wrapper
            BY <2>3 DEF Sound
        <3> HIDE DEF i, D
        <3> QED BY <2>1, <2>4, <3>1, ExceptSeq
    <2>6. E \in [Surfaces -> 0..Len(W)]
            /\ \A t \in Surfaces : E[t] = IF t = s THEN 0 ELSE B[t]
        BY DEF Members
    <2>7. \A j \in 1..Len(W) : j # i => (Held(j, E, C) <=> Held(j, B, C))
        BY <2>6 DEF Held
    <2>8. ~Held(i, E, C)
        <3>1. \A t \in Surfaces : C[t] # i
            BY <2>1, <1>2, SurfaceAssumption DEF Members
        <3> QED BY <3>1, <2>6, <1>2 DEF Held, Members
    <2>9. \A j \in 1..Len(W) : Sound(D[j], Held(j, E, C))
        <3> SUFFICES ASSUME NEW j \in 1..Len(W) PROVE Sound(D[j], Held(j, E, C))
            OBVIOUS
        <3>1. CASE j = i
            <4>1. Held(j, E, C) = FALSE
                BY <3>1, <2>8 DEF Held
            <4> HIDE DEF i, D, E
            <4> QED BY <3>1, <4>1, <2>3, <2>5
        <3>2. CASE j # i
            <4>1. Held(j, E, C) = Held(j, B, C)
                BY <3>2, <2>7 DEF Held
            <4> HIDE DEF i, D, E
            <4> QED BY <3>2, <4>1, <2>5
        <3> QED BY <3>1, <3>2
    <2>10. \A j \in 1..Len(W) : D[j].res = W[j].res /\ (D[j].listener => W[j].listener /\ j # i)
            /\ D[j].valid = W[j].valid
        BY <2>3, <2>5
    <2> HIDE DEF i, D
    <2>11. Members(D, E, C, A)
        BY <2>5, <2>6, <2>10 DEF Members
    <2>12. Resourceful(D, E, A, F)
        BY <2>5, <2>6, <2>10 DEF Resourceful, i
    <2>13. Follows(D, W, (1..Len(W)) \ {i})
        BY <2>5, <2>10 DEF Follows
    <2> QED BY <2>5, <2>9, <2>11, <2>12, <2>13 DEF i, D
<1> QED BY <1>1, <1>2

\* commit, frame and ~sparkle_surface let go of the callback.
LEMMA UnsetExact ==
    ASSUME NEW W, NEW B, NEW C, NEW A, NEW F, Exact(W, B, C, A, F),
           NEW s \in Surfaces, C[s] # 0
    PROVE  LET D == [W EXCEPT ![C[s]] = Unset(@)] IN
           /\ Exact(D, B, [C EXCEPT ![s] = 0], A, F)
           /\ Follows(D, W, (1..Len(W)) \ {C[s]})
<1> DEFINE i == C[s]
           D == [W EXCEPT ![i] = Unset(W[i])]
           E == [C EXCEPT ![s] = 0]
<1> USE DEF Exact
<1>1. i \in 1..Len(W)
    BY DEF Members
<1>2. Sound(W[i], TRUE)
    <2>1. Held(i, B, C) = TRUE
        BY DEF Held
    <2> QED BY <2>1, <1>1
<1>3. Sound(Unset(W[i]), FALSE) /\ Unset(W[i]).listener = W[i].listener
        /\ Unset(W[i]).res = W[i].res /\ Unset(W[i]).valid = W[i].valid
    BY <1>2, UnsetSound
<1>4. D \in Seq(Wrapper) /\ Len(D) = Len(W)
        /\ \A j \in 1..Len(W) : D[j] = IF j = i THEN Unset(W[i]) ELSE W[j]
    <2>1. Unset(W[i]) \in Wrapper
        BY <1>3 DEF Sound
    <2> HIDE DEF i
    <2> QED BY <1>1, <2>1, ExceptSeq
<1>5. E \in [Surfaces -> 0..Len(W)]
        /\ \A t \in Surfaces : E[t] = IF t = s THEN 0 ELSE C[t]
    BY DEF Members
<1>6. \A j \in 1..Len(W) : j # i => (Held(j, B, E) <=> Held(j, B, C))
    BY <1>5 DEF Held
<1>7. ~Held(i, B, E)
    <2>1. \A t \in Surfaces : B[t] # i
        BY <1>1, SurfaceAssumption DEF Members
    <2> QED BY <2>1, <1>1, <1>5 DEF Held, Members
<1>8. \A j \in 1..Len(W) : Sound(D[j], Held(j, B, E))
    <2> SUFFICES ASSUME NEW j \in 1..Len(W) PROVE Sound(D[j], Held(j, B, E))
        OBVIOUS
    <2>1. CASE j = i
        <3>1. Held(j, B, E) = FALSE
            BY <2>1, <1>7 DEF Held
        <3> HIDE DEF i, D, E
        <3> QED BY <2>1, <3>1, <1>3, <1>4
    <2>2. CASE j # i
        <3>1. Held(j, B, E) = Held(j, B, C)
            BY <2>2, <1>6 DEF Held
        <3> HIDE DEF i, D, E
        <3> QED BY <2>2, <3>1, <1>4
    <2> QED BY <2>1, <2>2
<1>9. \A j \in 1..Len(W) : D[j].res = W[j].res /\ D[j].listener = W[j].listener
        /\ D[j].valid = W[j].valid
    BY <1>3, <1>4
<1> HIDE DEF i, D
<1>10. Members(D, B, E, A)
    BY <1>4, <1>5, <1>9 DEF Members
<1>11. Resourceful(D, B, A, F)
    BY <1>4, <1>9 DEF Resourceful
<1>12. Follows(D, W, (1..Len(W)) \ {i})
    BY <1>4, <1>9 DEF Follows
<1> QED BY <1>4, <1>5, <1>8, <1>10, <1>11, <1>12 DEF i, D

\* A buffer or a callback is destroyed, and its wrappers are told.
LEMMA DestroyedExact ==
    ASSUME NEW W, NEW B, NEW C, NEW A, NEW F, Exact(W, B, C, A, F),
           NEW r \in Buffers \cup Callbacks
    PROVE  LET D == Destroyed(W, r) IN
           /\ Exact(D, B, C, A \ {r}, F)
           /\ Follows(D, W, {j \in 1..Len(W) : W[j].res # r})
<1> DEFINE D == Destroyed(W, r)
<1> USE DEF Exact
<1>1. Len(W) \in Nat /\ DOMAIN W = 1..Len(W)
    BY LenProperties
<1>2. \A j \in 1..Len(W) :
        D[j] = IF W[j].res = r /\ W[j].listener THEN ResourceGone(W[j]) ELSE W[j]
    BY <1>1 DEF Destroyed
<1>3. \A j \in 1..Len(W) :
        /\ Sound(D[j], Held(j, B, C))
        /\ D[j].res = W[j].res
        /\ D[j].listener => W[j].listener /\ W[j].res # r
        /\ ~D[j].valid => ~W[j].valid \/ W[j].res = r
    <2> SUFFICES ASSUME NEW j \in 1..Len(W)
                 PROVE  /\ Sound(D[j], Held(j, B, C))
                        /\ D[j].res = W[j].res
                        /\ D[j].listener => W[j].listener /\ W[j].res # r
                        /\ ~D[j].valid => ~W[j].valid \/ W[j].res = r
        OBVIOUS
    <2>1. Sound(W[j], Held(j, B, C)) /\ Held(j, B, C) \in BOOLEAN
        BY DEF Held
    <2>2. CASE W[j].res = r /\ W[j].listener
        <3>1. D[j] = ResourceGone(W[j])
            BY <1>2, <2>2
        <3> HIDE DEF D
        <3> QED BY <2>1, <2>2, <3>1, GoneSound
    <2>3. CASE ~(W[j].res = r /\ W[j].listener)
        <3>1. D[j] = W[j]
            BY <1>2, <2>3
        <3> HIDE DEF D
        <3> QED BY <2>1, <2>3, <3>1
    <2> QED BY <2>2, <2>3
<1>4. D \in Seq(Wrapper) /\ Len(D) = Len(W)
    <2>1. D \in [1..Len(W) -> Wrapper]
        <3>1. \A j \in 1..Len(W) : D[j] \in Wrapper
            BY <1>3 DEF Sound
        <3>2. D = [j \in 1..Len(W) |-> D[j]]
            BY <1>1 DEF Destroyed
        <3> HIDE DEF D
        <3> QED BY <3>1, <3>2
    <2> HIDE DEF D
    <2> QED BY <1>1, <2>1, SeqDef, LenProperties
<1>5. \A j \in 1..Len(W) : W[j].res # r => D[j] = W[j]
    BY <1>2
<1> HIDE DEF D
<1>6. Members(D, B, C, A \ {r})
    <2>1. \A s \in Surfaces : s \notin A \ {r} => s \notin A
        BY SurfaceAssumption
    <2>2. \A j \in 1..Len(W) : D[j].res = W[j].res
        BY <1>3
    <2> QED BY <2>1, <2>2, <1>4 DEF Members
<1>7. Resourceful(D, B, A \ {r}, F)
    BY <1>3, <1>4 DEF Resourceful
<1>8. Follows(D, W, {j \in 1..Len(W) : W[j].res # r})
    BY <1>3, <1>4, <1>5 DEF Follows
<1> QED BY <1>3, <1>4, <1>6, <1>7, <1>8 DEF D

\* attach takes a wrapper of a living buffer.
LEMMA TakeBufferExact ==
    ASSUME NEW W, NEW B, NEW C, NEW A, NEW F, Exact(W, B, C, A, F),
           NEW s \in Surfaces, s \in A, B[s] = 0,
           NEW b \in Buffers, b \in A, b \notin F
    PROVE  LET D == Append(W, NewWrapper(b)) IN
           /\ Exact(D, [B EXCEPT ![s] = Len(W) + 1], C, A, F)
           /\ Grows(D, W)
<1> DEFINE w == NewWrapper(b)
           n == Len(W) + 1
           D == Append(W, w)
           E == [B EXCEPT ![s] = n]
<1> USE DEF Exact
<1>1. Sound(w, TRUE) /\ w.res = b /\ w.valid /\ w.listener
    BY NewSound
<1> HIDE DEF w
<1>2. w \in Wrapper /\ Len(W) \in Nat
    BY <1>1, LenProperties DEF Sound
<1>3. D \in Seq(Wrapper) /\ Len(D) = n /\ D[n] = w /\ \A j \in 1..Len(W) : D[j] = W[j]
    BY <1>2, AppendProperties
<1>4. E \in [Surfaces -> 0..n] /\ C \in [Surfaces -> 0..n]
        /\ \A t \in Surfaces : E[t] = IF t = s THEN n ELSE B[t]
    BY <1>2 DEF Members
<1>5. \A t \in Surfaces : B[t] # n /\ C[t] # n
    BY <1>2 DEF Members
<1> HIDE DEF D, E
<1>6. \A j \in 1..n : Sound(D[j], Held(j, E, C))
    <2> SUFFICES ASSUME NEW j \in 1..n PROVE Sound(D[j], Held(j, E, C))
        OBVIOUS
    <2>1. CASE j = n
        <3>1. Held(j, E, C) = TRUE
            BY <2>1, <1>4 DEF Held
        <3> QED BY <2>1, <3>1, <1>1, <1>3
    <2>2. CASE j # n
        <3>1. j \in 1..Len(W)
            BY <2>2, <1>2
        <3>2. Held(j, E, C) = Held(j, B, C)
            BY SMTT(30), <2>2, <3>1, <1>4 DEF Held
        <3> QED BY <3>1, <3>2, <1>3
    <2> QED BY <2>1, <2>2
<1>7. Members(D, E, C, A)
    <2>1. ASSUME NEW t \in Surfaces
          PROVE  /\ t \notin A => E[t] = 0 /\ C[t] = 0
                 /\ E[t] # 0 => D[E[t]].res \in Buffers
                 /\ C[t] # 0 => D[C[t]].res \in Callbacks
        <3>1. B[t] # 0 => B[t] \in 1..Len(W) /\ W[B[t]].res \in Buffers
            BY <1>2 DEF Members
        <3>2. C[t] # 0 => C[t] \in 1..Len(W) /\ W[C[t]].res \in Callbacks
            BY <1>2 DEF Members
        <3>3. t \notin A => B[t] = 0 /\ C[t] = 0
            BY DEF Members
        <3> QED BY <3>1, <3>2, <3>3, <1>1, <1>3, <1>4
    <2>2. \A t, u \in Surfaces :
            /\ E[t] = E[u] /\ E[t] # 0 => t = u
            /\ C[t] = C[u] /\ C[t] # 0 => t = u
        BY <1>4, <1>5 DEF Members
    <2> QED BY <2>1, <2>2, <1>3, <1>4 DEF Members
<1>8. Resourceful(D, E, A, F)
    <2>1. \A j \in 1..n : j # n => j \in 1..Len(W)
        BY <1>2
    <2>2. \A i, j \in 1..n : D[i].res = D[j].res /\ D[i].res \in Callbacks => i = j
        BY <2>1, <1>1, <1>3, SurfaceAssumption DEF Resourceful
    <2>3. \A j \in 1..n :
            /\ D[j].res \notin F
            /\ D[j].listener => D[j].res \in A
            /\ ~D[j].valid => D[j].res \notin A
            /\ D[j].listener /\ D[j].res \in Buffers => \E t \in Surfaces : E[t] = j
        <3> SUFFICES ASSUME NEW j \in 1..n
                     PROVE  /\ D[j].res \notin F
                            /\ D[j].listener => D[j].res \in A
                            /\ ~D[j].valid => D[j].res \notin A
                            /\ D[j].listener /\ D[j].res \in Buffers => \E t \in Surfaces : E[t] = j
            OBVIOUS
        <3>1. CASE j = n
            BY <3>1, <1>1, <1>3, <1>4
        <3>2. CASE j # n
            <4>1. j \in 1..Len(W) /\ D[j] = W[j]
                BY <3>2, <2>1, <1>3
            <4>2. (\E t \in Surfaces : B[t] = j) => \E t \in Surfaces : E[t] = j
                BY <4>1, <1>4
            <4> QED BY <4>1, <4>2 DEF Resourceful
        <3> QED BY <3>1, <3>2
    <2> QED BY <2>2, <2>3, <1>3 DEF Resourceful
<1>9. Grows(D, W)
    BY <1>3 DEF Grows
<1> QED BY <1>3, <1>6, <1>7, <1>8, <1>9 DEF D, E, w

\* frame takes the wrapper of a new callback.
LEMMA TakeCallbackExact ==
    ASSUME NEW W, NEW B, NEW C, NEW A, NEW F, Exact(W, B, C, A, F),
           NEW s \in Surfaces, s \in A, C[s] = 0,
           NEW c \in Callbacks, c \in F
    PROVE  LET D == Append(W, NewWrapper(c)) IN
           /\ Exact(D, B, [C EXCEPT ![s] = Len(W) + 1], A \cup {c}, F \ {c})
           /\ Grows(D, W)
           /\ D[Len(W) + 1].valid
<1> DEFINE w == NewWrapper(c)
           n == Len(W) + 1
           D == Append(W, w)
           E == [C EXCEPT ![s] = n]
<1> USE DEF Exact
<1>1. Sound(w, TRUE) /\ w.res = c /\ w.valid /\ w.listener
    BY NewSound
<1> HIDE DEF w
<1>2. w \in Wrapper /\ Len(W) \in Nat
    BY <1>1, LenProperties DEF Sound
<1>3. D \in Seq(Wrapper) /\ Len(D) = n /\ D[n] = w /\ \A j \in 1..Len(W) : D[j] = W[j]
    BY <1>2, AppendProperties
<1>4. E \in [Surfaces -> 0..n] /\ B \in [Surfaces -> 0..n]
        /\ \A t \in Surfaces : E[t] = IF t = s THEN n ELSE C[t]
    BY <1>2 DEF Members
<1>5. \A t \in Surfaces : B[t] # n /\ C[t] # n
    BY <1>2 DEF Members
<1> HIDE DEF D, E
<1>6. \A j \in 1..n : Sound(D[j], Held(j, B, E))
    <2> SUFFICES ASSUME NEW j \in 1..n PROVE Sound(D[j], Held(j, B, E))
        OBVIOUS
    <2>1. CASE j = n
        <3>1. Held(j, B, E) = TRUE
            BY <2>1, <1>4 DEF Held
        <3> QED BY <2>1, <3>1, <1>1, <1>3
    <2>2. CASE j # n
        <3>1. j \in 1..Len(W)
            BY <2>2, <1>2
        <3>2. Held(j, B, E) = Held(j, B, C)
            BY <2>2, <3>1, <1>4 DEF Held
        <3> QED BY <3>1, <3>2, <1>3
    <2> QED BY <2>1, <2>2
<1>7. Members(D, B, E, A \cup {c})
    BY <1>1, <1>2, <1>3, <1>4, <1>5 DEF Members
<1>8. Resourceful(D, B, A \cup {c}, F \ {c})
    <2>1. \A j \in 1..n : j # n => j \in 1..Len(W)
        BY <1>2
    <2>2. \A i, j \in 1..n : D[i].res = D[j].res /\ D[i].res \in Callbacks => i = j
        <3>1. \A j \in 1..Len(W) : W[j].res # c
            BY DEF Resourceful
        <3> QED BY <2>1, <3>1, <1>1, <1>3 DEF Resourceful
    <2>3. ASSUME NEW j \in 1..n
          PROVE  /\ D[j].res \notin F \ {c}
                 /\ D[j].listener => D[j].res \in A \cup {c}
                 /\ ~D[j].valid => D[j].res \notin A \cup {c}
                 /\ D[j].listener /\ D[j].res \in Buffers => \E t \in Surfaces : B[t] = j
        <3>1. CASE j = n
            BY <3>1, <1>1, <1>3, SurfaceAssumption
        <3>2. CASE j # n
            <4>1. j \in 1..Len(W) /\ D[j] = W[j]
                BY <3>2, <2>1, <1>3
            <4> QED BY <4>1 DEF Resourceful
        <3> QED BY <3>1, <3>2
    <2> QED BY <2>2, <2>3, <1>3 DEF Resourceful
<1>9. A \cup {c} \subseteq Resources /\ F \ {c} \subseteq Resources
    BY DEF Resources
<1>10. Grows(D, W)
    BY <1>3 DEF Grows
<1> QED BY <1>1, <1>3, <1>6, <1>7, <1>8, <1>9, <1>10 DEF D, E, w

\* A resource that has no wrapper is created, or a surface is that holds
\* nothing.
LEMMA CreateExact ==
    ASSUME NEW W, NEW B, NEW C, NEW A, NEW F, Exact(W, B, C, A, F), NEW r \in F
    PROVE  Exact(W, B, C, A \cup {r}, F \ {r})
<1> USE DEF Exact
<1>1. Members(W, B, C, A \cup {r})
    BY DEF Members
<1>2. Resourceful(W, B, A \cup {r}, F \ {r})
    BY DEF Resourceful
<1> QED BY <1>1, <1>2

\* A surface that holds nothing goes away.
LEMMA RemoveSurfaceExact ==
    ASSUME NEW W, NEW B, NEW C, NEW A, NEW F, Exact(W, B, C, A, F),
           NEW s \in Surfaces, B[s] = 0, C[s] = 0
    PROVE  Exact(W, B, C, A \ {s}, F)
<1> USE DEF Exact
<1>1. Members(W, B, C, A \ {s})
    BY DEF Members
<1>2. Resourceful(W, B, A \ {s}, F)
    <2>1. \A i \in 1..Len(W) : W[i].res # s
        <3> SUFFICES ASSUME NEW i \in 1..Len(W) PROVE W[i].res # s
            OBVIOUS
        <3>1. W[i] \in Wrapper
            BY ElementOfSeq
        <3>2. W[i].res \in Buffers \cup Callbacks
            BY <3>1 DEF Wrapper
        <3> QED BY <3>2, SurfaceAssumption
    <2> QED BY <2>1 DEF Resourceful
<1> QED BY <1>1, <1>2

-----------------------------------------------------------------------------
(* The callbacks that are pending *)

\* A change to wrappers that no surface holds as its callback is none.
LEMMA PendingKept ==
    ASSUME NEW W, NEW C, NEW D, Pending(W, C),
           \A s \in Surfaces : C[s] # 0 => D[C[s]] = W[C[s]]
    PROVE  Pending(D, C)
    BY DEF Pending

\* commit and frame answer the callback: its wrapper is told of the end of the
\* resource and dropped, and nobody else's callback is touched.
LEMMA FiredExact ==
    ASSUME NEW W, NEW B, NEW C, NEW A, NEW F, Exact(W, B, C, A, F), Pending(W, C),
           NEW s \in Surfaces, C[s] # 0
    PROVE  LET D == Fired(W, C[s]) IN
           /\ Exact(D, B, [C EXCEPT ![s] = 0], A \ {W[C[s]].res}, F)
           /\ Pending(D, [C EXCEPT ![s] = 0])
           /\ Follows(D, W, {})
<1> DEFINE i == C[s]
           r == W[i].res
           M == Destroyed(W, r)
           D == [M EXCEPT ![i] = Unset(@)]
<1>1. i \in 1..Len(W) /\ r \in Callbacks
    BY DEF Exact, Members
<1>2. /\ Exact(M, B, C, A \ {r}, F)
      /\ Follows(M, W, {j \in 1..Len(W) : W[j].res # r})
    <2> HIDE DEF r
    <2> QED BY <1>1, DestroyedExact
<1>3. /\ Exact(D, B, [C EXCEPT ![s] = 0], A \ {r}, F)
      /\ Follows(D, M, (1..Len(M)) \ {i})
    <2> HIDE DEF M, r
    <2> QED BY <1>2, UnsetExact
<1>4. Fired(W, C[s]) = D
    BY DEF Fired
<1>5. Pending(D, [C EXCEPT ![s] = 0])
    <2> SUFFICES ASSUME NEW t \in Surfaces, [C EXCEPT ![s] = 0][t] # 0
                 PROVE  D[[C EXCEPT ![s] = 0][t]].valid
        BY DEF Pending
    <2>1. t # s /\ [C EXCEPT ![s] = 0][t] = C[t] /\ C[t] # 0 /\ C[t] \in 1..Len(W)
        BY DEF Exact, Members
    <2>2. C[t] # i
        BY <2>1 DEF Exact, Members
    <2>3. W[C[t]].res # r
        BY <1>1, <2>1, <2>2 DEF Exact, Resourceful
    <2> HIDE DEF M, D, r, i
    <2>4. D[C[t]] = W[C[t]]
        BY <1>2, <1>3, <2>1, <2>2, <2>3 DEF Follows
    <2> QED BY <2>1, <2>4 DEF Pending
<1> HIDE DEF D, M
<1>6. Follows(D, W, {})
    BY <1>2, <1>3 DEF Follows
<1> QED BY <1>3, <1>4, <1>5, <1>6

-----------------------------------------------------------------------------
(* The inductive invariant *)

\* The history of attach and release: what is not released and lives is the
\* buffer the surface holds.
OwedExact(W, B, A, F, O) ==
    /\ A \cap F = {}
    /\ O \in [Surfaces -> SUBSET Buffers]
    /\ \A s \in Surfaces :
        /\ s \notin A => O[s] = {}
        /\ O[s] \cap F = {}
        /\ \A b \in O[s] \cap A : B[s] # 0 /\ W[B[s]].res = b

OtherTypes ==
    /\ client \in {"connected", "leaving", "gone"}
    /\ shown \subseteq Surfaces
    /\ server \in {"up", "null attach", "buffer destroyed"}
    /\ asked \in [Surfaces -> Seq(Callbacks)]
    /\ done \in [Surfaces -> Seq(Callbacks)]

IndInv ==
    /\ OtherTypes
    /\ Exact(wrapper, buffer_, callback_, alive, fresh)
    /\ OwedExact(wrapper, buffer_, alive, fresh, owed)
    /\ client = "connected" => Pending(wrapper, callback_)
    /\ client = "gone" => alive = {}

\* The initial states satisfy the inductive invariant.
LEMMA IndInvInit == Init => IndInv
<1> SUFFICES ASSUME Init PROVE IndInv
    OBVIOUS
<1> USE DEF Init
<1>1. wrapper \in Seq(Wrapper) /\ Len(wrapper) = 0
        /\ asked \in [Surfaces -> Seq(Callbacks)] /\ done \in [Surfaces -> Seq(Callbacks)]
    <2>1. <<>> \in Seq(Wrapper) /\ <<>> \in Seq(Callbacks) /\ Len(<<>>) = 0
        BY EmptySeq
    <2> QED BY <2>1
<1>2. Members(wrapper, buffer_, callback_, alive) /\ Resourceful(wrapper, buffer_, alive, fresh)
    BY <1>1 DEF Members, Resourceful
<1>3. Exact(wrapper, buffer_, callback_, alive, fresh)
    BY <1>1, <1>2 DEF Exact
<1>4. OwedExact(wrapper, buffer_, alive, fresh, owed) /\ Pending(wrapper, callback_)
    BY DEF OwedExact, Pending
<1> QED BY <1>1, <1>3, <1>4 DEF IndInv, OtherTypes

\* create_surface, create_buffer
LEMMA CreateStep ==
    ASSUME IndInv, NEW r \in Surfaces \cup Buffers,
           fresh' = fresh \ {r}, r \in fresh, alive' = alive \cup {r}, client = "connected",
           UNCHANGED <<client, wrapper, buffer_, callback_, shown, server, owed, asked, done>>
    PROVE  IndInv'
<1>1. Exact(wrapper, buffer_, callback_, alive \cup {r}, fresh \ {r})
    BY CreateExact DEF IndInv
<1>2. OwedExact(wrapper, buffer_, alive \cup {r}, fresh \ {r}, owed)
    BY SurfaceAssumption DEF IndInv, OwedExact
<1> QED BY <1>1, <1>2 DEF IndInv, OtherTypes

\* A buffer or a callback ends by the client's request, or with the client.
LEMMA ResourceStep ==
    ASSUME IndInv, NEW r \in Buffers \cup Callbacks, r \in alive,
           client = "connected" => r \in Buffers,
           alive' = alive \ {r}, wrapper' = Destroyed(wrapper, r),
           UNCHANGED <<client, fresh, buffer_, callback_, shown, server, owed, asked, done>>
    PROVE  IndInv'
<1> DEFINE D == Destroyed(wrapper, r)
<1>1. /\ Exact(D, buffer_, callback_, alive \ {r}, fresh)
      /\ Follows(D, wrapper, {j \in 1..Len(wrapper) : wrapper[j].res # r})
    BY DestroyedExact DEF IndInv
<1> HIDE DEF D
<1>2. OwedExact(D, buffer_, alive \ {r}, fresh, owed)
    <2>1. \A s \in Surfaces : s \notin alive \ {r} => s \notin alive
        BY SurfaceAssumption
    <2>2. \A s \in Surfaces : buffer_[s] # 0 => D[buffer_[s]].res = wrapper[buffer_[s]].res
        BY <1>1 DEF IndInv, Exact, Members, Follows
    <2> QED BY <2>1, <2>2 DEF IndInv, OwedExact
<1>3. client = "connected" => Pending(D, callback_)
    <2> SUFFICES ASSUME client = "connected" PROVE Pending(D, callback_)
        OBVIOUS
    <2>1. \A s \in Surfaces : callback_[s] # 0 => D[callback_[s]] = wrapper[callback_[s]]
        BY <1>1, SurfaceAssumption DEF IndInv, Exact, Members, Follows
    <2> QED BY <2>1, PendingKept DEF IndInv
<1> QED BY <1>1, <1>2, <1>3 DEF IndInv, OtherTypes, D

\* attach: the old wrapper is detached, its buffer released, a new one taken.
LEMMA AttachStep ==
    ASSUME IndInv, NEW s \in Surfaces, NEW b \in Buffers, Attach(s, b)
    PROVE  IndInv'
<1> USE DEF Attach, Requests
<1> DEFINE i == buffer_[s]
           D == Detached(wrapper, i)
           E == [buffer_ EXCEPT ![s] = 0]
           n == Len(wrapper) + 1
<1>1. /\ Exact(D, E, callback_, alive, fresh)
      /\ Follows(D, wrapper, (1..Len(wrapper)) \ {i})
    BY DetachExact DEF IndInv
<1>2. buffer_ \in [Surfaces -> 0..Len(wrapper)] /\ callback_ \in [Surfaces -> 0..Len(wrapper)]
        /\ Len(wrapper) \in Nat
    BY LenProperties DEF IndInv, Exact, Members
<1>3. E[s] = 0 /\ [E EXCEPT ![s] = n] = buffer_'
    BY <1>2
<1>4. wrapper' = Append(D, NewWrapper(b))
    OBVIOUS
<1>5. b \notin fresh
    BY DEF IndInv, OwedExact
<1> HIDE DEF D, E
<1>6. Exact(wrapper', buffer_', callback_, alive, fresh) /\ Len(wrapper') = n
        /\ \A j \in 1..Len(wrapper) : wrapper'[j] = D[j]
    <2>1. Len(D) = Len(wrapper)
        BY <1>1 DEF Follows
    <2>2. /\ Exact(Append(D, NewWrapper(b)), [E EXCEPT ![s] = Len(D) + 1], callback_, alive, fresh)
          /\ Grows(Append(D, NewWrapper(b)), D)
        BY <1>1, <1>3, <1>5, TakeBufferExact
    <2> QED BY <1>3, <1>4, <2>1, <2>2 DEF Grows
<1>7. wrapper'[n].res = b
    <2>1. NewWrapper(b) \in Wrapper /\ NewWrapper(b).res = b
        BY NewSound DEF Sound
    <2>2. D \in Seq(Wrapper)
        BY <1>1 DEF Exact
    <2> QED BY <1>1, <1>4, <2>1, <2>2, AppendProperties DEF Follows
<1>8. OwedExact(wrapper', buffer_', alive, fresh, owed')
    <2>1. owed \in [Surfaces -> SUBSET Buffers]
        BY DEF IndInv, OwedExact
    <2>2. \A t \in Surfaces : owed'[t] = IF t = s THEN (owed[s] \cup {b}) \ Released(i) ELSE owed[t]
        BY <2>1
    <2>3. owed' \in [Surfaces -> SUBSET Buffers]
        BY <2>1
    <2>4. \A c \in owed'[s] \cap alive : c = b
        <3> SUFFICES ASSUME NEW c \in owed'[s] \cap alive, c # b PROVE FALSE
            OBVIOUS
        <3>1. c \in owed[s] /\ c \notin Released(i) /\ c \in alive
            BY <2>2
        <3>2. i # 0 /\ wrapper[i].res = c
            BY <3>1 DEF IndInv, OwedExact
        <3>3. i \in 1..Len(wrapper)
            BY <1>2, <3>2
        <3>4. wrapper[i].valid
            BY <3>1, <3>2, <3>3 DEF IndInv, Exact, Resourceful
        <3> QED BY <3>1, <3>2, <3>4 DEF Released
    <2>5. buffer_'[s] = n /\ \A t \in Surfaces : t # s => buffer_'[t] = buffer_[t]
        BY <1>2
    <2>6. ASSUME NEW t \in Surfaces, t # s, NEW c \in owed'[t] \cap alive
          PROVE  buffer_'[t] # 0 /\ wrapper'[buffer_'[t]].res = c
        <3>1. buffer_[t] # 0 /\ wrapper[buffer_[t]].res = c
            BY <2>2, <2>6 DEF IndInv, OwedExact
        <3>2. buffer_[t] \in 1..Len(wrapper)
            BY <1>2, <3>1
        <3> QED BY <3>1, <3>2, <2>5, <2>6, <1>1, <1>6 DEF Follows
    <2>7. \A t \in Surfaces : (t \notin alive => owed'[t] = {}) /\ owed'[t] \cap fresh = {}
        BY <2>2, <1>5 DEF IndInv, OwedExact
    <2>8. alive \cap fresh = {}
        BY DEF IndInv, OwedExact
    <2>9. n # 0
        BY <1>2
    <2> HIDE DEF n
    <2> QED BY <2>3, <2>4, <2>5, <2>6, <2>7, <2>8, <2>9, <1>7 DEF OwedExact
<1>9. Pending(wrapper', callback_)
    <2>1. \A t \in Surfaces : callback_[t] # 0 => callback_[t] # i
        BY SurfaceAssumption DEF IndInv, Exact, Members
    <2>2. \A t \in Surfaces : callback_[t] # 0 => wrapper'[callback_[t]] = wrapper[callback_[t]]
        BY <2>1, <1>1, <1>2, <1>6 DEF Follows
    <2>3. Pending(wrapper, callback_)
        BY DEF IndInv
    <2> QED BY <2>2, <2>3 DEF Pending
<1> QED BY <1>6, <1>8, <1>9 DEF IndInv, OtherTypes

\* The callback of a surface is answered, if it has one, by commit or frame.
LEMMA FireStep ==
    ASSUME IndInv, client = "connected", NEW s \in Surfaces
    PROVE  LET D == Fired(wrapper, callback_[s])
               E == [callback_ EXCEPT ![s] = 0]
               A == alive \ FiredRes(callback_[s])
           IN  /\ Exact(D, buffer_, E, A, fresh)
               /\ OwedExact(D, buffer_, A, fresh, owed)
               /\ Pending(D, E)
               /\ Len(D) = Len(wrapper)
               /\ SendDone(s) \in [Surfaces -> Seq(Callbacks)]
               /\ \A t \in Surfaces : t \in alive => t \in A
<1> DEFINE i == callback_[s]
           D == Fired(wrapper, i)
           E == [callback_ EXCEPT ![s] = 0]
           A == alive \ FiredRes(i)
<1>1. callback_ \in [Surfaces -> 0..Len(wrapper)] /\ buffer_ \in [Surfaces -> 0..Len(wrapper)]
    BY DEF IndInv, Exact, Members
<1>2. CASE i = 0
    <2>1. D = wrapper /\ E = callback_ /\ A = alive /\ SendDone(s) = done
        BY <1>1, <1>2 DEF Fired, FiredRes, SendDone
    <2> HIDE DEF D, E, A, i
    <2> QED BY <2>1 DEF IndInv, OtherTypes, D, E, A, i
<1>3. CASE i # 0
    <2>1. wrapper[i].res \in Callbacks
        BY <1>3 DEF IndInv, Exact, Members
    <2>2. A = alive \ {wrapper[i].res}
        BY <1>3 DEF FiredRes
    <2>3. Exact(D, buffer_, E, alive \ {wrapper[i].res}, fresh) /\ Pending(D, E)
            /\ Follows(D, wrapper, {})
        BY <1>3, FiredExact DEF IndInv
    <2>4. SendDone(s) \in [Surfaces -> Seq(Callbacks)]
        <3>1. done \in [Surfaces -> Seq(Callbacks)]
            BY DEF IndInv, OtherTypes
        <3>2. Append(done[s], wrapper[i].res) \in Seq(Callbacks)
            BY <2>1, <3>1, AppendProperties
        <3>3. SendDone(s) = [done EXCEPT ![s] = Append(done[s], wrapper[i].res)]
            BY <1>3 DEF SendDone
        <3> QED BY <3>1, <3>2, <3>3
    <2>5. \A t \in Surfaces : t \in alive => t \in A
        BY <2>1, <2>2, SurfaceAssumption
    <2>6. OwedExact(D, buffer_, A, fresh, owed)
        <3> HIDE DEF D, E, A
        <3>1. \A t \in Surfaces : buffer_[t] # 0 => D[buffer_[t]].res = wrapper[buffer_[t]].res
            BY <1>1, <2>3 DEF Follows
        <3>2. A \subseteq alive
            BY <2>2
        <3> QED BY <3>1, <3>2, <2>5 DEF IndInv, OwedExact
    <2>7. Len(D) = Len(wrapper)
        BY <2>3 DEF Follows
    <2> HIDE DEF D, E, A, i
    <2> QED BY <2>2, <2>3, <2>4, <2>5, <2>6, <2>7 DEF D, E, A, i
<1> QED BY <1>2, <1>3

\* commit
LEMMA CommitStep ==
    ASSUME IndInv, NEW s \in Surfaces, Commit(s)
    PROVE  IndInv'
<1>1. client = "connected"
    BY DEF Commit, Requests
<1> QED BY <1>1, FireStep DEF IndInv, OtherTypes, Commit

\* frame: the pending callback is answered and a new one taken.
LEMMA FrameStep ==
    ASSUME IndInv, NEW s \in Surfaces, NEW c \in Callbacks, Frame(s, c)
    PROVE  IndInv'
<1> USE DEF Frame, Requests, NewId
<1> DEFINE D == Fired(wrapper, callback_[s])
           E == [callback_ EXCEPT ![s] = 0]
           A == alive \ FiredRes(callback_[s])
           n == Len(wrapper) + 1
           X == Append(D, NewWrapper(c))
<1>1. /\ Exact(D, buffer_, E, A, fresh)
      /\ OwedExact(D, buffer_, A, fresh, owed)
      /\ Pending(D, E)
      /\ Len(D) = Len(wrapper)
      /\ SendDone(s) \in [Surfaces -> Seq(Callbacks)]
      /\ \A t \in Surfaces : t \in alive => t \in A
    BY FireStep
<1>2. callback_ \in [Surfaces -> 0..Len(wrapper)] /\ Len(wrapper) \in Nat
        /\ buffer_ \in [Surfaces -> 0..Len(wrapper)]
    BY LenProperties DEF IndInv, Exact, Members
<1>3. E[s] = 0 /\ [E EXCEPT ![s] = n] = callback_' /\ E \in [Surfaces -> 0..Len(wrapper)]
    BY <1>2
<1>4. wrapper' = X /\ alive' = A \cup {c} /\ fresh' = fresh \ {c} /\ s \in A /\ c \in fresh
    BY <1>1
<1> HIDE DEF D, E, A
<1>5. /\ Exact(X, buffer_, [E EXCEPT ![s] = Len(D) + 1], A \cup {c}, fresh \ {c})
      /\ X[Len(D) + 1].valid
      /\ Grows(X, D)
    <2> HIDE DEF Frame, Requests, NewId
    <2>1. s \in A /\ E[s] = 0 /\ c \in fresh /\ Exact(D, buffer_, E, A, fresh)
        BY <1>1, <1>3, <1>4
    <2> QED BY ONLY <2>1, s \in Surfaces, c \in Callbacks, TakeCallbackExact
<1> HIDE DEF X
<1>6. Exact(wrapper', buffer_', callback_', alive', fresh')
    BY <1>1, <1>3, <1>4, <1>5
<1>7. OwedExact(X, buffer_, A \cup {c}, fresh \ {c}, owed)
    <2>1. \A t \in Surfaces : buffer_[t] # 0 => X[buffer_[t]].res = D[buffer_[t]].res
        BY <1>1, <1>2, <1>5 DEF Grows
    <2> QED BY <2>1, <1>1, <1>4 DEF OwedExact
<1>8. Pending(X, [E EXCEPT ![s] = n])
    <2> SUFFICES ASSUME NEW t \in Surfaces, [E EXCEPT ![s] = n][t] # 0
                 PROVE  X[[E EXCEPT ![s] = n][t]].valid
        BY DEF Pending
    <2>1. CASE t = s
        BY <2>1, <1>1, <1>3, <1>5
    <2>2. CASE t # s
        <3>1. [E EXCEPT ![s] = n][t] = E[t] /\ E[t] \in 1..Len(D)
            BY <2>2, <1>1, <1>3
        <3> QED BY <3>1, <1>1, <1>5 DEF Pending, Grows
    <2> QED BY <2>1, <2>2
<1>9. OtherTypes'
    <2>1. asked' \in [Surfaces -> Seq(Callbacks)]
        BY AppendProperties DEF IndInv, OtherTypes
    <2> QED BY <2>1, <1>1 DEF IndInv, OtherTypes
<1> QED BY <1>3, <1>4, <1>6, <1>7, <1>8, <1>9 DEF IndInv

\* The surface goes away: its buffer is detached, its callback dropped.
LEMMA SurfaceGoneStep ==
    ASSUME IndInv, NEW s \in Surfaces, s \in alive, SurfaceGone(s), alive' = alive \ {s},
           client # "gone", UNCHANGED <<client, fresh, server, asked, done>>
    PROVE  IndInv'
<1> DEFINE D == Detached(wrapper, buffer_[s])
           E == [buffer_ EXCEPT ![s] = 0]
           i == callback_[s]
           M == [D EXCEPT ![i] = Unset(@)]
           G == [callback_ EXCEPT ![s] = 0]
<1>1. callback_ \in [Surfaces -> 0..Len(wrapper)] /\ buffer_ \in [Surfaces -> 0..Len(wrapper)]
        /\ Len(wrapper) \in Nat
    BY LenProperties DEF IndInv, Exact, Members
<1>2. /\ Exact(D, E, callback_, alive, fresh)
      /\ Follows(D, wrapper, (1..Len(wrapper)) \ {buffer_[s]})
    BY DetachExact DEF IndInv
<1>3. wrapper' = (IF i = 0 THEN D ELSE M) /\ buffer_' = E /\ callback_' = G
    BY DEF SurfaceGone
<1>4. \A t \in Surfaces : G[t] = (IF t = s THEN 0 ELSE callback_[t])
        /\ E[t] = (IF t = s THEN 0 ELSE buffer_[t])
    BY <1>1
<1>5. Len(D) = Len(wrapper) /\ i \in 0..Len(D)
    BY <1>1, <1>2 DEF Follows
<1> HIDE DEF D, E
<1>6. Exact(wrapper', E, G, alive, fresh) /\ Follows(wrapper', D, (1..Len(D)) \ {i})
    <2>1. CASE i = 0
        <3>1. wrapper' = D /\ G = callback_
            BY <1>1, <1>3, <2>1
        <3>2. Follows(D, D, (1..Len(D)) \ {i})
            BY DEF Follows
        <3> QED BY <3>1, <3>2, <1>2
    <2>2. CASE i # 0
        <3>1. Exact(M, E, G, alive, fresh) /\ Follows(M, D, (1..Len(D)) \ {i})
            BY <1>2, <2>2, UnsetExact
        <3> QED BY <3>1, <2>2, <1>3
    <2> QED BY <2>1, <2>2
<1> HIDE DEF G, M
<1>7. Exact(wrapper', E, G, alive \ {s}, fresh)
    BY <1>4, <1>6, RemoveSurfaceExact
<1>8. OwedExact(wrapper', E, alive \ {s}, fresh, owed')
    <2>1. owed \in [Surfaces -> SUBSET Buffers] /\ owed' = [owed EXCEPT ![s] = {}]
        BY DEF IndInv, OwedExact, SurfaceGone
    <2>2. owed' \in [Surfaces -> SUBSET Buffers]
            /\ \A t \in Surfaces : owed'[t] = IF t = s THEN {} ELSE owed[t]
        BY <2>1
    <2>3. \A j \in 1..Len(wrapper) : wrapper'[j].res = wrapper[j].res
        BY <1>2, <1>5, <1>6 DEF Follows
    <2>4. \A t \in Surfaces : t # s /\ buffer_[t] # 0 =>
            E[t] = buffer_[t] /\ wrapper'[E[t]].res = wrapper[buffer_[t]].res
        BY <1>1, <1>4, <2>3
    <2>5. alive \cap fresh = {}
        BY DEF IndInv, OwedExact
    <2>6. \A t \in Surfaces :
            /\ t \notin alive \ {s} => owed'[t] = {}
            /\ owed'[t] \cap fresh = {}
            /\ \A b \in owed'[t] \cap (alive \ {s}) : E[t] # 0 /\ wrapper'[E[t]].res = b
        BY <2>2, <2>4 DEF IndInv, OwedExact
    <2> QED BY <2>2, <2>5, <2>6 DEF OwedExact
<1>9. client = "connected" => Pending(wrapper', G)
    <2> SUFFICES ASSUME client = "connected", NEW t \in Surfaces, G[t] # 0
                 PROVE  wrapper'[G[t]].valid
        BY DEF Pending
    <2>1. t # s /\ G[t] = callback_[t] /\ callback_[t] \in 1..Len(wrapper)
        BY <1>1, <1>4
    <2>2. callback_[t] # i
        BY <2>1 DEF IndInv, Exact, Members
    <2>3. callback_[t] # buffer_[s]
        BY <2>1, SurfaceAssumption DEF IndInv, Exact, Members
    <2>4. wrapper'[callback_[t]] = wrapper[callback_[t]]
        BY <2>1, <2>2, <2>3, <1>2, <1>5, <1>6 DEF Follows
    <2>5. wrapper[callback_[t]].valid
        BY <2>1 DEF IndInv, Pending
    <2> QED BY <2>1, <2>4, <2>5
<1>10. OtherTypes'
    BY DEF IndInv, OtherTypes, SurfaceGone
<1> QED BY <1>3, <1>7, <1>8, <1>9, <1>10 DEF IndInv

\* Every step keeps the inductive invariant.
LEMMA IndInvStep == IndInv /\ [Next]_vars => IndInv'
<1> SUFFICES ASSUME IndInv, [Next]_vars PROVE IndInv'
    OBVIOUS
<1>1. CASE UNCHANGED vars
    BY <1>1 DEF vars, IndInv, OtherTypes
<1>2. ASSUME NEW s \in Surfaces, SurfaceNext(s) PROVE IndInv'
    <2>1. CASE CreateSurface(s)
        BY <2>1, CreateStep DEF CreateSurface, NewId, Requests
    <2>2. CASE GetShellSurface(s)
        BY <2>2 DEF GetShellSurface, IndInv, OtherTypes
    <2>3. CASE \E b \in Buffers : Attach(s, b)
        BY <2>3, AttachStep
    <2>4. CASE AttachNull(s)
        BY <2>4 DEF AttachNull, IndInv, OtherTypes
    <2>5. CASE \E c \in Callbacks : Frame(s, c)
        BY <2>5, FrameStep
    <2>6. CASE Commit(s)
        BY <2>6, CommitStep
    <2>7. CASE ReadDestroyedBuffer(s)
        BY <2>7 DEF ReadDestroyedBuffer, IndInv, OtherTypes
    <2>8. CASE DestroySurface(s)
        BY <2>8, SurfaceGoneStep DEF DestroySurface, Requests
    <2>9. CASE LeaveSurface(s)
        BY <2>9, SurfaceGoneStep DEF LeaveSurface
    <2> QED BY <1>2, <2>1, <2>2, <2>3, <2>4, <2>5, <2>6, <2>7, <2>8, <2>9 DEF SurfaceNext
<1>3. ASSUME NEW b \in Buffers, CreateBuffer(b) PROVE IndInv'
    BY <1>3, CreateStep DEF CreateBuffer, NewId, Requests
<1>4. ASSUME NEW b \in Buffers, DestroyBuffer(b) PROVE IndInv'
    BY <1>4, ResourceStep DEF DestroyBuffer
<1>5. CASE Disconnect
    BY <1>5 DEF Disconnect, IndInv, OtherTypes
<1>6. ASSUME NEW r \in Buffers \cup Callbacks, LeaveResource(r) PROVE IndInv'
    BY <1>6, ResourceStep DEF LeaveResource
<1>7. CASE Left
    BY <1>7 DEF Left, IndInv, OtherTypes
<1> QED BY <1>1, <1>2, <1>3, <1>4, <1>5, <1>6, <1>7 DEF Next

\* The counts are exact at all times.
LEMMA Invariance == Spec => []IndInv
    BY IndInvInit, IndInvStep, PTL DEF Spec

-----------------------------------------------------------------------------
(* The answers to frame requests *)

\* A surface's member i, its requests q and the answers d, with the wrappers W
InOrder(W, i, q, d) ==
    /\ Len(q) = Len(d) + (IF i = 0 THEN 0 ELSE 1)
    /\ \A k \in 1..Len(d) : d[k] = q[k]
    /\ i # 0 => W[i].res = q[Len(q)]

FramesInv ==
    client = "connected" =>
        \A s \in Surfaces : s \in alive \cup fresh =>
            InOrder(wrapper, callback_[s], asked[s], done[s])

\* A wrapper is of the same resource for ever.
SameRes ==
    \A j \in 1..Len(wrapper) : j \in 1..Len(wrapper') /\ wrapper'[j].res = wrapper[j].res

\* Nothing changes for a surface whose member and histories do not change.
LEMMA FramesKept ==
    ASSUME IndInv, FramesInv, SameRes, client' = "connected" => client = "connected",
           \A t \in Surfaces : t \in alive' \cup fresh' =>
              /\ t \in alive \cup fresh
              /\ callback_'[t] = callback_[t] /\ asked'[t] = asked[t] /\ done'[t] = done[t]
    PROVE  FramesInv'
<1> SUFFICES ASSUME client = "connected", NEW t \in Surfaces, t \in alive \cup fresh
             PROVE  InOrder(wrapper', callback_[t], asked[t], done[t])
    BY DEF FramesInv
<1>1. callback_[t] \in 0..Len(wrapper) /\ Len(wrapper) \in Nat
    BY LenProperties DEF IndInv, Exact, Members
<1>2. callback_[t] # 0 => wrapper'[callback_[t]].res = wrapper[callback_[t]].res
    BY <1>1 DEF SameRes
<1> QED BY <1>2 DEF FramesInv, InOrder

\* attach
LEMMA AttachSameRes ==
    ASSUME IndInv, NEW s \in Surfaces, NEW b \in Buffers, Attach(s, b)
    PROVE  SameRes
<1> DEFINE D == Detached(wrapper, buffer_[s])
<1>1. D \in Seq(Wrapper) /\ Follows(D, wrapper, (1..Len(wrapper)) \ {buffer_[s]})
    BY DetachExact DEF IndInv, Exact
<1>2. wrapper' = Append(D, NewWrapper(b)) /\ NewWrapper(b) \in Wrapper
    BY NewSound DEF Attach, Sound
<1> HIDE DEF D
<1>3. Len(wrapper') = Len(D) + 1 /\ \A j \in 1..Len(D) : wrapper'[j] = D[j]
    BY <1>1, <1>2, AppendProperties
<1> QED BY <1>1, <1>3, LenProperties DEF Follows, SameRes

\* The callback that commit and frame answer leaves all wrappers their resources.
LEMMA FiredSameRes ==
    ASSUME IndInv, client = "connected", NEW s \in Surfaces
    PROVE  Fired(wrapper, callback_[s]) \in Seq(Wrapper)
           /\ Follows(Fired(wrapper, callback_[s]), wrapper, {})
<1>1. CASE callback_[s] = 0
    BY <1>1 DEF Fired, Follows, IndInv, Exact
<1>2. CASE callback_[s] # 0
    BY <1>2, FiredExact DEF IndInv, Exact
<1> QED BY <1>1, <1>2

\* The end of a surface
LEMMA SurfaceGoneSameRes ==
    ASSUME IndInv, NEW s \in Surfaces, SurfaceGone(s)
    PROVE  SameRes
<1> DEFINE D == Detached(wrapper, buffer_[s])
           i == callback_[s]
           M == [D EXCEPT ![i] = Unset(@)]
<1>1. /\ Exact(D, [buffer_ EXCEPT ![s] = 0], callback_, alive, fresh)
      /\ Follows(D, wrapper, (1..Len(wrapper)) \ {buffer_[s]})
    BY DetachExact DEF IndInv
<1>2. wrapper' = IF i = 0 THEN D ELSE M
    BY DEF SurfaceGone
<1> HIDE DEF D
<1>3. i # 0 => Follows(M, D, (1..Len(D)) \ {i})
    BY <1>1, UnsetExact
<1> HIDE DEF M
<1> QED BY <1>1, <1>2, <1>3 DEF Follows, SameRes

\* The pending callback of a surface is answered: the last of its requests is the
\* last of its answers.
LEMMA AnswerInOrder ==
    ASSUME IndInv, FramesInv, client = "connected", NEW s \in Surfaces, s \in alive
    PROVE  /\ SendDone(s) \in [Surfaces -> Seq(Callbacks)]
           /\ Len(SendDone(s)[s]) = Len(asked[s])
           /\ \A k \in 1..Len(asked[s]) : SendDone(s)[s][k] = asked[s][k]
           /\ \A t \in Surfaces : t # s => SendDone(s)[t] = done[t]
<1> DEFINE i == callback_[s]
           d == done[s]
           q == asked[s]
<1>1. done \in [Surfaces -> Seq(Callbacks)] /\ d \in Seq(Callbacks) /\ q \in Seq(Callbacks)
    BY DEF IndInv, OtherTypes
<1>2. InOrder(wrapper, i, q, d) /\ Len(d) \in Nat /\ Len(q) \in Nat
    BY <1>1, LenProperties DEF FramesInv
<1>3. SendDone(s) \in [Surfaces -> Seq(Callbacks)]
    BY FireStep
<1>4. CASE i = 0
    <2>1. SendDone(s) = done
        BY <1>4 DEF SendDone
    <2> QED BY <1>1, <1>2, <1>3, <1>4, <2>1 DEF InOrder
<1>5. CASE i # 0
    <2> DEFINE e == wrapper[i].res
    <2>1. SendDone(s) = [done EXCEPT ![s] = Append(d, e)] /\ e \in Callbacks
        BY <1>5 DEF SendDone, IndInv, Exact, Members
    <2>2. SendDone(s)[s] = Append(d, e) /\ \A t \in Surfaces : t # s => SendDone(s)[t] = done[t]
        BY <1>1, <2>1
    <2>3. Len(q) = Len(d) + 1 /\ e = q[Len(q)] /\ \A k \in 1..Len(d) : d[k] = q[k]
        BY <1>2, <1>5 DEF InOrder
    <2> HIDE DEF d, q, e
    <2>4. /\ Len(Append(d, e)) = Len(d) + 1 /\ Append(d, e)[Len(d) + 1] = e
          /\ \A k \in 1..Len(d) : Append(d, e)[k] = d[k]
        BY <1>1, <2>1, AppendProperties
    <2>5. Len(Append(d, e)) = Len(q) /\ \A k \in 1..Len(q) : Append(d, e)[k] = q[k]
        BY <1>2, <2>3, <2>4
    <2> QED BY <1>3, <2>2, <2>5 DEF d, q
<1> QED BY <1>4, <1>5

\* commit
LEMMA CommitFrames ==
    ASSUME IndInv, FramesInv, NEW s \in Surfaces, Commit(s)
    PROVE  FramesInv'
<1>1. /\ client = "connected" /\ client' = client /\ s \in alive /\ fresh' = fresh
      /\ wrapper' = Fired(wrapper, callback_[s]) /\ callback_' = [callback_ EXCEPT ![s] = 0]
      /\ alive' = alive \ FiredRes(callback_[s]) /\ done' = SendDone(s) /\ asked' = asked
    BY DEF Commit, Requests
<1>2. /\ Len(done'[s]) = Len(asked[s])
      /\ \A k \in 1..Len(asked[s]) : done'[s][k] = asked[s][k]
      /\ \A t \in Surfaces : t # s => done'[t] = done[t]
    BY <1>1, AnswerInOrder
<1>3. SameRes
    BY <1>1, FiredSameRes DEF Follows, SameRes
<1>4. \A t \in Surfaces : callback_'[t] = IF t = s THEN 0 ELSE callback_[t]
    BY <1>1 DEF IndInv, Exact, Members
<1> SUFFICES ASSUME NEW t \in Surfaces, t \in alive \cup fresh
             PROVE  InOrder(wrapper', callback_'[t], asked'[t], done'[t])
    BY <1>1 DEF FramesInv
<1>5. CASE t = s
    <2>1. Len(asked[s]) \in Nat
        BY LenProperties DEF IndInv, OtherTypes
    <2>2. callback_'[t] = 0 /\ asked'[t] = asked[s] /\ done'[t] = done'[s]
        BY <1>1, <1>4, <1>5
    <2>3. Len(asked[s]) = Len(done'[s]) + 0
        BY <1>2, <2>1
    <2> QED BY <1>2, <2>2, <2>3 DEF InOrder
<1>6. CASE t # s
    <2>1. InOrder(wrapper, callback_[t], asked[t], done[t])
        BY <1>1 DEF FramesInv
    <2>2. callback_[t] \in 0..Len(wrapper) /\ Len(wrapper) \in Nat
        BY LenProperties DEF IndInv, Exact, Members
    <2>3. callback_[t] # 0 => wrapper'[callback_[t]].res = wrapper[callback_[t]].res
        BY <1>3, <2>2 DEF SameRes
    <2> QED BY <1>1, <1>2, <1>4, <1>6, <2>1, <2>3 DEF InOrder
<1> QED BY <1>5, <1>6

\* frame
LEMMA FrameFrames ==
    ASSUME IndInv, FramesInv, NEW s \in Surfaces, NEW c \in Callbacks, Frame(s, c)
    PROVE  FramesInv'
<1> DEFINE D == Fired(wrapper, callback_[s])
           n == Len(wrapper) + 1
<1>1. /\ client = "connected" /\ client' = client /\ s \in alive /\ fresh' = fresh \ {c}
      /\ wrapper' = Append(D, NewWrapper(c)) /\ callback_' = [callback_ EXCEPT ![s] = n]
      /\ alive' = (alive \ FiredRes(callback_[s])) \cup {c} /\ done' = SendDone(s)
      /\ asked' = [asked EXCEPT ![s] = Append(@, c)]
    BY DEF Frame, Requests, NewId
<1>2. /\ Len(done'[s]) = Len(asked[s])
      /\ \A k \in 1..Len(asked[s]) : done'[s][k] = asked[s][k]
      /\ \A t \in Surfaces : t # s => done'[t] = done[t]
    BY <1>1, AnswerInOrder
<1>3. D \in Seq(Wrapper) /\ Follows(D, wrapper, {}) /\ Len(wrapper) \in Nat
    BY <1>1, FiredSameRes, LenProperties DEF IndInv, Exact
<1>4. NewWrapper(c) \in Wrapper /\ NewWrapper(c).res = c
    BY NewSound DEF Sound
<1> HIDE DEF D
<1>5. /\ Len(wrapper') = n /\ wrapper'[n].res = c
      /\ \A j \in 1..Len(wrapper) : wrapper'[j] = D[j]
    BY <1>1, <1>3, <1>4, AppendProperties DEF Follows
<1>6. SameRes
    BY <1>3, <1>5 DEF Follows, SameRes
<1>7. \A t \in Surfaces : callback_'[t] = IF t = s THEN n ELSE callback_[t]
    BY <1>1 DEF IndInv, Exact, Members
<1>8. asked[s] \in Seq(Callbacks) /\ Len(asked[s]) \in Nat
      /\ \A t \in Surfaces : asked'[t] = IF t = s THEN Append(asked[s], c) ELSE asked[t]
    BY <1>1, LenProperties DEF IndInv, OtherTypes
<1> SUFFICES ASSUME NEW t \in Surfaces, t \in alive \cup fresh
             PROVE  InOrder(wrapper', callback_'[t], asked'[t], done'[t])
    BY <1>1, SurfaceAssumption DEF FramesInv
<1>9. CASE t = s
    <2>1. /\ Len(asked'[s]) = Len(asked[s]) + 1 /\ asked'[s][Len(asked[s]) + 1] = c
          /\ \A k \in 1..Len(asked[s]) : asked'[s][k] = asked[s][k]
        <3>1. asked'[s] = Append(asked[s], c)
            BY <1>8
        <3> QED BY <1>8, <3>1, AppendProperties
    <2>2. n # 0
        BY <1>3
    <2> QED BY <1>2, <1>5, <1>7, <1>8, <1>9, <2>1, <2>2 DEF InOrder
<1>10. CASE t # s
    <2>1. InOrder(wrapper, callback_[t], asked[t], done[t])
        BY <1>1 DEF FramesInv
    <2>2. callback_[t] \in 0..Len(wrapper) /\ Len(wrapper) \in Nat
        BY LenProperties DEF IndInv, Exact, Members
    <2>3. callback_[t] # 0 => wrapper'[callback_[t]].res = wrapper[callback_[t]].res
        BY <1>6, <2>2 DEF SameRes
    <2> QED BY <1>2, <1>7, <1>8, <1>10, <2>1, <2>3 DEF InOrder
<1> QED BY <1>9, <1>10

\* Every step keeps the order.
LEMMA FramesStep == IndInv /\ FramesInv /\ [Next]_vars => FramesInv'
<1> SUFFICES ASSUME IndInv, FramesInv, [Next]_vars PROVE FramesInv'
    OBVIOUS
<1>1. wrapper' = wrapper => SameRes
    BY DEF SameRes
<1>2. ASSUME NEW s \in Surfaces, SurfaceGone(s), s \in alive, alive' = alive \ {s},
             UNCHANGED <<client, fresh, asked, done>>
      PROVE  FramesInv'
    <2>1. SameRes
        BY <1>2, SurfaceGoneSameRes
    <2>2. s \notin fresh
        BY <1>2 DEF IndInv, OwedExact
    <2>3. \A t \in Surfaces : t # s => callback_'[t] = callback_[t]
        BY <1>2 DEF SurfaceGone, IndInv, Exact, Members
    <2> QED BY <1>2, <2>1, <2>2, <2>3, FramesKept
<1>3. ASSUME NEW r \in Buffers \cup Callbacks, wrapper' = Destroyed(wrapper, r), alive' = alive \ {r},
             UNCHANGED <<client, fresh, callback_, asked, done>>
      PROVE  FramesInv'
    <2>1. Follows(wrapper', wrapper, {j \in 1..Len(wrapper) : wrapper[j].res # r})
        BY <1>3, DestroyedExact DEF IndInv
    <2>2. SameRes
        BY <2>1 DEF Follows, SameRes
    <2> QED BY <1>3, <2>2, FramesKept
<1>4. ASSUME NEW r \in Resources, wrapper' = wrapper, r \in fresh, fresh' = fresh \ {r},
             alive' = alive \cup {r}, UNCHANGED <<client, callback_, asked, done>>
      PROVE  FramesInv'
    BY <1>1, <1>4, FramesKept
<1>5. ASSUME UNCHANGED <<fresh, alive, wrapper, callback_, asked, done>>,
             client' = "connected" => client = "connected"
      PROVE  FramesInv'
    BY <1>1, <1>5, FramesKept
<1>6. ASSUME NEW s \in Surfaces, SurfaceNext(s) PROVE FramesInv'
    <2>1. CASE CreateSurface(s)
        BY <1>4, <2>1 DEF CreateSurface, NewId, Resources
    <2>2. CASE GetShellSurface(s) \/ AttachNull(s) \/ ReadDestroyedBuffer(s)
        BY <1>5, <2>2 DEF GetShellSurface, AttachNull, ReadDestroyedBuffer
    <2>3. ASSUME NEW b \in Buffers, Attach(s, b) PROVE FramesInv'
        <3>1. SameRes
            BY <2>3, AttachSameRes
        <3> QED BY <2>3, <3>1, FramesKept DEF Attach
    <2>4. CASE \E c \in Callbacks : Frame(s, c)
        BY <2>4, FrameFrames
    <2>5. CASE Commit(s)
        BY <2>5, CommitFrames
    <2>6. CASE DestroySurface(s) \/ LeaveSurface(s)
        BY <1>2, <2>6 DEF DestroySurface, LeaveSurface
    <2> QED BY <1>6, <2>1, <2>2, <2>3, <2>4, <2>5, <2>6 DEF SurfaceNext
<1>7. ASSUME NEW b \in Buffers, CreateBuffer(b) PROVE FramesInv'
    BY <1>4, <1>7 DEF CreateBuffer, NewId, Resources
<1>8. ASSUME NEW b \in Buffers, DestroyBuffer(b) PROVE FramesInv'
    BY <1>3, <1>8 DEF DestroyBuffer
<1>9. ASSUME NEW r \in Buffers \cup Callbacks, LeaveResource(r) PROVE FramesInv'
    BY <1>3, <1>9 DEF LeaveResource
<1>10. CASE Disconnect \/ Left
    BY <1>5, <1>10 DEF Disconnect, Left
<1>11. CASE UNCHANGED vars
    BY <1>5, <1>11 DEF vars
<1> QED BY <1>6, <1>7, <1>8, <1>9, <1>10, <1>11 DEF Next

-----------------------------------------------------------------------------
\* The types of the state of sparkle_surface and its wrappers; in particular
\* no reference count drops below 0.
THEOREM TypeCorrect == Spec => []TypeOK
<1>1. IndInv => TypeOK
    BY DEF IndInv, OtherTypes, Exact, Members, OwedExact, TypeOK
<1> QED BY <1>1, Invariance, PTL

\* sparkle_resource and libwayland never follow a pointer to what is freed or
\* destroyed, whatever the order of requests and of the ends of resources.
THEOREM PointersAlwaysGood == Spec => []PointersGood
<1>1. IndInv => PointersGood
    <2> SUFFICES ASSUME IndInv PROVE PointersGood
        OBVIOUS
    <2>1. DOMAIN wrapper = 1..Len(wrapper)
        BY LenProperties DEF IndInv, Exact
    <2>2. ASSUME NEW j \in 1..Len(wrapper)
          PROVE  /\ wrapper[j].listener => wrapper[j].refs > 0
                 /\ wrapper[j].refs > 0 /\ wrapper[j].valid => wrapper[j].res \in alive
        <3>1. Sound(wrapper[j], Held(j, buffer_, callback_))
            BY DEF IndInv, Exact
        <3>2. wrapper[j].listener => wrapper[j].res \in alive
            BY DEF IndInv, Exact, Resourceful
        <3> QED BY <3>1, <3>2 DEF Sound, Bit, Wrapper
    <2>3. client = "connected" =>
            \A s \in Surfaces : callback_[s] # 0 => wrapper[callback_[s]].valid
        BY DEF IndInv, Pending
    <2> QED BY <2>1, <2>2, <2>3 DEF PointersGood
<1> QED BY <1>1, Invariance, PTL

\* Of several wrappers that listen to one resource, each outlives its
\* notification by wl_priv_signal_emit.
THEOREM SharedListenersSafe == Spec => []SharedListenersOutlive
<1>1. IndInv => SharedListenersOutlive
    <2> SUFFICES ASSUME IndInv, NEW j \in DOMAIN wrapper, NEW k \in DOMAIN wrapper,
                        j # k, wrapper[j].listener, wrapper[j].res = wrapper[k].res
                 PROVE  wrapper[j].refs > 2
        BY DEF SharedListenersOutlive
    <2>1. DOMAIN wrapper = 1..Len(wrapper)
        BY LenProperties DEF IndInv, Exact
    <2>2. Sound(wrapper[j], Held(j, buffer_, callback_))
        BY <2>1 DEF IndInv, Exact
    <2>3. wrapper[j].res \notin Callbacks
        BY <2>1 DEF IndInv, Exact, Resourceful
    <2>4. wrapper[j].res \in Buffers
        BY <2>2, <2>3 DEF Sound, Wrapper
    <2>5. Held(j, buffer_, callback_) = TRUE
        BY <2>1, <2>4 DEF IndInv, Exact, Resourceful, Held
    <2> QED BY <2>2, <2>5 DEF Sound, Bit
<1> QED BY <1>1, Invariance, PTL

\* Once a client is gone, every wrapper made for it is freed.
THEOREM NothingLeaked == Spec => []NoLeak
<1>1. IndInv => NoLeak
    <2> SUFFICES ASSUME IndInv, client = "gone", NEW j \in DOMAIN wrapper
                 PROVE  wrapper[j].refs = 0
        BY DEF NoLeak
    <2>1. DOMAIN wrapper = 1..Len(wrapper) /\ alive = {}
        BY LenProperties DEF IndInv, Exact
    <2>2. Sound(wrapper[j], Held(j, buffer_, callback_))
        BY <2>1 DEF IndInv, Exact
    <2>3. ~wrapper[j].listener
        BY <2>1 DEF IndInv, Exact, Resourceful
    <2>4. Held(j, buffer_, callback_) = FALSE
        BY <2>1 DEF IndInv, Exact, Members, Held
    <2> QED BY <2>2, <2>3, <2>4 DEF Sound, Bit
<1> QED BY <1>1, Invariance, PTL

\* A client that waits for release is never stuck.
THEOREM NoBufferEverForgotten == Spec => []NoBufferForgotten
<1>1. IndInv => NoBufferForgotten
    BY DEF IndInv, OwedExact, NoBufferForgotten
<1> QED BY <1>1, Invariance, PTL

\* Each frame request of a surface is answered once and in the order of the requests,
\* by commit or by the next frame request, and only the latest may be unanswered,
\* whatever the other surfaces of the client do in between.
THEOREM FramesAlwaysAnswered == Spec => []FramesAnswered
<1>1. Init => FramesInv
    <2> SUFFICES ASSUME Init, NEW t \in Surfaces
                 PROVE  InOrder(wrapper, callback_[t], asked[t], done[t])
        BY DEF FramesInv
    <2>1. callback_[t] = 0 /\ asked[t] = <<>> /\ done[t] = <<>>
        BY DEF Init
    <2> QED BY <2>1 DEF InOrder
<1>2. IndInv /\ FramesInv => FramesAnswered
    <2> SUFFICES ASSUME IndInv, FramesInv, client = "connected", NEW s \in alive \cap Surfaces
                 PROVE  /\ Len(done[s]) = Len(asked[s]) - (IF callback_[s] = 0 THEN 0 ELSE 1)
                        /\ \A i \in DOMAIN done[s] : done[s][i] = asked[s][i]
        BY DEF FramesAnswered
    <2>1. done[s] \in Seq(Callbacks) /\ asked[s] \in Seq(Callbacks)
        BY DEF IndInv, OtherTypes
    <2>2. /\ DOMAIN done[s] = 1..Len(done[s]) /\ Len(done[s]) \in Nat /\ Len(asked[s]) \in Nat
        BY <2>1, LenProperties
    <2>3. InOrder(wrapper, callback_[s], asked[s], done[s])
        BY DEF FramesInv
    <2> QED BY <2>2, <2>3 DEF InOrder
<1>3. Spec => []FramesInv
    BY <1>1, IndInvInit, IndInvStep, FramesStep, PTL DEF Spec
<1> QED BY <1>2, <1>3, Invariance, PTL
=============================================================================
