------------------------------ MODULE MCDevices ------------------------------
(* Seat with two clients: alice has two surfaces and a device of each kind,
   bob has one surface and a keyboard.  Input with one ordinary key, the right
   button, and two beyond the table, of which one acts as it.  They share no
   state: in each behaviour only one of them moves, so that their states are
   added and not multiplied. *)
EXTENDS Seat, Input, TLC

CONSTANTS s1, s2, s3, k1, k2, p1, t1, alice, bob

VARIABLE moving     \* "seat" or "input"

MCOwner == (s1 :> alice) @@ (s2 :> alice) @@ (s3 :> bob) @@ (k1 :> alice)
        @@ (k2 :> bob) @@ (p1 :> alice) @@ (t1 :> alice)

MCKeys == {"a"}

MCOutOfTable == [code \in {8, 16} |-> IF code = 8 THEN "right" ELSE "other"]

DevicesInit == SeatInit /\ Init /\ moving \in {"seat", "input"}

DevicesNext ==
    \/ moving = "seat" /\ SeatNext /\ UNCHANGED <<vars, moving>>
    \/ moving = "input" /\ Next /\ UNCHANGED <<seatVars, moving>>

DevicesSpec == DevicesInit /\ [][DevicesNext]_<<seatVars, vars, moving>>
=============================================================================
