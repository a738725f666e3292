-------------------------------- MODULE Seat --------------------------------
(***************************************************************************)
(* How surfaces and input devices of the clients find each other: the slots *)
(* that sparkle connects for every wl_shell and wl_seat, and                *)
(* sparkle_surface::register_keyboard, register_pointer, register_touch.    *)
(*                                                                         *)
(* A surface that gets a shell surface starts to listen for new devices and *)
(* is announced to the devices that exist; a device starts to listen for    *)
(* new surfaces and is announced to the surfaces that exist.  Everything    *)
(* goes through signals of the one sparkle object, so every surface hears   *)
(* of the devices of every client.                                          *)
(*                                                                         *)
(* A signal's connections are counted, not listed: within one emission the  *)
(* order of the slots makes no difference to the state.                     *)
(***************************************************************************)
EXTENDS Naturals

CONSTANTS
    Surfaces, Keyboards, Pointers, Touches, \* ids the clients may create
    Clients,
    Owner,          \* whose surface or device it is
    MaxShells       \* bound: shell surfaces asked for one surface

Devices == Keyboards \cup Pointers \cup Touches

Kinds == {"keyboard", "pointer", "touch"}

ASSUME SeatAssumption ==
    /\ Surfaces \cap Devices = {}
    /\ Keyboards \cap Pointers = {}
    /\ Keyboards \cap Touches = {}
    /\ Pointers \cap Touches = {}
    /\ Owner \in [Surfaces \cup Devices -> Clients]
    /\ MaxShells \in Nat

VARIABLES
    fresh,              \* ids not used yet
    alive,              \* surfaces and devices that exist
    shells,             \* how many shell surfaces a surface was given
    surface_created,    \* connections of a device to sparkle::surface_created
    device_created,     \* connections of a surface to sparkle::keyboard_created,
                        \* pointer_created and touch_created
    registered,         \* how often a surface's input is connected to a device
    entered             \* surfaces a device was told to have entered

seatVars == <<fresh, alive, shells, surface_created, device_created, registered,
              entered>>

Kind(d) == CASE d \in Keyboards -> "keyboard"
             [] d \in Pointers  -> "pointer"
             [] OTHER           -> "touch"

SameClient(s, d) == Owner[s] = Owner[d]

\* register_keyboard and register_pointer send an enter, register_touch none.
SendsEnter(d) == d \notin Touches

-----------------------------------------------------------------------------
\* wl_compositor.create_surface
CreateSurface(s) ==
    /\ s \in fresh
    /\ fresh' = fresh \ {s}
    /\ alive' = alive \cup {s}
    /\ UNCHANGED <<shells, surface_created, device_created, registered, entered>>

\* n connections call register_* of the surface with the device.
Registrations(s, d, n) == IF SameClient(s, d) THEN n ELSE 0

\* Fault: the surface listens for devices but is not announced.
GetShellSurfaceSilent(s) ==
    /\ s \in alive
    /\ shells[s] < MaxShells
    /\ shells' = [shells EXCEPT ![s] = @ + 1]
    /\ device_created' = [k \in Kinds |-> [device_created[k] EXCEPT ![s] = @ + 1]]
    /\ UNCHANGED <<fresh, alive, surface_created, registered, entered>>

\* wl_shell.get_shell_surface: connect to the three device signals, then emit
\* surface_created.
GetShellSurface(s) ==
    /\ s \in alive
    /\ shells[s] < MaxShells
    /\ shells' = [shells EXCEPT ![s] = @ + 1]
    /\ device_created' = [k \in Kinds |-> [device_created[k] EXCEPT ![s] = @ + 1]]
    /\ registered' = [registered EXCEPT ![s] =
            [d \in Devices |-> @[d] + Registrations(s, d, surface_created[d])]]
    /\ entered' = [d \in Devices |->
            IF SendsEnter(d) /\ Registrations(s, d, surface_created[d]) > 0
            THEN entered[d] \cup {s} ELSE entered[d]]
    /\ UNCHANGED <<fresh, alive, surface_created>>

\* Fault: the enter is sent before the clients are compared.
GetDeviceEntersFirst(d) ==
    /\ d \in fresh
    /\ fresh' = fresh \ {d}
    /\ alive' = alive \cup {d}
    /\ surface_created' = [surface_created EXCEPT ![d] = @ + 1]
    /\ registered' = [s \in Surfaces |-> [registered[s] EXCEPT ![d] =
            @ + Registrations(s, d, device_created[Kind(d)][s])]]
    /\ entered' = [entered EXCEPT ![d] = @ \cup
            {s \in Surfaces : SendsEnter(d) /\ device_created[Kind(d)][s] > 0}]
    /\ UNCHANGED <<shells, device_created>>

\* wl_seat.get_keyboard, get_pointer, get_touch: connect to surface_created,
\* then emit the signal for this kind of device.
GetDevice(d) ==
    /\ d \in fresh
    /\ fresh' = fresh \ {d}
    /\ alive' = alive \cup {d}
    /\ surface_created' = [surface_created EXCEPT ![d] = @ + 1]
    /\ registered' = [s \in Surfaces |-> [registered[s] EXCEPT ![d] =
            @ + Registrations(s, d, device_created[Kind(d)][s])]]
    /\ entered' = [entered EXCEPT ![d] = @ \cup
            {s \in Surfaces : SendsEnter(d) /\ Registrations(s, d, device_created[Kind(d)][s]) > 0}]
    /\ UNCHANGED <<shells, device_created>>

\* The consumer reports that the cursor enters or leaves the surface's window:
\* each pointer registered with the surface is told.
PointerEnter(s) ==
    /\ s \in alive
    /\ entered' = [d \in Devices |->
            IF d \in Pointers /\ registered[s][d] > 0
            THEN entered[d] \cup {s} ELSE entered[d]]
    /\ UNCHANGED <<fresh, alive, shells, surface_created, device_created, registered>>

PointerLeave(s) ==
    /\ s \in alive
    /\ entered' = [d \in Devices |->
            IF d \in Pointers /\ registered[s][d] > 0
            THEN entered[d] \ {s} ELSE entered[d]]
    /\ UNCHANGED <<fresh, alive, shells, surface_created, device_created, registered>>

\* The surface's resource is destroyed, by its request or with its client:
\* the breakers take away every connection it is an end of.
DestroySurface(s) ==
    /\ s \in alive
    /\ alive' = alive \ {s}
    /\ shells' = [shells EXCEPT ![s] = 0]
    /\ device_created' = [k \in Kinds |-> [device_created[k] EXCEPT ![s] = 0]]
    /\ registered' = [registered EXCEPT ![s] = [d \in Devices |-> 0]]
    /\ entered' = [d \in Devices |-> entered[d] \ {s}]
    /\ UNCHANGED <<fresh, surface_created>>

\* The same for a device.
DestroyDevice(d) ==
    /\ d \in alive
    /\ alive' = alive \ {d}
    /\ surface_created' = [surface_created EXCEPT ![d] = 0]
    /\ registered' = [s \in Surfaces |-> [registered[s] EXCEPT ![d] = 0]]
    /\ entered' = [entered EXCEPT ![d] = {}]
    /\ UNCHANGED <<fresh, shells, device_created>>

-----------------------------------------------------------------------------
SeatInit ==
    /\ fresh = Surfaces \cup Devices
    /\ alive = {}
    /\ shells = [s \in Surfaces |-> 0]
    /\ surface_created = [d \in Devices |-> 0]
    /\ device_created = [k \in Kinds |-> [s \in Surfaces |-> 0]]
    /\ registered = [s \in Surfaces |-> [d \in Devices |-> 0]]
    /\ entered = [d \in Devices |-> {}]

SurfaceNext(s) ==
    \/ CreateSurface(s)
    \/ GetShellSurface(s)
    \/ PointerEnter(s)
    \/ PointerLeave(s)
    \/ DestroySurface(s)

DeviceNext(d) == GetDevice(d) \/ DestroyDevice(d)

SeatNext ==
    \/ \E s \in Surfaces : SurfaceNext(s)
    \/ \E d \in Devices : DeviceNext(d)

SeatSpec == SeatInit /\ [][SeatNext]_seatVars

-----------------------------------------------------------------------------
(* Properties *)

SeatTypeOK ==
    /\ fresh \subseteq Surfaces \cup Devices
    /\ alive \subseteq Surfaces \cup Devices
    /\ shells \in [Surfaces -> Nat]
    /\ surface_created \in [Devices -> Nat]
    /\ device_created \in [Kinds -> [Surfaces -> Nat]]
    /\ registered \in [Surfaces -> [Devices -> Nat]]
    /\ entered \in [Devices -> SUBSET (alive \cap Surfaces)]

\* In whatever order surfaces, shell surfaces and devices are made and
\* destroyed, a surface's input reaches every device of its own client once
\* per shell surface (the protocol allows one), and no device of another
\* client and nothing that is gone.
InputReachesOwnDevices ==
    \A s \in Surfaces, d \in Devices :
        registered[s][d] =
            IF s \in alive /\ d \in alive /\ SameClient(s, d) THEN shells[s] ELSE 0

\* A device believes to be on a surface only if that surface's input reaches
\* it: the enter events of the registrations and of the cursor never leave it
\* focused on a surface of another client or on one that is gone.
FocusIsConnected ==
    \A d \in Devices : \A s \in entered[d] : registered[s][d] > 0
=============================================================================
