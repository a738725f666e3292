CONSTANTS
    s1 = s1
    s2 = s2
    s3 = s3
    k1 = k1
    k2 = k2
    p1 = p1
    t1 = t1
    alice = alice
    bob = bob
    Surfaces = {s1, s2, s3}
    Keyboards = {k1, k2}
    Pointers = {p1}
    Touches = {t1}
    Clients = {alice, bob}
    Owner <- MCOwner
    MaxShells = 2
    MouseButtons = {2, 8, 16}
    OutOfTable <- MCOutOfTable
    Keys <- MCKeys
    MaxLosses = 2
    MaxRepeats = 2
SPECIFICATION DevicesSpec
INVARIANTS
    InputReachesOwnDevices
    FocusIsConnected
    HeldIsDown
    NothingElseIsDown
CHECK_DEADLOCK FALSE
