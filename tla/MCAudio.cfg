CONSTANTS
    Size = 2
    Period = 2
    MaxSessions = 2
    MaxBytes = 3
    MaxStops = 1
    MaxLate = 1
SPECIFICATION FairSpec
INVARIANTS
    StreamInOrder
    UnreadIntact
    BufferSafeAlone
PROPERTIES
    EveryByteHeard
    WriterWoken
    ClientReleased
CHECK_DEADLOCK FALSE
