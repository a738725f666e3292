CONSTANTS
    Size = 2
    Period = 2
    MaxSessions = 2
    MaxBytes = 3
    MaxStops = 1
    MaxLate = 1
SPECIFICATION Spec
INVARIANTS
    BufferSafe
CHECK_DEADLOCK FALSE
