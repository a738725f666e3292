CONSTANTS
    Activities = {a1, a2}
    Nobody = Nobody
    PipeSize = 2
    Malformed = {3}
    Mistyped = {4}
    MaxEdits = 4
    MaxLines = 1
    MaxStarts = 2
SPECIFICATION AppFairSpec
INVARIANTS ThreadHasActivity CommandFresh
PROPERTIES StartReturns CallbackReturns
CHECK_DEADLOCK FALSE
