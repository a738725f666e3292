CONSTANTS
    Clients = {c1, c2}
    Server = server
    Timer = timer
    Nobody = nobody
    MaxEvents = 3
    MaxCodes = 4
    MaxTicks = 2
SPECIFICATION Spec
INVARIANTS
    TimerReadReturns
CHECK_DEADLOCK FALSE
