CONSTANTS
    N = 3
    Own = {2, 3}
    MaxConnections = 5
SPECIFICATION FairSpec
INVARIANTS
    CleanedUpOnce
    NotEnteredAgain
    CascadeComplete
    CollapsedIsFree
PROPERTY CascadeEnds
CHECK_DEADLOCK FALSE
