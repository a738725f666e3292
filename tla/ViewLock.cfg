CONSTANTS
    IntMax = 7
    None = none
    Sizes <- MCSizes
    Stride <- MCStride
    InitialSize <- MCInitialSize
    Damages <- MCDamages
SPECIFICATION Spec
INVARIANTS
    LockSucceeds
CHECK_DEADLOCK FALSE
