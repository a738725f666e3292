CONSTANTS
    Posters = {p1, p2}
    Loop = loop
    NoThread = none
    MaxPosts = 2
    IntMax = 7
    None = noSize
    Sizes <- MCSizes
    Stride <- MCStride
    InitialSize <- MCInitialSize
    Damages <- MCDamages
SPECIFICATION HandlerViewSpec
INVARIANTS
    HandlerTypeOK
    NoLostWakeup
    NoBlockingRead
    TypeOK
    DamageCovers
PROPERTIES
    StartsEventually
    PostReturns
CHECK_DEADLOCK FALSE
