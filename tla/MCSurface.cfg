CONSTANTS
    Surfaces = {s1, s2}
    Buffers = {b1, b2}
    Callbacks = {c1, c2, c3}
    MaxWrappers = 4
SPECIFICATION Spec
SYMMETRY Symmetry
INVARIANTS
    TypeOK
    PointersGood
    SharedListenersOutlive
    NoLeak
    FramesAnswered
    NoBufferForgotten
CHECK_DEADLOCK FALSE
