CONSTANTS
    IntMax = 7
    None = none
    Sizes <- MCSizes
    InitialSize <- MCInitialSize
    Damages <- MCOutside
SPECIFICATION Spec
INVARIANTS
    UploadInside
