CONSTANTS
    IntMax = 7
    None = none
    Sizes <- MCSizes
    InitialSize <- MCInitialSize
    Damages <- MCDamages
SPECIFICATION FairSpec
INVARIANTS
    DamageCovers
PROPERTY ShowsAgain
