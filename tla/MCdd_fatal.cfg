SPECIFICATION FairSpec
CONSTANTS
    SB = 4
    HB = 2
    Max = 9
    SyncEvery = 4
    StatusSize = 3
    Lens <- MCLens
    OutLens <- MCOutLens
    Defects <- MCDefects
    WeakSets <- MCWeakSets
PROPERTY FatalEnds
CHECK_DEADLOCK FALSE
