SPECIFICATION FairSpec
CONSTANTS
    Receivers = {r1, r2}
    Blocks <- TwoSlices
    RetriesUntilDrop = 1
    NegativeRound = 2
    MaxFaults = 3
INVARIANTS TypeOK GivesUpForAReason
PROPERTIES EveryoneEnds ImplementsMulticast
CHECK_DEADLOCK FALSE
