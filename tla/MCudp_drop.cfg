SPECIFICATION Spec
CONSTANTS
    Receivers = {r1}
    Blocks <- SmallSlices
    RetriesUntilDrop = 0
    NegativeRound = 1
    MaxFaults = 2
INVARIANTS DroppedByServer
CHECK_DEADLOCK FALSE
