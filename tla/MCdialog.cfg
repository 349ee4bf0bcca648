SPECIFICATION FairSpec
CONSTANTS
    MaxServers = 3
    MaxCalls = 4
    MaxExc = 1
    Procs = {0, 1, 2, 3}
    Names = {"infifo", "outfifo", "stopfifo"}
INVARIANTS TypeOK ServerReady RefusedServerEnds
PROPERTIES CallsReturn ImplementsCalls
CHECK_DEADLOCK FALSE
