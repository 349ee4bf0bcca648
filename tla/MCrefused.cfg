SPECIFICATION Spec
CONSTANTS
    MaxServers = 3
    MaxCalls = 4
    MaxExc = 1
    Procs = {0, 1, 2, 3}
    Names = {"infifo", "outfifo", "stopfifo"}
INVARIANT AnswersExceptions
CHECK_DEADLOCK FALSE
