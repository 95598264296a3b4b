SPECIFICATION FairSpec
CONSTANTS
    Callers = {c1, c2}
    Threads = {t1, t2}
    Types = {Decode}
    StrayStops = TRUE
    MaxUsed = 2
    MaxMsgs = 2
    NONE = NONE
INVARIANTS TypeOK RunFlagHasThread PublishedIsAlive ConnectHasThread
PROPERTIES LastStopIsHeard UnusedEnds
CHECK_DEADLOCK FALSE
