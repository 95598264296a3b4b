SPECIFICATION FairSpec
CONSTANTS
    Callers = {c1}
    Threads = {t1, t2}
    Types = {Decode}
    StrayStops = FALSE
    MaxUsed = 1
    MaxMsgs = 3
    NONE = NONE
PROPERTY FirstUserServed
CHECK_DEADLOCK FALSE
