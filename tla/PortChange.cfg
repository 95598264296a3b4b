SPECIFICATION FairSpec
CONSTANTS
    t1 = t1
    p1 = p1
    p2 = p2
    Threads = {t1}
    Ports = {p1, p2}
    Default = p1
    Busy = {"boa"}
    NONE = NONE
INVARIANTS TypeOK ClosedAlone ListensWhereStored
PROPERTIES ChangeFinishes RestoreWaitsForPages
CHECK_DEADLOCK FALSE
