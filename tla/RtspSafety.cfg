SPECIFICATION FairSpec
CONSTANTS
    Sessions = {s1, s2}
    Channels = {c1}
    AvTypes = {"VIDEO"}
    Addrs = {a1}
    MAX_TARGETS = 1
    MaxDrift = 1
    MaxAgain = 1
    NONE = NONE
INVARIANTS TypeOK SenderHasSession CountIsBounded
PROPERTY StoppedIsClosed
CHECK_DEADLOCK FALSE
