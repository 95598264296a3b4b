SPECIFICATION Spec
CONSTANTS
    Sessions = {s1, s2}
    Channels = {c1}
    AvTypes = {"VIDEO", "AUDIO"}
    Addrs = {a1, a2}
    MAX_TARGETS = 1
    MaxDrift = 1
    MaxAgain = 0
    NONE = NONE
PROPERTY RefusedOnlyWhenFull
CHECK_DEADLOCK FALSE
