SPECIFICATION Spec
CONSTANTS
    u1 = u1
    u2 = u2
    k1 = k1
    k2 = k2
    m1 = m1
    m2 = m2
    Users = {u1, u2}
    Cams = {k1, k2}
    Clients = {m1}
    MaxFaults = 0
    MaxBox = 0
    MaxRef = 2
    MaxBelow = 1
    NONE = NONE
INVARIANT RefsCounted
