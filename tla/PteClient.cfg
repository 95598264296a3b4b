SPECIFICATION FairSpec
CONSTANTS
    u1 = u1
    u2 = u2
    k1 = k1
    k2 = k2
    m1 = m1
    m2 = m2
    Users = {u1, u2}
    Cams = {k1}
    Clients = {m1, m2}
    MaxFaults = 1
    MaxBox = 1
    MaxRef = 2
    MaxBelow = 0
    NONE = NONE
INVARIANTS TypeOK MiscountedOnlyIfTorn LoggedInHere SocketsKnown
PROPERTIES PoolSpec LoginSucceeds UnusedIsRemoved
