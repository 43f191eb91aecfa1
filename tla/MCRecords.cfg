SPECIFICATION RecordsSpec
CONSTANTS
    Locked = {w1, w2}
    Unlocked = {u1}
    MaxRecord = 4
    Budget <- TrailMishaps
    Devices = {d1, d2}
    Keys = {k1, k2}
    PubIds = {p1, p2}
    Pub <- Publisher
    MaxUser = 2
    Homes <- Installations
    PCs = {pc1, pc2, pc3}
    Others = {gateway, other}
    First = 1
    Ports = {1, 2}
    Sites <- AppSites
    d1 = d1
    d2 = d2
    k1 = k1
    k2 = k2
    p1 = p1
    p2 = p2
    w1 = w1
    w2 = w2
    u1 = u1
    pc1 = pc1
    pc2 = pc2
    pc3 = pc3
    gateway = gateway
    other = other
SYMMETRY Symmetric
\* Users, records and visits are bounded.
CHECK_DEADLOCK FALSE
INVARIANTS
    OnlyKnownKeys
    ReportIsTrue
    AppIsWhereTold
    TrailIsTrue
PROPERTIES
    CredentialsAreKept
    AppIsKept
    ImplementsLedger
