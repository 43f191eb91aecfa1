SPECIFICATION MCSpec
CONSTANTS
    o1 = o1
    o2 = o2
    o3 = o3
    k1 = k1
    k2 = k2
    k3 = k3
    c1 = c1
    c2 = c2
    c3 = c3
    s1 = s1
    s2 = s2
    s3 = s3
    Officers = {o1}
    Keys = {k1, k2}
    Counting = {k1}
    Founders <- LoginFounders
    Challenges = {c1, c2, c3}
    Sessions = {s1, s2, s3}
    Threads = {"t1", "t2"}
    MaxCount = 3
    Budget <- LoginTimes
    Logins = {l1, l2, l3}
    Window = 1
    Last = 2
\* The clock, attempts, sessions, challenges and signatures run out.
CHECK_DEADLOCK FALSE
SYMMETRY Symmetric
INVARIANTS
    AcceptedGoesUp
    OneOutcomePerChallenge
PROPERTIES
    CountsGoUp
    
