SPECIFICATION FairSpec
CONSTANTS
    t1 = t1
    t2 = t2
    user = user
    new1 = new1
    new2 = new2
    A1 = A1
    A2 = A2
    Absent = Absent
    c1 = c1
    c2 = c2
    d1 = d1
    k1 = k1
    k2 = k2
    id1 = id1
    gateway = gateway
    r1 = r1
    r2 = r2
    p1 = p1
    macA = macA
    macB = macB
    macC = macC
    adr1 = adr1
    adr2 = adr2
    i = i
    j = j
\* Transactions, imports, jobs, requests and mishaps are bounded.
CHECK_DEADLOCK FALSE
PROPERTIES
    OperationsEnd
    AcceptedIsAnswered
