SPECIFICATION GatewaySpec
CONSTANTS
    Plans <- ReleasePlans
    Requests = {r1, r2, r3}
    Proposals = {p1, p2, p3}
    Target <- Entity
    Additions = {e1}
    Concurrency = 1
    Seconds = 2
    ApplyLimits <- RequestLimits
    JsonJobs = {1, 2}
    LegacyJobs = {3}
    Attempts = 2
    MaxExec = 4
    Limits <- QueueLimits
    Controllers = {c1, c2}
    Threads = {"thread"}
    MaxIds = 3
    ReviewLimits <- ListLimits
    r1 = r1
    r2 = r2
    r3 = r3
    p1 = p1
    p2 = p2
    p3 = p3
    e1 = e1
    c1 = c1
    c2 = c2
SYMMETRY Symmetric
\* Requests, operations and jobs are bounded.
CHECK_DEADLOCK FALSE
INVARIANTS
    ApplyIsTransactional
    DecisionsAreKept
    WholeOrGone
PROPERTIES
    JobsAreKept
    OthersAreKept
    StartedIsAccepted
