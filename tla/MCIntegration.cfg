SPECIFICATION MCSpec
CONSTANTS
    Calls = {c1, c2}
    MaxTx = 2
    Budget <- Reloads
    Versions <- VersionNames
    Updates <- UpdateNames
    FromOf <- From
    ToOf <- To
    MaxUpdates = 2
    Bounds <- UpdateBounds
    c1 = c1
    c2 = c2
SYMMETRY Symmetric
\* Updates and calls are bounded.
CHECK_DEADLOCK FALSE
INVARIANTS
    NeverLost
    EngineExclusive
    BrokenIsUndone
PROPERTY
    RightTreeGoesLive
