SPECIFICATION FairSpec
CONSTANTS
    phone = phone
    wifi = wifi
\* Workflows, breaks and mishaps are bounded.
CHECK_DEADLOCK FALSE
PROPERTIES
    TakenAwayReturns
    TemporaryEnds
