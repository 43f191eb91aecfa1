\* Workflows, watchdogs and faults run out.
CHECK_DEADLOCK FALSE
SPECIFICATION Spec
CONSTANTS
    Plans <- TimerOnly
    MaxFaults = 1
INVARIANTS NoTwoControllers
