SPECIFICATION Spec
CONSTANTS
    w1 = w1  w2 = w2  u1 = u1
    Locked = {w1, w2}
    Unlocked = {u1}
    MaxRecord = 3
    Budget <- Calm
INVARIANT IntactVerifies
CHECK_DEADLOCK FALSE
