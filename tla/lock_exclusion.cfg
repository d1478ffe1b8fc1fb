SPECIFICATION Spec
CONSTANTS
    Proc = {w1,w2,w3}
    MaxFollowUps = 1
    Cooldown = FALSE
    Busy = FALSE
    Slow = FALSE
    MaxCrashes = 0
    Null = Null
INVARIANTS
    MutualExclusion
CHECK_DEADLOCK FALSE
