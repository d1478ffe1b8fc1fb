SPECIFICATION FairSpec
CONSTANTS
    Proc = {w1,w2}
    MaxFollowUps = 1
    Cooldown = TRUE
    Busy = TRUE
    Slow = TRUE
    MaxCrashes = 1
    Null = Null
PROPERTIES
    EveryWorkerExits
CHECK_DEADLOCK FALSE
