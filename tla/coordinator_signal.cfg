SPECIFICATION Spec
CONSTANTS
    Proc = {w1,w2,w3}
    MaxFollowUps = 1
    Cooldown = TRUE
    Busy = FALSE
    Slow = TRUE
    MaxCrashes = 0
    Null = Null
INVARIANTS
    TypeOK
    SignalKept
    SyncedUnlessTurnedAway
    DedupIsSafe
    NoLockLeftBehind
CHECK_DEADLOCK FALSE
