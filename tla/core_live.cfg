SPECIFICATION FairSpec
CONSTANTS
    f1 = f1
    f2 = f2
    k1 = k1
    k2 = k2
    p1 = p1
    p2 = p2
    Proc = {p1,p2}
    File = {f1}
    Key = {k1, k2}
    KeyOf <- BySlot
    MaxLen = 2
    BatchSize = 1
    MaxRetries = 0
    MaxIno = 2
    MaxFaults = 1
    MaxLate = 0
    Null = Null
INVARIANTS
    PendingIsMarked
PROPERTIES
    EventuallyUploaded
