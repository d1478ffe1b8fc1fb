SPECIFICATION Spec
CONSTANTS
    File = {x1}
    AnchorCount = 2
    MaxEvents = 4
    MaxChanges = 2
    Log = {x1, x2}
    MessageId = {y1, y2}
    Cap = 1
    MaxLines = 2
    MaxClaudeMishaps = 1
    Thread = {"r", "p", "c"}
    Parent <- MCParent
    MaxEdges = 2
    MaxTroubles = 1
    Msg = {z1, z2}
    MaxTotal = 1
    MaxClock = 2
    MaxHitches = 1
    Session = {"s1", "s2"}
    Broken = {"s2"}
    MaxHermesTotal = 2
    MaxHermesMishaps = 2
    GrokSession = {x1, x2}
    Model = {y1, y2}
    Unknown = Unknown
    MaxInferences = 3
    MaxForks = 1
SYMMETRY Symmetry
CHECK_DEADLOCK FALSE
INVARIANTS
    CountedAtMostOnce
    NothingLost
    CountedForItsModel
