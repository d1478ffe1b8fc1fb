SPECIFICATION FairSpec
CONSTANTS
    Session = {s1, s2}
    MaxVersion = 2
    MaxWrites = 2
    BatchSize = 1
    MaxRetries = 0
    MaxFaults = 1
    MaxLate = 1
    Null = Null
INVARIANTS
    TypeOK
    NothingElseLost
PROPERTIES
    NewestWins
