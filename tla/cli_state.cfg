SPECIFICATION Spec
CONSTANTS
    AccountingKey = {x1, x2}
    MaxEvents = 2
    AccountingBatch = 1
    MaxAccountingFaults = 2
    MaxRuns = 1
    MaxCalls = 2
    MaxNow = 2
    MaxRestores = 1
    CodexKey = {x1, x2}
    AntiKey = {"a1"}
    MaxTok = 2
    MaxTroubles = 2
    File = {x1, x2}
    Id = {y1, y2}
    MaxTime = 2
    MaxLines = 3
    StoreId = {x1, x2}
    MaxClock = 2
    MaxMessages = 1
    Handler = {x1, x2, x3}
    Window = 1
    MaxKills = 1
    MaxAdmissionNow = 2
    Selections = {{"claude", "codex", "opencode", "openclaw", "pi"}, {"codex"}}
    MaxCommands = 3
    MaxEdits = 1
    MaxFaults = 1
    Model = {y1, y2}
    EventId = {"e1"}
    MaxLogLines = 4
    Key = {"a", "b", "z", "x"}
    IngestKind <- MCKind
    BatchSize = 2
    MaxAttempts = 2
    Request = {x1, x2}
    MaxLearns = 3
    NoRequest = Null
SYMMETRY Symmetry
CHECK_DEADLOCK FALSE
INVARIANTS
    NeverConflicting
    UnmarkedIsStored
    RowsTellTheTruth
    OneChildPerBucket
    NoLostWakeup
    HooksAreSafe
PROPERTIES
    NeverOlder
