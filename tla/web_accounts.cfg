SPECIFICATION Spec
CONSTANTS
    Person = {x1, x2}
    Invite = {y1, y2}
    MaxSignIns = 2
    MaxSignInFailures = 1
    Nobody = Null
    Machine = {x1, x2}
    LoginCode = {y1, y2}
    LoginRequest = {"r1", "r2"}
    MaxLogins = 3
    MaxLoginFailures = 1
    NoKey = Null
    LogoTeam = {"t"}
    LogoOrg = {"o"}
    LogoUpload = {x1, x2, y1}
    MaxLogoFailures = 1
    NoLogo = Null
    Admin = {x1, x2}
    Organization = {"o1", "o2"}
    Existing = {"o1"}
    Text = {1, 2}
    MaxSaves = 2
    Closed = Null
    Org = {y1, y2}
    User = {"me", "you"}
    Me = "me"
    Handler = {x1, x2}
    MaxMemberClicks = 2
    MaxEdits = 2
    NoOrg = Null
    Device = {"default", "mac"}
    DefaultDevice = "default"
    Name = {"a", "A"}
    Folded <- MCFolded
    Tab = {x1, x2}
    DeviceRequest = {y1, y2}
    MaxDeviceClicks = 2
    MaxUploads = 1
    MaxDeviceFailures = 1
    NoDevice = Null
    Mate = {"m"}
    MaxTeamClicks = 2
    MaxOthers = 1
    MaxTeamFailures = 1
    Run = {x1, x2}
    Baseline <- MCBaseline
    Feeds <- MCFeeds
    Malformed = Malformed
    MaxRuns = 2
    MaxPublishes = 1
    MaxFaults = 1
    MaxLoads = 2
    Null = Null
    KeyCount = 3
    BoardKeys = {1}
    Limit = 2
    PageSize = 2
    MaxClears = 1
    MaxTurns = 1
SYMMETRY Symmetry
CHECK_DEADLOCK FALSE
INVARIANTS
    CodesAreSpentOnce
    ReferencesAreSound
    PagesAreTrue
    PricesAreSound
PROPERTIES
    OthersWorkIsKept
