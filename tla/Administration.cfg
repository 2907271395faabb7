SPECIFICATION AllSpec
CONSTANTS
    None = None
    Printer = {}
    Request = {r1, r2}
    User = {u1, demo}
    DemoUser = demo
    DemoRole = {"ADMIN", "OPERATOR"}
    Member = {u1}
    MaxToken = 2
    RefreshAttempts = 1
    MaxRole = 4
    RoleName <- Names
    SettingsValue = {v1, v2}
    Section = {"server", "whitelist", "credentials"}
    WhitelistFeature = FALSE
    Name = {"a", "b"}
    Url = {"u", "U"}
    LowerCase <- Lower
    Strategies <- SomeStrategies
    Place = {0, 1}
    Level = {1, 2}
    StartPrinters = 2
    StartFloors <- TwoOnAFloor
    MaxPrinter = 5
    MaxFloor = 3
    MaxEdits = 1
    Newest = 2
    Minimum = 2
    Installed = 1
SYMMETRY Symmetric
CONSTRAINT Bounded
INVARIANTS AllTypeOK RenewalsCounted NoStrayTokens GrantsHold NoPatchLost StoreHasSettings OwnPositionsImported RestoreChangesNothing TrustedIsWhole
PROPERTIES OwnerStays AdminStays
CHECK_DEADLOCK FALSE
