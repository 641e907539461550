SPECIFICATION Spec
CONSTANTS
    Blocks = {"b1", "b2"}
    Class <- MCClass
    AlarmKinds <- MCKinds
    Fee = 12345
    MonthStart = 60
    MonthEnd = 300
    Instants = {0, 50, 62, 66, 310}
    MaintenancePlans <- MCPlans
    AlarmAnswer = "page"
    PageSize = 100
    MaxEntries = 3
    Months = {1, 2}
    Days = 2
    DayIntervals = 1
    Samples <- MCSamples
    Modes <- MCModes
    FirstMode = "EXPORT"
    Agreement <- MCAgreement
    Racks <- MCRacks
    MaxEvents = 2
    GridFactor = 24
    LitresPerHour = 250
    Accounts <- MCAccounts
    DaysInMonth = 2
    DaySlots = 2
    Values <- MCValues
    Tenants = {"t1"}
    Roles = {"operator"}
    Limits = {1, 2}
    Window = 3
    CleanupAfter = 1
    Expiry = 3
    RefreshExpiry = 5
    MaxTime = 6
    MaxTokens = 2
    MaxRequests = 3
    MaxChanges = 1
    Sites <- MCSites
    Contracts <- MCContracts
    MaxRetries = 1
    DealBelow = 800
    AlertFrom = 900
    MaxDeals = 2
    RejectDwell = 2
    MixedDwell = 1
    Scenario = {"demand", "leak_zone1"}
    MaxCommands = 1
INVARIANT HistoryIsAnswered
CHECK_DEADLOCK FALSE
