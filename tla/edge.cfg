SPECIFICATION SiteSpec
CONSTANTS
    Points <- MCPoints
    Devices <- MCDevices
    DeviceOf <- MCDeviceOf
    Kind <- MCKind
    Groups <- MCGroups
    Schedule <- MCSchedule
    Limits <- MCLimits
    Range <- MCRange
    Values = {1, 2}
    Rest = 1
    Moving <- MCMoving
    Flaky <- MCFlaky
    MaxMoves = 1
    MaxOutages = 1
    MaxFailures = 1
    Adapters <- MCManaged
    MaxRestarts = 1
    MaxExits = 1
INVARIANT HeldAlarmsAnnounced
INVARIANT NothingOutlivesStop
PROPERTY ReadingsCatchUp
CHECK_DEADLOCK FALSE
