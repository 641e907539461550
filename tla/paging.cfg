SPECIFICATION FairSpec
CONSTANTS
    pump = pump
    flow = flow
    door = door
    NoAlarm = none
    Alarms <- Three
    Priority <- ThreeByPriority
    Routed <- AllRouted
    Shape = "list"
    PageSize = 2
    MaxRetries = 1
    MaxChanges = 3
    MaxFaults = 2
    MaxOutside = 1
INVARIANT IncidentsAreTracked
PROPERTY EventuallyPaged
PROPERTY EventuallyResolved
CHECK_DEADLOCK FALSE
