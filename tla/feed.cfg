SPECIFICATION FeedSpec
CONSTANTS
    Keys <- MCKeys
    ActiveKeys <- MCActive
    Seeded <- MCSeeded
    Traffic <- MCTraffic
    Events <- MCKeys
    Clients <- MCClients
    Subscribed <- MCSubscribed
    Wanted <- MCWanted
    Changing <- MCActive
    MaxRegs = 2
    MaxFaults = 1
    MaxSessions = 1
PROPERTY AlarmsGetThrough
PROPERTY WatchersSee
INVARIANT CacheAgreesWithRegistry
INVARIANT OneFate
CHECK_DEADLOCK FALSE
