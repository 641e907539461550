SPECIFICATION FairSpec
CONSTANTS
    Sensors <- PumpFlowSensors
    Cascade <- PumpFlowCascade
    Thresholds <- CauseDelayed
    Values = {50, 57}
    Operators = {op}
    Refs = {1, 2, 3}
    StaleTimeout = 0
    ShelveFor = {}
    MaxShelve = 2
    MaxRows = 2
    MaxTime = 2
    MaxDbErrors = 1
    MaxRestarts = 1
    DeadbandPercent = 2
INVARIANT RowsAreOwned
INVARIANT ClearedRowIsOver
PROPERTY ClearedIsFinal
 
CHECK_DEADLOCK FALSE
