SPECIFICATION Spec
CONSTANTS
    Sensors <- PumpFlowSensors
    Cascade <- PumpFlowCascade
    Thresholds <- PumpFlowThresholds
    Values = {50, 57}
    Operators = {op}
    Refs = {1, 2, 3}
    StaleTimeout = 9
    ShelveFor = {}
    MaxShelve = 2
    MaxRows = 3
    MaxTime = 1
    MaxDbErrors = 0
    MaxRestarts = 0
    DeadbandPercent = 2
INVARIANT ClearReleasesEffects
CHECK_DEADLOCK FALSE
