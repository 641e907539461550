SPECIFICATION Spec
CONSTANTS
    Sensors <- PumpFlowSensors
    Cascade <- PumpFlowCascade
    Thresholds <- PumpFlowThresholds
    Values = {50, 57}
    Operators = {op}
    Refs = {1, 2}
    StaleTimeout = 0
    ShelveFor = {1}
    MaxShelve = 2
    MaxRows = 3
    MaxTime = 3
    MaxDbErrors = 0
    MaxRestarts = 0
    DeadbandPercent = 2
INVARIANT TypeOK
INVARIANT LiveIsRecorded
INVARIANT SuppressionComplete
CHECK_DEADLOCK FALSE
