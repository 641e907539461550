--------------------------- MODULE MCAlarmEngine ---------------------------
(* Small instances of AlarmEngine for TLC. *)
EXTENDS AlarmEngine

\* A pump trip (101) and a flow alarm it suppresses (102), each with one
\* threshold.  Sensor ids and row ids do not overlap.
PumpFlowSensors    == {101, 102}
PumpFlowCascade    == {<<101, 102>>}
High               == [level |-> "H", value |-> 55, priority |-> 1, delay |-> 0]
DelayedHigh        == [level |-> "H", value |-> 55, priority |-> 1, delay |-> 1]
PumpFlowThresholds == [s \in PumpFlowSensors |-> <<High>>]

\* The flow's alarm is raised at once, that of the pump, its cause, after a time unit.
CauseDelayed == [s \in PumpFlowSensors |-> IF s = 101 THEN <<DelayedHigh>> ELSE <<High>>]

=============================================================================
