--------------------------- MODULE MCAlarmSystem ---------------------------
(* Small instances of AlarmSystem for TLC: two sensors without cascade, and no operator inside
   the engine, because nothing in the repository calls the engine's own
   acknowledge_alarm and shelve_alarm. *)
EXTENDS AlarmSystem

TwoSensors   == {101, 102}
High         == [level |-> "H", value |-> 55, priority |-> 1, delay |-> 0]
HighHigh     == [level |-> "HH", value |-> 60, priority |-> 0, delay |-> 0]
\* The signals of the first say that it is in alarm.  The second has two thresholds.
MCThresholds == [s \in TwoSensors |-> IF s = 101 THEN <<>> ELSE <<High, HighHigh>>]
NoCascade    == {}
NoOperators  == {}

=============================================================================
