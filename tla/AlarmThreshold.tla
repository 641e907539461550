--------------------------- MODULE AlarmThreshold ---------------------------
(***************************************************************************)
(* The threshold evaluator of the alarm engine                             *)
(* (platform/alarm_engine/threshold.py).  A threshold is a record          *)
(*   [level, direction, value, priority, delay]                            *)
(* as ThresholdDef holds it; values are integers on a scale the model      *)
(* chooses, so that the percentage of the deadband stays exact.            *)
(***************************************************************************)
EXTENDS Integers, Sequences

CONSTANT DeadbandPercent   \* AlarmEngineConfig.deadband_percent

\* The deadband is a percentage of the threshold's value.
ASSUME DeadbandAssumption == DeadbandPercent \in 0..99

Levels     == {"HH", "H", "L", "LL"}
Priorities == 0..3                        \* AlarmPriority: P0 is the most urgent
Outcomes   == {"alarm", "clear", "hold"}  \* what one threshold makes of a value

Threshold == [level : Levels, value : Int, priority : Priorities, delay : Nat]

\* ThresholdDef.__post_init__: the level decides the direction.
Direction(t) == IF t.level \in {"HH", "H"} THEN "HIGH" ELSE "LOW"

\* SensorThresholds._check_threshold: the comparison is strict, without deadband.
Beyond(t, v) ==
    IF Direction(t) = "HIGH" THEN v > t.value ELSE v < t.value

\* SensorThresholds.check_clear_with_deadband: the clear point is the threshold
\* moved inwards by the deadband (outwards when the threshold is negative).
PastDeadband(t, v) ==
    IF Direction(t) = "HIGH"
    THEN 100 * v < t.value * (100 - DeadbandPercent)
    ELSE 100 * v > t.value * (100 + DeadbandPercent)

\* One turn of the loop of SensorThresholds.evaluate.  "first" is the instant
\* _debounce holds for the level, 0 when it holds none: it is the instant of the
\* first excess, kept while the value stays beyond and dropped when it returns.
FirstExceeded(t, v, first, now) ==
    IF ~Beyond(t, v) THEN 0
    ELSE IF t.delay > 0 /\ first = 0 THEN now ELSE first

InAlarm(t, v, first, now) ==
    /\ Beyond(t, v)
    /\ t.delay > 0 => first # 0 /\ now - first >= t.delay

\* What the engine does with the pair (threshold, in_alarm): a value that is not
\* in alarm clears the alarm only past the deadband.
Outcome(t, v, first, now) ==
    CASE InAlarm(t, v, first, now)                         -> "alarm"
      [] ~InAlarm(t, v, first, now) /\ PastDeadband(t, v)  -> "clear"
      [] OTHER                                             -> "hold"

=============================================================================
