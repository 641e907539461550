--------------------------- MODULE AlarmLifecycle ---------------------------
(***************************************************************************)
(* AlarmInstance of platform/alarm_engine/state_machine.py: the ISA-18.2   *)
(* state machine of one alarm, as operators from an alarm to an alarm.  A  *)
(* transition the code answers with NO_CHANGE or INVALID leaves the state  *)
(* as it is.                                                               *)
(*                                                                         *)
(* An alarm is a record                                                    *)
(*   sensor, priority  whose alarm it is                                   *)
(*   state             the AlarmState                                      *)
(*   id                the row of table alarms it was last inserted as,    *)
(*                     0 for None                                          *)
(*   raisedAt          raised_at, as a stamp that grows with every raise   *)
(*   acked             acked_by is not None                                *)
(*   until             shelved_until, 0 for None                           *)
(*   supBy             suppressed_by_alarm_id, 0 for None                  *)
(*   seen              last_seen, 0 for None                               *)
(* The measured values, the tag and who did what are left out.             *)
(***************************************************************************)
EXTENDS Naturals

AlarmState == {"ACTIVE", "ACKED", "RTN_UNACK", "CLEARED", "SHELVED", "SUPPRESSED"}

\* The states in which the engine takes the condition to be present: only these
\* make an alarm a cascade cause, and a candidate of the stale monitor.
Alarming == {"ACTIVE", "ACKED"}

NewAlarm(s, p) ==
    [sensor |-> s, priority |-> p, state |-> "CLEARED", id |-> 0, raisedAt |-> 0,
     acked |-> FALSE, until |-> 0, supBy |-> 0, seen |-> 0]

\* raise_alarm: only CLEARED and RTN_UNACK raise; every call records the reading.
Raise(a, stamp, time) ==
    IF a.state \in {"CLEARED", "RTN_UNACK"}
    THEN [a EXCEPT !.state = "ACTIVE", !.raisedAt = stamp, !.acked = FALSE, !.seen = time]
    ELSE [a EXCEPT !.seen = time]

\* Mutant: a state of its own for the returned and acknowledged alarm.
AcknowledgeToRtnAck(a) ==
    CASE a.state = "ACTIVE"    -> [a EXCEPT !.state = "ACKED", !.acked = TRUE]
      [] a.state = "RTN_UNACK" -> [a EXCEPT !.state = "RTN_ACK", !.acked = TRUE]
      [] OTHER                 -> a

\* acknowledge: an alarm whose condition is gone is closed by it.
Acknowledge(a) ==
    CASE a.state = "ACTIVE"    -> [a EXCEPT !.state = "ACKED", !.acked = TRUE]
      [] a.state = "RTN_UNACK" -> [a EXCEPT !.state = "CLEARED", !.acked = TRUE]
      [] OTHER                 -> a

\* clear_condition: the reading is recorded whatever the state.
ClearCondition(a, time) ==
    CASE a.state = "ACKED"  -> [a EXCEPT !.state = "CLEARED", !.seen = time]
      [] a.state = "ACTIVE" -> [a EXCEPT !.state = "RTN_UNACK", !.seen = time]
      [] OTHER              -> [a EXCEPT !.seen = time]

\* shelve, with a reason given: from every state but CLEARED, SHELVED included.
Shelve(a, deadline) ==
    IF a.state = "CLEARED" THEN a
    ELSE [a EXCEPT !.state = "SHELVED", !.until = deadline]

Unshelve(a) ==
    IF a.state # "SHELVED" THEN a ELSE [a EXCEPT !.state = "CLEARED", !.until = 0]

\* suppress: from every state but CLEARED and SUPPRESSED, SHELVED included.
Suppress(a, cause) ==
    IF a.state \in {"CLEARED", "SUPPRESSED"} THEN a
    ELSE [a EXCEPT !.state = "SUPPRESSED", !.supBy = cause]

Unsuppress(a) ==
    IF a.state # "SUPPRESSED" THEN a ELSE [a EXCEPT !.state = "CLEARED", !.supBy = 0]

=============================================================================
