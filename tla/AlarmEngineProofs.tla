-------------------------- MODULE AlarmEngineProofs --------------------------
(***************************************************************************)
(* Theorems about AlarmEngine, for every set of sensors, operators and     *)
(* thresholds and every bound; and about AlarmSystem, which adds the       *)
(* requests of the REST API to it.                                         *)
(***************************************************************************)
EXTENDS AlarmSystem, TLAPS

-----------------------------------------------------------------------------
(* The transitions of an alarm keep its type, its sensor and its row.      *)

LEMMA NewAlarmType ==
    ASSUME NEW s \in Sensors \cup {0}, NEW p \in Priorities
    PROVE  /\ NewAlarm(s, p) \in Alarm
           /\ NewAlarm(s, p).sensor = s
           /\ NewAlarm(s, p).id = None
BY DEF NewAlarm, Alarm, None, RowIds, AlarmState

LEMMA RaiseType ==
    ASSUME NEW a \in Alarm, NEW n \in Nat, NEW m \in Nat
    PROVE  /\ Raise(a, n, m) \in Alarm
           /\ Raise(a, n, m).sensor = a.sensor
           /\ Raise(a, n, m).id = a.id
           /\ Raise(a, n, m).state = IF a.state \in {"CLEARED", "RTN_UNACK"} THEN "ACTIVE" ELSE a.state
BY DEF Raise, Alarm, AlarmState

LEMMA SuppressType ==
    ASSUME NEW a \in Alarm, NEW n \in Nat
    PROVE  /\ Suppress(a, n) \in Alarm
           /\ Suppress(a, n).sensor = a.sensor
           /\ Suppress(a, n).id = a.id
           /\ Suppress(a, n).state = IF a.state = "CLEARED" THEN "CLEARED" ELSE "SUPPRESSED"
BY DEF Suppress, Alarm, AlarmState

\* b is what a becomes: the same sensor, the same row, and not revived.
Successor(a, b) ==
    /\ b \in Alarm
    /\ b.sensor = a.sensor /\ b.id = a.id
    /\ a.state = "CLEARED" => b.state = "CLEARED"

LEMMA TransitionType ==
    ASSUME NEW a \in Alarm, NEW n \in Nat
    PROVE  /\ Successor(a, Acknowledge(a))
           /\ Successor(a, ClearCondition(a, n))
           /\ Successor(a, Shelve(a, n))
           /\ Successor(a, Unshelve(a))
           /\ Successor(a, Suppress(a, n))
           /\ Successor(a, Unsuppress(a))
           /\ Successor(a, [a EXCEPT !.seen = n])
           /\ Successor(a, [a EXCEPT !.state = "CLEARED"])
<1>1. Successor(a, Acknowledge(a))
  BY DEF Acknowledge, Alarm, AlarmState, Successor
<1>2. Successor(a, ClearCondition(a, n))
  BY DEF ClearCondition, Alarm, AlarmState, Successor
<1>3. Successor(a, Shelve(a, n))
  BY DEF Shelve, Alarm, AlarmState, Successor
<1>4. Successor(a, Unshelve(a))
  BY DEF Unshelve, Alarm, AlarmState, Successor
<1>5. Successor(a, Suppress(a, n)) /\ Successor(a, Unsuppress(a))
  BY DEF Suppress, Unsuppress, Alarm, AlarmState, Successor
<1>6. Successor(a, [a EXCEPT !.seen = n]) /\ Successor(a, [a EXCEPT !.state = "CLEARED"])
  BY DEF Alarm, AlarmState, Successor
<1>7. QED BY <1>1, <1>2, <1>3, <1>4, <1>5, <1>6

LEMMA RowOfType ==
    ASSUME NEW a \in Alarm
    PROVE  /\ RowOf(a) \in Row
           /\ RowOf(a).sensor = a.sensor
           /\ RowOf(a).state = a.state
BY DEF RowOf, Alarm, Row

-----------------------------------------------------------------------------
(* Type correctness needs the shape of the coroutines: a coroutine awaits a *)
(* statement exactly when one of its own is in flight, for an object that   *)
(* exists, and only the subscriber inserts.                                 *)

TaskShape ==
    /\ \A t \in Tasks : pc[t] = "db" <=> pending[t].kind # "none"
    /\ \A t \in Tasks : pc[t] = "db" => obj[t] \in Refs
    /\ \A t \in Tasks : pending[t].kind = "insert" => t = "sig"
    /\ pc["sig"] # "idle" => signal.sensor \in Sensors
    /\ pc["sig"] = "logged" /\ signal.then \in {"raised", "cleared"} => obj["sig"] \in Refs
    /\ signal.next \in Nat \ {0}
    /\ todo["sig"] \subseteq Refs /\ todo["stale"] \subseteq Refs

Typed == TypeOK /\ TaskShape

LEMMA SensorNat == Sensors \cup {0} \subseteq Nat
BY SensorsAssumption

LEMMA TasksFacts == /\ "sig" \in Tasks /\ "mon" \in Tasks /\ "stale" \in Tasks
                    /\ \A op \in Operators : op \in Tasks /\ op \notin {"sig", "mon", "stale"}
BY OperatorsAssumption DEF Tasks

LEMMA ConstantTypes ==
    /\ FreeAlarm \in Alarm /\ NoRow \in Row /\ NoWrite \in Write /\ NoSignal \in Signal
    /\ FreeAlarm.sensor = 0 /\ FreeAlarm.id = None /\ NoRow.sensor = 0
    /\ None \notin Refs
<1>1. FreeAlarm \in Alarm /\ FreeAlarm.sensor = 0 /\ FreeAlarm.id = None
  BY NewAlarmType DEF FreeAlarm, Priorities
<1>2. NoRow \in Row /\ NoRow.sensor = 0
  BY <1>1, RowOfType DEF NoRow
<1>3. NoWrite \in Write
  BY <1>2 DEF NoWrite, Write
<1>4. NoSignal \in Signal
  <2>1. <<>> \in Seq(Evaluation)
    OBVIOUS
  <2>2. QED BY <2>1 DEF NoSignal, Signal
<1>5. QED BY <1>1, <1>2, <1>3, <1>4, RefsAssumption DEF None

LEMMA InitTyped == Init => Typed
<1>1. SUFFICES ASSUME Init PROVE Typed
  OBVIOUS
<1>2. TypeOK
  BY <1>1, ConstantTypes, BoundsAssumption DEF Init, TypeOK
<1>3. TaskShape
  BY <1>1, TasksFacts DEF Init, TaskShape, NoWrite, NoSignal
<1>4. QED BY <1>2, <1>3 DEF Typed

\* What a statement issued for a typed object leaves.
LEMMA IssueTyped ==
    ASSUME Typed, NEW t \in Tasks, NEW r \in Refs, NEW kind \in {"insert", "update"},
           alarms' \in [Refs -> Alarm], kind = "insert" => t = "sig",
           Issue(t, kind, r)
    PROVE  /\ pc' \in [Tasks -> {"idle", "run", "db", "logged"}]
           /\ obj' \in [Tasks -> Refs \cup {None}]
           /\ pending' \in [Tasks -> Write]
           /\ \A u \in Tasks : pc'[u] = "db" <=> pending'[u].kind # "none"
           /\ \A u \in Tasks : pc'[u] = "db" => obj'[u] \in Refs
           /\ \A u \in Tasks : pending'[u].kind = "insert" => u = "sig"
           /\ pc'[t] = "db" /\ obj'[t] = r
           /\ pending'[t] = [kind |-> kind, id |-> alarms'[r].id, row |-> RowOf(alarms'[r])]
           /\ \A u \in Tasks \ {t} : pc'[u] = pc[u] /\ obj'[u] = obj[u] /\ pending'[u] = pending[u]
<1>1. [kind |-> kind, id |-> alarms'[r].id, row |-> RowOf(alarms'[r])] \in Write
  BY RowOfType DEF Write, Alarm
<1>2. /\ pc' = [pc EXCEPT ![t] = "db"] /\ obj' = [obj EXCEPT ![t] = r]
      /\ pending' = [pending EXCEPT ![t] =
                       [kind |-> kind, id |-> alarms'[r].id, row |-> RowOf(alarms'[r])]]
  BY DEF Issue
<1>3. /\ pc \in [Tasks -> {"idle", "run", "db", "logged"}]
      /\ obj \in [Tasks -> Refs \cup {None}]
      /\ pending \in [Tasks -> Write]
      /\ \A u \in Tasks : pc[u] = "db" <=> pending[u].kind # "none"
      /\ \A u \in Tasks : pc[u] = "db" => obj[u] \in Refs
      /\ \A u \in Tasks : pending[u].kind = "insert" => u = "sig"
  BY DEF Typed, TypeOK, TaskShape
<1>4. QED BY <1>1, <1>2, <1>3

\* Most actions keep the sensor and the row of every alarm, revive none, and leave
\* the table alone: they issue no statement (Quiet) or the update of one alarm
\* (Writing).
Keeps ==
    \A r \in Refs : /\ alarms'[r].sensor = alarms[r].sensor
                    /\ alarms'[r].id = alarms[r].id
                    /\ alarms[r].state = "CLEARED" => alarms'[r].state = "CLEARED"

Quiet ==
    /\ Keeps
    /\ \A t \in Tasks : pc[t] = "db" => obj'[t] = obj[t]
    /\ UNCHANGED <<active, pending, rows, lastId, up>>

UpdateOf(a) == [kind |-> "update", id |-> a.id, row |-> RowOf(a)]

Writing ==
    \E t \in Tasks, r \in Refs :
        /\ Keeps
        /\ pc[t] # "db"
        /\ pending' = [pending EXCEPT ![t] = UpdateOf(alarms'[r])]
        /\ \A u \in Tasks \ {t} : obj'[u] = obj[u]
        /\ UNCHANGED <<active, rows, lastId, up>>

\* One alarm goes through one of the transitions above.
LEMMA OneTransition ==
    ASSUME Typed, NEW r \in Refs, NEW b, Successor(alarms[r], b),
           alarms' = [alarms EXCEPT ![r] = b]
    PROVE  alarms' \in [Refs -> Alarm] /\ Keeps
<1>1. alarms \in [Refs -> Alarm]
  BY DEF Typed, TypeOK
<1>2. QED BY <1>1 DEF Keeps, Successor

LEMMA EvaluationsType ==
    ASSUME Typed, NEW s \in Sensors, NEW v \in Values, NEW p \in Priorities
    PROVE  /\ Evaluations(s, v, p) \in Seq(Evaluation)
           /\ DebounceAfter(s, v) \in [Levels -> Nat]
<1>1. debounce[s] \in [Levels -> Nat] /\ now \in Nat
  BY BoundsAssumption DEF Typed, TypeOK
<1>2. Evaluations(s, v, p) \in Seq(Evaluation)
  <2>1. CASE Thresholds[s] = <<>>
    BY <2>1 DEF Evaluations, Evaluation, Outcomes
  <2>2. CASE Thresholds[s] # <<>>
    <3>1. Thresholds[s] \in Seq(Threshold) /\ Len(Thresholds[s]) \in Nat
      BY ThresholdsAssumption
    <3> DEFINE e(i) == [priority |-> Thresholds[s][i].priority,
                        outcome  |-> Outcome(Thresholds[s][i], v, debounce[s][Thresholds[s][i].level], now)]
    <3>2. \A i \in 1..Len(Thresholds[s]) : e(i) \in Evaluation
      <4>1. SUFFICES ASSUME NEW i \in 1..Len(Thresholds[s]) PROVE e(i) \in Evaluation
        OBVIOUS
      <4>2. Thresholds[s][i].priority \in Priorities
        <5>1. Thresholds[s][i] \in Threshold
          BY <3>1
        <5>2. QED BY <5>1 DEF Threshold
      <4>3. Outcome(Thresholds[s][i], v, debounce[s][Thresholds[s][i].level], now) \in Outcomes
        BY DEF Outcome, Outcomes
      <4>4. QED BY <4>2, <4>3 DEF Evaluation
    <3>3. Evaluations(s, v, p) = [i \in 1..Len(Thresholds[s]) |-> e(i)]
      BY <2>2 DEF Evaluations
    <3>4. QED BY <3>1, <3>2, <3>3
  <2>3. QED BY <2>1, <2>2
<1>3. DebounceAfter(s, v) \in [Levels -> Nat]
  <2>1. SUFFICES ASSUME NEW t, NEW l \in Levels PROVE FirstExceeded(t, v, debounce[s][l], now) \in Nat
    BY <1>1 DEF DebounceAfter
  <2>2. QED BY <1>1 DEF FirstExceeded
<1>4. QED BY <1>2, <1>3

-----------------------------------------------------------------------------
(* Type correctness, one kind of action after the other.                   *)

\* The actions that change no alarm and issue no statement.
IdleStep ==
    \/ \E s \in Sensors, v \in Values, p \in Priorities : ReceiveSignal(s, v, p)
    \/ AfterEffect \/ AfterLastAwait \/ Publish \/ EndOfSignal
    \/ QueryExpired \/ \E s \in Sensors : SkipExpired(s)
    \/ EndOfPass("mon") \/ EndOfPass("stale") \/ CollectStale
    \/ Tick

LEMMA IdleStepTyped == Typed /\ IdleStep => Typed' /\ Quiet
<1> SUFFICES ASSUME Typed, IdleStep PROVE Typed' /\ Quiet
  OBVIOUS
<1> USE TasksFacts, ConstantTypes
<1>1. ASSUME NEW s \in Sensors, NEW v \in Values, NEW p \in Priorities, ReceiveSignal(s, v, p)
      PROVE  Typed' /\ Quiet
  <2>1. Evaluations(s, v, p) \in Seq(Evaluation) /\ DebounceAfter(s, v) \in [Levels -> Nat]
    BY EvaluationsType
  <2>2. TypeOK'
    <3>1. signal' \in Signal
      BY <1>1, <2>1, BoundsAssumption DEF ReceiveSignal, Typed, TypeOK, Signal
    <3>2. debounce' \in [Sensors -> [Levels -> Nat]] /\ pc' \in [Tasks -> {"idle", "run", "db", "logged"}]
      BY <1>1, <2>1 DEF ReceiveSignal, Typed, TypeOK
    <3>3. QED BY <1>1, <3>1, <3>2 DEF ReceiveSignal, Typed, TypeOK, dbVars, envVars
  <2>3. TaskShape'
    BY <1>1 DEF ReceiveSignal, Typed, TypeOK, TaskShape, dbVars, envVars
  <2>4. QED BY <1>1, <2>2, <2>3 DEF ReceiveSignal, Typed, Quiet, Keeps, dbVars, envVars
<1>2. CASE AfterEffect
  <2>1. TypeOK'
    BY <1>2 DEF AfterEffect, Resume, Typed, TypeOK, memVars, dbVars, envVars
  <2>2. TaskShape'
    BY <1>2 DEF AfterEffect, Resume, Typed, TypeOK, TaskShape
  <2>3. QED BY <1>2, <2>1, <2>2 DEF AfterEffect, Typed, Quiet, Keeps, memVars, dbVars, envVars
<1>3. CASE AfterLastAwait
  <2>1. TypeOK'
    BY <1>3 DEF AfterLastAwait, Resume, Typed, TypeOK, Signal, memVars, dbVars, envVars
  <2>2. TaskShape'
    BY <1>3 DEF AfterLastAwait, Resume, Typed, TypeOK, Signal, TaskShape
  <2>3. QED BY <1>3, <2>1, <2>2 DEF AfterLastAwait, Typed, Quiet, Keeps, memVars, dbVars, envVars
<1>4. CASE Publish
  BY <1>4 DEF Publish, Typed, TypeOK, TaskShape, Signal, Quiet, Keeps, memVars, dbVars, envVars
<1>5. CASE EndOfSignal
  BY <1>5 DEF EndOfSignal, NoSignal, Typed, TypeOK, TaskShape, Quiet, Keeps, memVars, dbVars, envVars
<1>6. CASE QueryExpired
  <2>1. {rows[k].sensor : k \in {j \in RowIds : ExpiredRow(j)}} \in SUBSET Nat
    <3>1. \A k \in RowIds : rows[k].sensor \in Nat
      <4>1. \A k \in RowIds : rows[k] \in Row
        BY DEF Typed, TypeOK
      <4>2. QED BY <4>1, SensorNat DEF Row
    <3>2. QED BY <3>1
  <2>2. TypeOK'
    BY <1>6, <2>1 DEF QueryExpired, Typed, TypeOK, memVars, dbVars, envVars
  <2>3. TaskShape'
    BY <1>6 DEF QueryExpired, Typed, TypeOK, TaskShape
  <2>4. QED BY <1>6, <2>2, <2>3 DEF QueryExpired, Typed, Quiet, Keeps, memVars, dbVars, envVars
<1>7. ASSUME NEW s \in Sensors, SkipExpired(s) PROVE Typed' /\ Quiet
  BY <1>7 DEF SkipExpired, MayContinue, Typed, TypeOK, TaskShape, Quiet, Keeps, memVars, dbVars, envVars
<1>8. ASSUME NEW t \in {"mon", "stale"}, EndOfPass(t) PROVE Typed' /\ Quiet
  BY <1>8 DEF EndOfPass, MayContinue, Typed, TypeOK, TaskShape, Quiet, Keeps, memVars, dbVars, envVars
<1>9. CASE CollectStale
  <2>1. StaleAlarms \subseteq Refs
    BY DEF StaleAlarms, Typed, TypeOK
  <2>2. StaleAlarms \in SUBSET Nat
    BY <2>1, RefsAssumption
  <2>3. TypeOK'
    BY <1>9, <2>2 DEF CollectStale, Typed, TypeOK, memVars, dbVars, envVars
  <2>4. TaskShape'
    BY <1>9, <2>1 DEF CollectStale, Typed, TypeOK, TaskShape
  <2>5. QED BY <1>9, <2>3, <2>4 DEF CollectStale, Typed, Quiet, Keeps, memVars, dbVars, envVars
<1>10. CASE Tick
  BY <1>10, BoundsAssumption DEF Tick, Typed, TypeOK, TaskShape, Quiet, Keeps, memVars, taskVars, dbVars
<1>11. QED BY <1>1, <1>2, <1>3, <1>4, <1>5, <1>6, <1>7, <1>8, <1>9, <1>10 DEF IdleStep

\* The actions of the subscriber that change alarms in memory only.
MemoryStep == StillAlarming \/ IgnoreReading \/ NothingToClear \/ AfterRaise \/ AfterClear

LEMMA SignalNext ==
    ASSUME Typed, NEW then \in {"none", "raised", "suppressed", "cleared"}, NextEvaluation(then)
    PROVE  /\ signal' \in Signal /\ signal'.next \in Nat \ {0}
           /\ signal'.sensor = signal.sensor /\ signal'.then = then
           /\ signal'.evals = signal.evals /\ signal'.next = signal.next + 1
<1>1. signal' = [signal EXCEPT !.next = signal.next + 1, !.then = then]
  BY DEF NextEvaluation
<1>2. signal \in Signal /\ signal.next \in Nat \ {0}
  BY DEF Typed, TypeOK, TaskShape
<1>3. signal.next + 1 \in Nat \ {0}
  BY <1>2
<1>4. \A n \in Nat : [signal EXCEPT !.next = n, !.then = then] \in Signal
  BY <1>2 DEF Signal
<1>5. signal' \in Signal
  BY <1>1, <1>3, <1>4
<1>6. QED BY <1>1, <1>2, <1>3, <1>5 DEF Signal

\* What is left to show of a step of the subscriber that stays in memory.
LEMMA MemoryTyped ==
    ASSUME Typed, alarms' \in [Refs -> Alarm], pc["sig"] = "run",
           NEW then \in {"none", "raised", "suppressed", "cleared"}, NextEvaluation(then),
           UNCHANGED <<active, debounce, pc, obj, pending, todo, dbVars, envVars>>
    PROVE  Typed'
<1>1. TypeOK'
  BY SignalNext DEF Typed, TypeOK, dbVars, envVars
<1>2. TaskShape'
  BY SignalNext, TasksFacts DEF Typed, TypeOK, TaskShape
<1>3. QED BY <1>1, <1>2 DEF Typed

LEMMA MemoryStepTyped == Typed /\ MemoryStep => Typed' /\ Quiet
<1> SUFFICES ASSUME Typed, MemoryStep PROVE Typed' /\ Quiet
  OBVIOUS
<1> USE TasksFacts
<1> alarms \in [Refs -> Alarm] /\ active \in [Sensors -> Refs \cup {None}] /\ signal \in Signal
  BY DEF Typed, TypeOK
<1> signal.at \in Nat /\ (pc["sig"] = "run" => signal.sensor \in Sensors)
  BY DEF Typed, TypeOK, TaskShape, Signal
<1> lastId + 1 \in Nat
  BY BoundsAssumption DEF Typed, TypeOK
<1>1. CASE StillAlarming
  <2> DEFINE r == active[signal.sensor]
  <2>1. pc["sig"] = "run" /\ r \in Refs
    BY <1>1 DEF StillAlarming, Evaluating, Live
  <2>2. Successor(alarms[r], [alarms[r] EXCEPT !.seen = signal.at])
    BY <2>1, TransitionType
  <2>3. alarms' = [alarms EXCEPT ![r] = [alarms[r] EXCEPT !.seen = signal.at]]
    BY <1>1, <2>1 DEF StillAlarming
  <2>4. alarms' \in [Refs -> Alarm] /\ Keeps
    BY <2>1, <2>2, <2>3, OneTransition
  <2>5. QED BY <1>1, <2>1, <2>4, MemoryTyped DEF StillAlarming, Quiet, dbVars, envVars
<1>2. CASE IgnoreReading
  <2> DEFINE r == active[signal.sensor]
  <2>1. pc["sig"] = "run" /\ r \in Refs
    BY <1>2 DEF IgnoreReading, Evaluating, Live
  <2>2. Successor(alarms[r], Raised(signal.sensor))
    <3>1. Live(signal.sensor) /\ alarms[r].state \in {"SHELVED", "SUPPRESSED"}
      BY <1>2 DEF IgnoreReading
    <3>2. Raised(signal.sensor) = [alarms[r] EXCEPT !.seen = signal.at]
      BY <3>1 DEF Raised, Raise
    <3>3. Successor(alarms[r], [alarms[r] EXCEPT !.seen = signal.at])
      BY <2>1, TransitionType
    <3>4. QED BY <3>2, <3>3
  <2>3. alarms' = [alarms EXCEPT ![r] = Raised(signal.sensor)]
    BY <1>2 DEF IgnoreReading
  <2>4. alarms' \in [Refs -> Alarm] /\ Keeps
    BY <2>1, <2>2, <2>3, OneTransition
  <2>5. QED BY <1>2, <2>1, <2>4, MemoryTyped DEF IgnoreReading, Quiet, dbVars, envVars
<1>3. CASE NothingToClear
  <2> DEFINE r == active[signal.sensor]
  <2>1. pc["sig"] = "run"
    BY <1>3 DEF NothingToClear, Evaluating
  <2>2. alarms' \in [Refs -> Alarm] /\ Keeps
    <3>1. CASE alarms' = alarms
      BY <3>1 DEF Keeps
    <3>2. CASE r \in Refs /\ alarms' = [alarms EXCEPT ![r] = [alarms[r] EXCEPT !.seen = signal.at]]
      <4>1. Successor(alarms[r], [alarms[r] EXCEPT !.seen = signal.at])
        BY <3>2, TransitionType
      <4>2. QED BY <3>2, <4>1, OneTransition
    <3>3. QED BY <1>3, <2>1, <3>1, <3>2 DEF NothingToClear
  <2>3. QED BY <1>3, <2>1, <2>2, MemoryTyped DEF NothingToClear, Quiet, dbVars, envVars
<1>4. ASSUME NEW S \in SUBSET Refs, NEW n \in Nat, AfterRaise \/ AfterClear,
             alarms' = [x \in Refs |-> IF x \in S THEN Suppress(alarms[x], n) ELSE alarms[x]]
               \/ alarms' = [x \in Refs |-> IF x \in S THEN Unsuppress(alarms[x]) ELSE alarms[x]],
             todo' = [todo EXCEPT !["sig"] = S]
      PROVE  Typed' /\ Quiet
  <2>1. \A x \in Refs : Successor(alarms[x], Suppress(alarms[x], n))
                       /\ Successor(alarms[x], Unsuppress(alarms[x]))
    BY TransitionType
  <2>2. alarms' \in [Refs -> Alarm] /\ Keeps
    BY <1>4, <2>1 DEF Successor, Keeps
  <2>3. /\ pc' = [pc EXCEPT !["sig"] = "run"] /\ pc["sig"] = "logged"
        /\ signal' = [signal EXCEPT !.then = "effects"]
        /\ UNCHANGED <<active, debounce, obj, pending, dbVars, envVars>>
    BY <1>4 DEF AfterRaise, AfterClear, Resume
  <2>4. TypeOK'
    <3>1. todo' \in [Tasks -> SUBSET Nat]
      BY <1>4, RefsAssumption DEF Typed, TypeOK
    <3>2. QED BY <2>2, <2>3, <3>1 DEF Typed, TypeOK, Signal, dbVars, envVars
  <2>5. TaskShape'
    BY <1>4, <2>3 DEF Typed, TypeOK, TaskShape, Signal
  <2>6. QED BY <2>2, <2>3, <2>4, <2>5 DEF Typed, Quiet, dbVars, envVars
<1>5. CASE AfterRaise
  <2>1. Effects(obj["sig"]) \in SUBSET Refs
    BY DEF Effects
  <2>2. CauseId(alarms[obj["sig"]]) \in Nat
    <3>1. obj["sig"] \in Refs
      BY <1>5 DEF AfterRaise, Resume, Typed, TaskShape
    <3>2. alarms[obj["sig"]] \in Alarm
      BY <3>1
    <3>3. QED BY <3>2, SensorNat DEF CauseId, Alarm, RowIds, None
  <2>3. QED BY <1>4, <1>5, <2>1, <2>2 DEF AfterRaise
<1>6. CASE AfterClear
  <2>1. FiledUnder(obj["sig"]) \in SUBSET Refs
    BY DEF FiledUnder
  <2>2. QED BY <1>4, <1>6, <2>1 DEF AfterClear
<1>7. QED BY <1>1, <1>2, <1>3, <1>5, <1>6 DEF MemoryStep

\* The actions that issue the update of one alarm, of the subscriber and of others.
SignalWrite == ReturnToNormal \/ \E r \in Refs : WriteEffect(r)

OtherWrite ==
    \/ OperatorStep
    \/ \E s \in Sensors : UnshelveExpired(s)
    \/ \E r \in Refs : ClearStale(r)

WriteStep == SignalWrite \/ OtherWrite

\* What an update issued for one alarm leaves, whoever issues it.
LEMMA UpdateIssued ==
    ASSUME Typed, NEW t \in Tasks, pc[t] # "db", NEW r \in Refs,
           alarms' \in [Refs -> Alarm], Keeps, Issue(t, "update", r),
           todo' \in [Tasks -> SUBSET Nat],
           todo'["sig"] \subseteq todo["sig"], todo'["stale"] \subseteq todo["stale"],
           \/ t # "sig" /\ signal' = signal
           \/ t = "sig" /\ signal' \in Signal /\ signal'.sensor \in Sensors /\ signal'.next \in Nat \ {0},
           UNCHANGED <<active, debounce, dbVars, envVars>>
    PROVE  Typed' /\ Writing
<1>1. TypeOK'
  BY IssueTyped DEF Typed, TypeOK, dbVars, envVars
<1>2. TaskShape'
  <2>1. /\ \A u \in Tasks : pc'[u] = "db" <=> pending'[u].kind # "none"
        /\ \A u \in Tasks : pc'[u] = "db" => obj'[u] \in Refs
        /\ \A u \in Tasks : pending'[u].kind = "insert" => u = "sig"
        /\ pc'[t] = "db"
        /\ \A u \in Tasks \ {t} : pc'[u] = pc[u] /\ obj'[u] = obj[u]
    BY IssueTyped
  <2>2. TaskShape
    BY DEF Typed
  <2>3. CASE t = "sig"
    BY <2>1, <2>2, <2>3, TasksFacts DEF TaskShape
  <2>4. CASE t # "sig"
    <3>1. pc'["sig"] = pc["sig"] /\ obj'["sig"] = obj["sig"] /\ signal' = signal
      BY <2>1, <2>4, TasksFacts
    <3>2. QED BY <2>1, <2>2, <3>1, TasksFacts DEF TaskShape
  <2>5. QED BY <2>3, <2>4
<1>3. Writing
  <2>1. \A u \in Tasks \ {t} : obj'[u] = obj[u]
    BY IssueTyped
  <2>2. QED BY <2>1 DEF Writing, Issue, UpdateOf, dbVars, envVars
<1>4. QED BY <1>1, <1>2, <1>3 DEF Typed

LEMMA SignalWriteTyped == Typed /\ SignalWrite => Typed' /\ Writing
<1> SUFFICES ASSUME Typed, SignalWrite PROVE Typed' /\ Writing
  OBVIOUS
<1> USE TasksFacts
<1> /\ alarms \in [Refs -> Alarm] /\ active \in [Sensors -> Refs \cup {None}]
    /\ signal \in Signal /\ todo \in [Tasks -> SUBSET Nat]
  BY DEF Typed, TypeOK
<1>1. CASE ReturnToNormal
  <2> DEFINE r == active[signal.sensor]
  <2>1. signal.sensor \in Sensors /\ r \in Refs
    BY <1>1 DEF ReturnToNormal, Evaluating, Typed, TaskShape
  <2>a. pc["sig"] = "run"
    BY <1>1 DEF ReturnToNormal, Evaluating
  <2>2. signal.at \in Nat
    BY DEF Signal
  <2>3. Successor(alarms[r], ClearCondition(alarms[r], signal.at))
    BY <2>1, <2>2, TransitionType
  <2>4. alarms' = [alarms EXCEPT ![r] = ClearCondition(alarms[r], signal.at)]
    BY <1>1 DEF ReturnToNormal
  <2>5. alarms' \in [Refs -> Alarm] /\ Keeps
    BY <2>1, <2>3, <2>4, OneTransition
  <2>6. Issue("sig", "update", r) /\ NextEvaluation("cleared")
        /\ UNCHANGED <<active, debounce, todo, dbVars, envVars>>
    BY <1>1 DEF ReturnToNormal
  <2>7. signal' \in Signal /\ signal'.sensor \in Sensors /\ signal'.next \in Nat \ {0}
    BY <2>1, <2>6, SignalNext
  <2>8. QED BY <2>1, <2>a, <2>5, <2>6, <2>7, UpdateIssued
<1>2. ASSUME NEW r \in Refs, WriteEffect(r) PROVE Typed' /\ Writing
  <2>1. /\ alarms' = alarms /\ Issue("sig", "update", r) /\ pc["sig"] = "run"
        /\ todo' = [todo EXCEPT !["sig"] = @ \ {r}]
        /\ UNCHANGED <<active, debounce, signal, dbVars, envVars>>
    BY <1>2 DEF WriteEffect
  <2>2. alarms' \in [Refs -> Alarm] /\ Keeps
    BY <2>1 DEF Keeps
  <2>3. /\ todo' \in [Tasks -> SUBSET Nat]
        /\ todo'["sig"] \subseteq todo["sig"] /\ todo'["stale"] \subseteq todo["stale"]
    BY <2>1
  <2>4. signal' \in Signal /\ signal'.sensor \in Sensors /\ signal'.next \in Nat \ {0}
    BY <1>2, <2>1 DEF WriteEffect, Typed, TaskShape
  <2>5. QED BY <2>1, <2>2, <2>3, <2>4, UpdateIssued
<1>3. QED BY <1>1, <1>2 DEF SignalWrite

LEMMA OtherWriteTyped == Typed /\ OtherWrite => Typed' /\ Writing
<1> SUFFICES ASSUME Typed, OtherWrite PROVE Typed' /\ Writing
  OBVIOUS
<1> USE TasksFacts
<1> /\ alarms \in [Refs -> Alarm] /\ active \in [Sensors -> Refs \cup {None}]
    /\ todo \in [Tasks -> SUBSET Nat] /\ now \in Nat
  BY BoundsAssumption DEF Typed, TypeOK
<1>1. ASSUME NEW t \in Tasks, t # "sig", pc[t] # "db", NEW r \in Refs, NEW b, Successor(alarms[r], b),
             alarms' = [alarms EXCEPT ![r] = b], Issue(t, "update", r),
             todo' = todo \/ \E x : todo' = [todo EXCEPT ![t] = todo[t] \ {x}],
             UNCHANGED <<active, debounce, signal, dbVars, envVars>>
      PROVE  Typed' /\ Writing
  <2>1. alarms' \in [Refs -> Alarm] /\ Keeps
    BY <1>1, OneTransition
  <2>2. /\ todo' \in [Tasks -> SUBSET Nat]
        /\ todo'["sig"] \subseteq todo["sig"] /\ todo'["stale"] \subseteq todo["stale"]
    BY <1>1
  <2>3. QED BY <1>1, <2>1, <2>2, UpdateIssued
<1>2. ASSUME NEW op \in Operators, NEW s \in Sensors, AcknowledgeAlarm(op, s)
      PROVE  Typed' /\ Writing
  <2>1. active[s] \in Refs /\ op \in Tasks /\ op # "sig" /\ pc[op] # "db"
    BY <1>2 DEF AcknowledgeAlarm, OperatorMayAct
  <2>2. Successor(alarms[active[s]], Acknowledge(alarms[active[s]]))
    BY <2>1, TransitionType
  <2>3. QED BY <1>1, <1>2, <2>1, <2>2 DEF AcknowledgeAlarm
<1>3. ASSUME NEW op \in Operators, NEW s \in Sensors, NEW d \in ShelveFor, ShelveAlarm(op, s, d)
      PROVE  Typed' /\ Writing
  <2> DEFINE until == now + (IF d > MaxShelve THEN MaxShelve ELSE d)
  <2>1. active[s] \in Refs /\ op \in Tasks /\ op # "sig" /\ pc[op] # "db"
    BY <1>3 DEF ShelveAlarm, OperatorMayAct
  <2>2. Successor(alarms[active[s]], Shelve(alarms[active[s]], until))
    <3>1. until \in Nat
      BY TimingAssumption
    <3>2. QED BY <2>1, <3>1, TransitionType
  <2>3. QED BY <1>1, <1>3, <2>1, <2>2 DEF ShelveAlarm
<1>4. ASSUME NEW s \in Sensors, UnshelveExpired(s) PROVE Typed' /\ Writing
  <2>1. active[s] \in Refs /\ pc["mon"] # "db"
    BY <1>4 DEF UnshelveExpired, MayContinue
  <2>2. Successor(alarms[active[s]], Unshelve(alarms[active[s]]))
    BY <2>1, TransitionType
  <2>3. QED BY <1>1, <1>4, <2>1, <2>2 DEF UnshelveExpired
<1>5. ASSUME NEW r \in Refs, ClearStale(r) PROVE Typed' /\ Writing
  <2>1. Successor(alarms[r], [alarms[r] EXCEPT !.state = "CLEARED"])
    BY TransitionType
  <2>2. alarms' = [alarms EXCEPT ![r] = [alarms[r] EXCEPT !.state = "CLEARED"]]
    BY <1>5 DEF ClearStale
  <2>3. QED BY <1>1, <1>5, <2>1, <2>2 DEF ClearStale, MayContinue
<1>6. QED BY <1>2, <1>3, <1>4, <1>5 DEF OtherWrite, OperatorStep

\* The actions that insert a row: for the live alarm of the sensor, or for a new
\* one that takes its place.
InsertStep == RaiseAlarm \/ \E c \in Sensors : SuppressOnArrival(c)

InsertOf(a) == [kind |-> "insert", id |-> a.id, row |-> RowOf(a)]

Inserting ==
    \E s \in Sensors, r \in Refs, b \in Alarm :
        /\ alarms' = [alarms EXCEPT ![r] = b]
        /\ active' = [active EXCEPT ![s] = r]
        /\ pending' = [pending EXCEPT !["sig"] = InsertOf(b)]
        /\ obj' = [obj EXCEPT !["sig"] = r]
        /\ b.state \in {"ACTIVE", "SUPPRESSED"}
        /\ \/ /\ r = active[s] /\ alarms[r].state # "CLEARED"
              /\ b.sensor = alarms[r].sensor /\ b.id = alarms[r].id
           \/ alarms[r].sensor = 0 /\ b.sensor = s /\ b.id = None
        /\ pc["sig"] = "run"
        /\ UNCHANGED <<rows, lastId, up>>

LEMMA RaisedFacts ==
    ASSUME Typed, Evaluating({"alarm"}), RoomFor(signal.sensor)
    PROVE  /\ signal.sensor \in Sensors /\ Subject(signal.sensor) \in Refs
           /\ Raised(signal.sensor) \in Alarm
           /\ Live(signal.sensor) =>
                 /\ Subject(signal.sensor) = active[signal.sensor]
                 /\ alarms[Subject(signal.sensor)].state # "CLEARED"
                 /\ Raised(signal.sensor).sensor = alarms[Subject(signal.sensor)].sensor
                 /\ Raised(signal.sensor).id = alarms[Subject(signal.sensor)].id
                 /\ Raised(signal.sensor).state # "CLEARED"
                 /\ alarms[Subject(signal.sensor)].state = "RTN_UNACK" =>
                       Raised(signal.sensor).state = "ACTIVE"
           /\ ~Live(signal.sensor) =>
                 /\ alarms[Subject(signal.sensor)].sensor = 0
                 /\ Raised(signal.sensor).sensor = signal.sensor
                 /\ Raised(signal.sensor).id = None
                 /\ Raised(signal.sensor).state = "ACTIVE"
<1> DEFINE s == signal.sensor
<1> DEFINE r == Subject(s)
<1>1. /\ alarms \in [Refs -> Alarm] /\ active \in [Sensors -> Refs \cup {None}]
      /\ signal \in Signal /\ lastId + 1 \in Nat
  BY BoundsAssumption DEF Typed, TypeOK
<1>2. s \in Sensors /\ signal.at \in Nat
  BY <1>1 DEF Evaluating, Typed, TaskShape, Signal
<1> DEFINE n == lastId + 1
<1>n. n \in Nat
  BY <1>1
<1>a. \A a : Raise(a, lastId + 1, signal.at) = Raise(a, n, signal.at)
  OBVIOUS
<1> HIDE DEF n
<1>3. CASE Live(s)
  <2>1. r = active[s] /\ r \in Refs /\ alarms[r].state # "CLEARED"
    BY <1>1, <1>2, <1>3 DEF Live, Subject
  <2>2. Raised(s) = Raise(alarms[r], n, signal.at)
    BY <1>3, <2>1, <1>a DEF Raised
  <2>3. alarms[r] \in Alarm
    BY <1>1, <2>1
  <2>4. LET b == Raise(alarms[r], n, signal.at) IN
        /\ b \in Alarm /\ b.sensor = alarms[r].sensor /\ b.id = alarms[r].id
        /\ b.state = IF alarms[r].state \in {"CLEARED", "RTN_UNACK"} THEN "ACTIVE"
                     ELSE alarms[r].state
    BY <1>n, <1>2, <2>3, RaiseType
  <2>5. QED BY <1>2, <1>3, <2>1, <2>2, <2>4
<1>4. CASE ~Live(s)
  <2>1. r \in Refs /\ alarms[r].sensor = 0
    <3>1. \E x \in Refs : IsFree(x)
      BY <1>4 DEF RoomFor
    <3>2. QED BY <1>4, <3>1 DEF Subject, FreshRef, IsFree
  <2>2. Current.priority \in Priorities
    <3>1. signal.evals \in Seq(Evaluation) /\ signal.next \in 1..Len(signal.evals)
      BY <1>1 DEF Evaluating, Signal, Typed, TaskShape
    <3>2. signal.evals[signal.next] \in Evaluation
      BY <3>1
    <3>3. QED BY <3>2 DEF Current, Evaluation
  <2>3. LET a == NewAlarm(s, Current.priority) IN
        a \in Alarm /\ a.sensor = s /\ a.id = None /\ a.state = "CLEARED"
    BY <1>2, <2>2, NewAlarmType DEF NewAlarm
  <2>4. Raised(s) = Raise(NewAlarm(s, Current.priority), n, signal.at)
    BY <1>4, <1>a DEF Raised
  <2>5. LET b == Raise(NewAlarm(s, Current.priority), n, signal.at) IN
        b \in Alarm /\ b.sensor = s /\ b.id = None /\ b.state = "ACTIVE"
    BY <1>n, <1>2, <2>3, RaiseType
  <2>6. QED BY <1>2, <1>4, <2>1, <2>4, <2>5
<1>5. QED BY <1>3, <1>4

LEMMA InsertStepTyped == Typed /\ InsertStep => Typed' /\ Inserting
<1> SUFFICES ASSUME Typed, InsertStep PROVE Typed' /\ Inserting
  OBVIOUS
<1> DEFINE s == signal.sensor
<1> DEFINE r == Subject(s)
<1> alarms \in [Refs -> Alarm] /\ active \in [Sensors -> Refs \cup {None}]
  BY DEF Typed, TypeOK
<1>1. ASSUME Evaluating({"alarm"}), RoomFor(s), NEW b \in Alarm,
             b.sensor = Raised(s).sensor, b.id = Raised(s).id, b.state \in {"ACTIVE", "SUPPRESSED"},
             alarms' = [alarms EXCEPT ![r] = b], active' = [active EXCEPT ![s] = r],
             Issue("sig", "insert", r),
             NEW then \in {"raised", "suppressed"}, NextEvaluation(then),
             UNCHANGED <<debounce, todo, dbVars, envVars>>
      PROVE  Typed' /\ Inserting
  <2>1. s \in Sensors /\ r \in Refs
    BY <1>1, RaisedFacts
  <2>2. alarms' \in [Refs -> Alarm] /\ active' \in [Sensors -> Refs \cup {None}]
    BY <1>1, <2>1
  <2>3. signal' \in Signal /\ signal'.sensor \in Sensors /\ signal'.next \in Nat \ {0}
    BY <1>1, <2>1, SignalNext
  <2>4. TypeOK'
    BY <1>1, <2>1, <2>2, <2>3, IssueTyped, TasksFacts DEF Typed, TypeOK, dbVars, envVars
  <2>5. TaskShape'
    <3>1. /\ \A u \in Tasks : pc'[u] = "db" <=> pending'[u].kind # "none"
          /\ \A u \in Tasks : pc'[u] = "db" => obj'[u] \in Refs
          /\ \A u \in Tasks : pending'[u].kind = "insert" => u = "sig"
          /\ pc'["sig"] = "db"
      BY <1>1, <2>1, <2>2, IssueTyped, TasksFacts
    <3>2. QED BY <1>1, <2>3, <3>1 DEF Typed, TaskShape
  <2>6. Inserting
    <3>1. pending' = [pending EXCEPT !["sig"] = InsertOf(b)] /\ obj' = [obj EXCEPT !["sig"] = r]
      BY <1>1, <2>1 DEF Issue, InsertOf
    <3>2. \/ /\ r = active[s] /\ alarms[r].state # "CLEARED"
             /\ b.sensor = alarms[r].sensor /\ b.id = alarms[r].id
          \/ alarms[r].sensor = 0 /\ b.sensor = s /\ b.id = None
      BY <1>1, RaisedFacts
    <3>3. pc["sig"] = "run" /\ UNCHANGED <<rows, lastId, up>>
      BY <1>1 DEF Evaluating, dbVars, envVars
    <3>4. QED BY <1>1, <2>1, <3>1, <3>2, <3>3 DEF Inserting
  <2>7. QED BY <2>4, <2>5, <2>6 DEF Typed
<1>2. CASE RaiseAlarm
  <2>1. Evaluating({"alarm"}) /\ RoomFor(s)
    BY <1>2 DEF RaiseAlarm
  <2>2. Raised(s) \in Alarm /\ Raised(s).state = "ACTIVE"
    <3>1. Live(s) => alarms[r].state = "RTN_UNACK"
      BY <1>2 DEF RaiseAlarm, Subject
    <3>2. QED BY <2>1, <3>1, RaisedFacts
  <2>3. /\ alarms' = [alarms EXCEPT ![r] = Raised(s)] /\ active' = [active EXCEPT ![s] = r]
        /\ Issue("sig", "insert", r) /\ NextEvaluation("raised")
        /\ UNCHANGED <<debounce, todo, dbVars, envVars>>
    BY <1>2 DEF RaiseAlarm
  <2>4. QED BY <1>1, <2>1, <2>2, <2>3
<1>3. ASSUME NEW c \in Sensors, SuppressOnArrival(c) PROVE Typed' /\ Inserting
  <2>1. Evaluating({"alarm"}) /\ RoomFor(s)
    BY <1>3 DEF SuppressOnArrival
  <2>2. Raised(s) \in Alarm /\ Raised(s).state # "CLEARED"
    BY <2>1, RaisedFacts
  <2> DEFINE b == Suppress(Raised(s), c)
  <2>3. b \in Alarm /\ b.sensor = Raised(s).sensor /\ b.id = Raised(s).id /\ b.state = "SUPPRESSED"
    <3>1. c \in Nat
      BY SensorNat
    <3>2. QED BY <2>2, <3>1, SuppressType
  <2>4. /\ alarms' = [alarms EXCEPT ![r] = b] /\ active' = [active EXCEPT ![s] = r]
        /\ Issue("sig", "insert", r) /\ NextEvaluation("suppressed")
        /\ UNCHANGED <<debounce, todo, dbVars, envVars>>
    BY <1>3 DEF SuppressOnArrival
  <2>5. QED BY <1>1, <2>1, <2>3, <2>4
<1>4. QED BY <1>2, <1>3 DEF InsertStep

\* The database: a statement in flight ends.
LEMMA CommittedTyped ==
    ASSUME Typed, NEW t \in Tasks, Committed(t),
           alarms' \in [Refs -> Alarm], rows' \in [RowIds -> Row], lastId' \in 0..MaxRows
    PROVE  Typed'
<1>1. /\ pc' = [pc EXCEPT ![t] = IF t \in Operators THEN "idle" ELSE "logged"] /\ pc[t] = "db"
      /\ obj' = IF t \in Operators THEN [obj EXCEPT ![t] = None] ELSE obj
      /\ pending' = [pending EXCEPT ![t] = NoWrite]
      /\ UNCHANGED <<active, debounce, todo, signal, envVars>>
  BY DEF Committed, AfterCommit
<1>2. TypeOK'
  BY <1>1, ConstantTypes DEF Typed, TypeOK, envVars
<1>3. TaskShape'
  <2>1. \A u \in Tasks : pc'[u] = "db" => u # t /\ pc[u] = "db" /\ obj'[u] = obj[u]
    BY <1>1 DEF Typed, TypeOK
  <2>2. pc'["sig"] = "logged" => pc["sig"] \in {"db", "logged"} /\ obj'["sig"] = obj["sig"]
    BY <1>1, TasksFacts DEF Typed, TypeOK
  <2>3. \A u \in Tasks : /\ pc'[u] = "db" <=> pending'[u].kind # "none"
                         /\ pending'[u].kind = "insert" => u = "sig"
    BY <1>1 DEF Typed, TypeOK, TaskShape, NoWrite
  <2>4. pc'["sig"] # "idle" => pc["sig"] # "idle"
    BY <1>1, TasksFacts DEF Typed, TypeOK
  <2>5. QED BY <1>1, <2>1, <2>2, <2>3, <2>4, TasksFacts DEF Typed, TaskShape
<1>4. QED BY <1>2, <1>3 DEF Typed

LEMMA PendingFacts ==
    ASSUME Typed, NEW t \in Tasks, pending[t].kind # "none"
    PROVE  obj[t] \in Refs /\ pending[t] \in Write /\ pending[t].row \in Row
BY DEF Typed, TypeOK, TaskShape, Write

LEMMA CommitTyped ==
    ASSUME Typed, NEW t \in Tasks, CommitInsert(t) \/ CommitUpdate(t)
    PROVE  Typed'
<1>1. /\ alarms \in [Refs -> Alarm] /\ rows \in [RowIds -> Row] /\ lastId \in 0..MaxRows
      /\ MaxRows \in Nat
  BY BoundsAssumption DEF Typed, TypeOK
<1>2. CASE CommitInsert(t)
  <2>1. lastId + 1 \in RowIds /\ lastId' \in 0..MaxRows
    BY <1>1, <1>2 DEF CommitInsert, RowIds
  <2>2. obj[t] \in Refs /\ pending[t].row \in Row
    BY <1>2, PendingFacts DEF CommitInsert
  <2>3. rows' \in [RowIds -> Row]
    <3>1. [pending[t].row EXCEPT !.acked = FALSE, !.until = None] \in Row
      BY <2>2 DEF Row, None
    <3>2. QED BY <1>1, <1>2, <2>1, <3>1 DEF CommitInsert
  <2>4. alarms' \in [Refs -> Alarm]
    <3>1. [alarms[obj[t]] EXCEPT !.id = lastId + 1] \in Alarm
      BY <1>1, <2>1, <2>2 DEF Alarm
    <3>2. alarms' = [alarms EXCEPT ![obj[t]] = [alarms[obj[t]] EXCEPT !.id = lastId + 1]]
      BY <1>2 DEF CommitInsert
    <3>3. QED BY <1>1, <2>2, <3>1, <3>2
  <2>5. QED BY <1>2, <2>1, <2>3, <2>4, CommittedTyped DEF CommitInsert
<1>3. CASE CommitUpdate(t)
  <2>1. pending[t] \in Write /\ pending[t].row \in Row
    BY <1>3, PendingFacts DEF CommitUpdate
  <2>2. rows' \in [RowIds -> Row]
    <3>1. CASE pending[t].id = None
      BY <1>1, <1>3, <3>1 DEF CommitUpdate
    <3>2. CASE pending[t].id # None
      <4> DEFINE k == pending[t].id
      <4>1. k \in RowIds
        BY <2>1, <3>2 DEF Write
      <4>2. [rows[k] EXCEPT !.state = pending[t].row.state, !.acked = pending[t].row.acked,
                            !.until = pending[t].row.until] \in Row
        BY <1>1, <2>1, <4>1 DEF Row
      <4>3. QED BY <1>1, <1>3, <3>2, <4>1, <4>2 DEF CommitUpdate
    <3>3. QED BY <3>1, <3>2
  <2>3. alarms' = alarms /\ lastId' = lastId
    BY <1>3 DEF CommitUpdate
  <2>4. QED BY <1>1, <1>3, <2>2, <2>3, CommittedTyped DEF CommitUpdate
<1>4. QED BY <1>2, <1>3

LEMMA DbErrorTyped ==
    ASSUME Typed, NEW t \in Tasks, DbError(t)
    PROVE  Typed'
<1>1. TypeOK'
  <2>1. dbErrors' \in 0..MaxDbErrors
    BY BoundsAssumption DEF DbError, Typed, TypeOK
  <2>2. QED BY <2>1, ConstantTypes DEF DbError, Typed, TypeOK, memVars, dbVars
<1>2. TaskShape'
  <2>1. \A u \in Tasks : /\ pc'[u] = IF u = t THEN "idle" ELSE pc[u]
                         /\ obj'[u] = IF u = t THEN None ELSE obj[u]
                         /\ pending'[u] = IF u = t THEN NoWrite ELSE pending[u]
                         /\ todo'[u] = IF u = t THEN {} ELSE todo[u]
    BY DEF DbError, Typed, TypeOK
  <2>2. signal' = IF t = "sig" THEN NoSignal ELSE signal
    BY DEF DbError
  <2>3. QED BY <2>1, <2>2, TasksFacts DEF Typed, TaskShape, NoWrite, NoSignal
<1>3. QED BY <1>1, <1>2 DEF Typed

LEMMA CrashTyped == Typed /\ Crash => Typed'
<1> SUFFICES ASSUME Typed, Crash PROVE Typed'
  OBVIOUS
<1>1. TypeOK'
  <2>1. restarts' \in 0..MaxRestarts
    BY BoundsAssumption DEF Crash, Typed, TypeOK
  <2>2. QED BY <2>1, ConstantTypes DEF Crash, ClearTasks, Typed, TypeOK, dbVars
<1>2. TaskShape'
  BY TasksFacts DEF Crash, ClearTasks, TaskShape, NoWrite, NoSignal
<1>3. QED BY <1>1, <1>2 DEF Typed

\* Where the loaded alarms are put.
LEMMA PlaceFacts ==
    /\ Place \in [Sensors -> Refs]
    /\ \A s, q \in Sensors : Place[s] = Place[q] => s = q
BY RefsAssumption DEF Place

LEMMA RestartTyped == Typed /\ Restart => Typed'
<1> SUFFICES ASSUME Typed, NEW pick \in [Sensors -> RowIds], Start(pick) PROVE Typed'
  BY DEF Restart
<1> DEFINE loaded == {s \in Sensors : OpenRows(s) # {}}
<1>1. \A k \in RowIds : Loaded(k) \in Alarm
  <2>1. rows \in [RowIds -> Row]
    BY DEF Typed, TypeOK
  <2>2. QED BY <2>1 DEF Loaded, Row, Alarm, None
<1>2. alarms' \in [Refs -> Alarm]
  <2>1. \A r \in Refs : (\E s \in loaded : Place[s] = r) =>
            pick[CHOOSE s \in loaded : Place[s] = r] \in RowIds
    OBVIOUS
  <2>2. QED BY <1>1, <2>1, ConstantTypes DEF Start
<1>3. active' \in [Sensors -> Refs \cup {None}]
  BY PlaceFacts DEF Start
<1>4. TypeOK'
  BY <1>2, <1>3 DEF Start, Typed, TypeOK, taskVars, dbVars
<1>5. TaskShape'
  BY DEF Start, Typed, TaskShape, taskVars
<1>6. QED BY <1>4, <1>5 DEF Typed

LEMMA TypedStep == Typed /\ [Next]_vars => Typed'
<1> SUFFICES ASSUME Typed, [Next]_vars PROVE Typed'
  OBVIOUS
<1>1. CASE IdleStep
  BY <1>1, IdleStepTyped
<1>2. CASE MemoryStep
  BY <1>2, MemoryStepTyped
<1>3. CASE WriteStep
  BY <1>3, SignalWriteTyped, OtherWriteTyped DEF WriteStep
<1>4. CASE InsertStep
  BY <1>4, InsertStepTyped
<1>5. CASE \E t \in Tasks : CommitInsert(t) \/ CommitUpdate(t) \/ DbError(t)
  BY <1>5, CommitTyped, DbErrorTyped
<1>6. CASE Crash
  BY <1>6, CrashTyped
<1>7. CASE Restart
  BY <1>7, RestartTyped
<1>8. CASE UNCHANGED vars
  <2>1. UNCHANGED <<alarms, active, debounce, pc, obj, pending, todo, signal, rows, lastId,
                    now, up, dbErrors, restarts>>
    BY <1>8 DEF vars, memVars, taskVars, dbVars, envVars
  <2>2. QED BY <2>1 DEF Typed, TypeOK, TaskShape
<1>9. QED
  BY <1>1, <1>2, <1>3, <1>4, <1>5, <1>6, <1>7, <1>8
     DEF Next, SignalStep, MonitorStep, StaleStep, IdleStep, MemoryStep, WriteStep,
         SignalWrite, OtherWrite, InsertStep

\* Every variable keeps its type, whatever races, fails or is restarted.
THEOREM TypeCorrect == Spec => []TypeOK
<1>1. Init => Typed
  BY InitTyped
<1>2. Typed /\ [Next]_vars => Typed'
  BY TypedStep
<1>3. Typed => TypeOK
  BY DEF Typed
<1>4. QED BY <1>1, <1>2, <1>3, PTL DEF Spec

-----------------------------------------------------------------------------
(* The rows: who may write where, and what a CLEARED row says.             *)

\* Nothing runs and nothing is in memory while the process is down.
Down ==
    ~up => /\ \A t \in Tasks : pc[t] = "idle"
           /\ \A r \in Refs : alarms[r].sensor = 0

\* The ids that alarms and statements carry are ids of rows of their own sensor,
\* and no row is shared.
Owned ==
    /\ \A r \in Refs : alarms[r].sensor = 0 => alarms[r].id = None /\ alarms[r].state = "CLEARED"
    /\ \A s \in Sensors : active[s] # None => alarms[active[s]].sensor = s
    /\ \A k \in RowIds : k > lastId => rows[k].sensor = 0
    /\ \A r \in Refs : alarms[r].id # None =>
           alarms[r].id <= lastId /\ rows[alarms[r].id].sensor = alarms[r].sensor
    /\ \A r, q \in Refs : alarms[r].id = alarms[q].id => r = q \/ alarms[r].id = None
    /\ \A t \in Tasks : pending[t].kind = "update" /\ pending[t].id # None =>
           pending[t].id <= lastId /\ rows[pending[t].id].sensor = pending[t].row.sensor
    /\ \A t \in Tasks : pending[t].kind = "insert" =>
           pending[t].row.sensor # 0 /\ pending[t].row.sensor = alarms[obj[t]].sensor

\* A row that is CLEARED, or is about to be, belongs to an alarm that is over.
Over ==
    /\ ClearedRowIsOver
    /\ \A t \in Tasks, r \in Refs :
           (/\ pending[t].kind = "update" /\ pending[t].row.state = "CLEARED"
            /\ pending[t].id # None /\ alarms[r].id = pending[t].id)
           => alarms[r].state = "CLEARED"
    /\ \A t \in Tasks : pending[t].kind = "insert" => pending[t].row.state # "CLEARED"

IInv == Typed /\ Down /\ Owned /\ Over

\* The kinds of steps, as far as rows are concerned.
LEMMA StepShape ==
    ASSUME Typed, [Next]_vars
    PROVE  \/ Quiet \/ Writing \/ Inserting
           \/ \E t \in Tasks : CommitInsert(t) \/ CommitUpdate(t) \/ DbError(t)
           \/ Crash \/ Restart
<1>1. IdleStep \/ MemoryStep => Quiet
  BY IdleStepTyped, MemoryStepTyped
<1>2. WriteStep => Writing
  BY SignalWriteTyped, OtherWriteTyped DEF WriteStep
<1>3. InsertStep => Inserting
  BY InsertStepTyped
<1>4. UNCHANGED vars => Quiet
  BY DEF vars, memVars, taskVars, dbVars, envVars, Quiet, Keeps
<1>5. QED
  BY <1>1, <1>2, <1>3, <1>4
     DEF Next, SignalStep, MonitorStep, StaleStep, IdleStep, MemoryStep, WriteStep,
         SignalWrite, OtherWrite, InsertStep

\* Only the clock and a restart change anything while the process is down.
LEMMA DownStep ==
    ASSUME Typed, Down, [Next]_vars
    PROVE  Down'
<1>1. CASE up /\ ~Crash
  <2>1. up'
    BY <1>1, StepShape DEF Quiet, Writing, Inserting, CommitInsert, CommitUpdate, Committed,
         DbError, Restart, Start, envVars
  <2>2. QED BY <2>1 DEF Down
<1>2. CASE Crash
  BY <1>2, ConstantTypes DEF Crash, ClearTasks, Down
<1>3. CASE ~up
  <2>1. /\ \A t \in Tasks : pc[t] = "idle"
        /\ \A r \in Refs : alarms[r].sensor = 0
    BY <1>3 DEF Down
  <2>2. ~SignalStep
    BY <2>1, TasksFacts
       DEF SignalStep, StillAlarming, IgnoreReading, RaiseAlarm, ReturnToNormal, NothingToClear,
           SuppressOnArrival, Evaluating, AfterRaise, AfterClear, AfterEffect, AfterLastAwait,
           Resume, WriteEffect, Publish, EndOfSignal
  <2>3. ~MonitorStep /\ ~StaleStep
    BY <1>3, <2>1, TasksFacts
       DEF MonitorStep, StaleStep, QueryExpired, UnshelveExpired, SkipExpired, EndOfPass,
           MayContinue, CollectStale, ClearStale
  <2>4. ~OperatorStep /\ ~(\E s \in Sensors, v \in Values, p \in Priorities : ReceiveSignal(s, v, p))
    BY <1>3 DEF OperatorStep, AcknowledgeAlarm, ShelveAlarm, OperatorMayAct, ReceiveSignal
  <2>5. ~(\E t \in Tasks : CommitInsert(t) \/ CommitUpdate(t) \/ DbError(t))
    BY <2>1 DEF CommitInsert, CommitUpdate, Committed, DbError
  <2>6. Tick \/ Crash \/ Restart \/ UNCHANGED vars
    BY <2>2, <2>3, <2>4, <2>5 DEF Next
  <2>7. CASE Tick
    BY <2>1, <2>7 DEF Tick, memVars, taskVars, Down
  <2>8. CASE Restart
    BY <2>8 DEF Restart, Start, Down
  <2>9. CASE UNCHANGED vars
    BY <2>1, <2>9 DEF vars, memVars, taskVars, Down
  <2>10. QED BY <1>2, <2>6, <2>7, <2>8, <2>9
<1>4. QED BY <1>1, <1>2, <1>3

LEMMA InitIInv == Init => IInv
<1>1. SUFFICES ASSUME Init PROVE IInv
  OBVIOUS
<1>2. Typed
  BY <1>1, InitTyped
<1>3. Down
  BY <1>1 DEF Init, Down
<1>4. Owned
  BY <1>1, ConstantTypes DEF Init, Owned, NoWrite, FreeAlarm, NewAlarm
<1>5. Over
  BY <1>1, ConstantTypes DEF Init, Over, ClearedRowIsOver, NoWrite
<1>6. QED BY <1>2, <1>3, <1>4, <1>5 DEF IInv

\* What the rows of the alarms are after a step that keeps them.
LEMMA QuietKeepsRows ==
    ASSUME Typed, Down, Owned, Typed', Quiet
    PROVE  Owned' /\ (Over => Over')
<1>1. /\ Keeps /\ active' = active /\ pending' = pending /\ rows' = rows /\ lastId' = lastId
  BY DEF Quiet
<1>2. \A t \in Tasks : pending[t].kind = "insert" => obj[t] \in Refs /\ obj'[t] = obj[t]
  BY DEF Typed, TaskShape, Quiet
<1>3. active \in [Sensors -> Refs \cup {None}]
  BY DEF Typed, TypeOK
<1>4. Owned'
  BY <1>1, <1>2, <1>3 DEF Owned, Keeps
<1>5. ASSUME Over PROVE Over'
  BY <1>5, <1>1 DEF Over, ClearedRowIsOver, Keeps
<1>6. QED BY <1>4, <1>5

LEMMA WritingKeepsRows ==
    ASSUME Typed, Down, Owned, Typed', Writing
    PROVE  Owned' /\ (Over => Over')
<1>1. PICK t \in Tasks, r \in Refs :
         /\ Keeps /\ pending' = [pending EXCEPT ![t] = UpdateOf(alarms'[r])]
         /\ \A u \in Tasks \ {t} : obj'[u] = obj[u]
         /\ UNCHANGED <<active, rows, lastId, up>>
  BY DEF Writing
<1>2. /\ active \in [Sensors -> Refs \cup {None}] /\ alarms' \in [Refs -> Alarm]
      /\ pending \in [Tasks -> Write]
  BY DEF Typed, TypeOK
<1>3. /\ pending'[t].kind = "update" /\ pending'[t].id = alarms'[r].id
      /\ pending'[t].row.sensor = alarms'[r].sensor /\ pending'[t].row.state = alarms'[r].state
      /\ \A u \in Tasks \ {t} : pending'[u] = pending[u]
  BY <1>1, <1>2, RowOfType DEF UpdateOf
<1>4. \A u \in Tasks : pending'[u].kind = "insert" =>
          pending[u].kind = "insert" /\ pending'[u] = pending[u] /\ obj[u] \in Refs /\ obj'[u] = obj[u]
  BY <1>1, <1>3 DEF Typed, TaskShape
<1>5. Owned'
  <2>1. /\ \A x \in Refs : alarms'[x].sensor = 0 => alarms'[x].id = None /\ alarms'[x].state = "CLEARED"
        /\ \A s \in Sensors : active'[s] # None => alarms'[active'[s]].sensor = s
        /\ \A k \in RowIds : k > lastId' => rows'[k].sensor = 0
        /\ \A x \in Refs : alarms'[x].id # None =>
               alarms'[x].id <= lastId' /\ rows'[alarms'[x].id].sensor = alarms'[x].sensor
        /\ \A x, q \in Refs : alarms'[x].id = alarms'[q].id => x = q \/ alarms'[x].id = None
    BY <1>1, <1>2 DEF Owned, Keeps
  <2>2. \A u \in Tasks : pending'[u].kind = "update" /\ pending'[u].id # None =>
           pending'[u].id <= lastId' /\ rows'[pending'[u].id].sensor = pending'[u].row.sensor
    BY <1>1, <1>3, <2>1 DEF Owned
  <2>3. \A u \in Tasks : pending'[u].kind = "insert" =>
           pending'[u].row.sensor # 0 /\ pending'[u].row.sensor = alarms'[obj'[u]].sensor
    BY <1>1, <1>4 DEF Owned, Keeps
  <2>4. QED BY <2>1, <2>2, <2>3 DEF Owned
<1>6. ASSUME Over PROVE Over'
  <2>1. ClearedRowIsOver'
    BY <1>6, <1>1 DEF Over, ClearedRowIsOver, Keeps
  <2>2. \A u \in Tasks, x \in Refs :
           (/\ pending'[u].kind = "update" /\ pending'[u].row.state = "CLEARED"
            /\ pending'[u].id # None /\ alarms'[x].id = pending'[u].id)
           => alarms'[x].state = "CLEARED"
    <3>1. \A x \in Refs : alarms'[x].id = alarms'[r].id => x = r \/ alarms'[x].id = None
      BY <1>5 DEF Owned
    <3>2. QED BY <1>6, <1>1, <1>3, <3>1 DEF Over, Keeps
  <2>3. \A u \in Tasks : pending'[u].kind = "insert" => pending'[u].row.state # "CLEARED"
    BY <1>6, <1>4 DEF Over
  <2>4. QED BY <1>6, <2>1, <2>2, <2>3 DEF Over
<1>7. QED BY <1>5, <1>6

LEMMA InsertingKeepsRows ==
    ASSUME Typed, Down, Owned, Typed', Inserting
    PROVE  Owned' /\ (Over => Over')
<1>1. PICK s \in Sensors, r \in Refs, b \in Alarm :
        /\ alarms' = [alarms EXCEPT ![r] = b]
        /\ active' = [active EXCEPT ![s] = r]
        /\ pending' = [pending EXCEPT !["sig"] = InsertOf(b)]
        /\ obj' = [obj EXCEPT !["sig"] = r]
        /\ b.state \in {"ACTIVE", "SUPPRESSED"}
        /\ \/ /\ r = active[s] /\ alarms[r].state # "CLEARED"
              /\ b.sensor = alarms[r].sensor /\ b.id = alarms[r].id
           \/ alarms[r].sensor = 0 /\ b.sensor = s /\ b.id = None
        /\ pc["sig"] = "run"
        /\ UNCHANGED <<rows, lastId, up>>
  BY DEF Inserting
<1>2. /\ alarms \in [Refs -> Alarm] /\ active \in [Sensors -> Refs \cup {None}]
      /\ pending \in [Tasks -> Write] /\ obj \in [Tasks -> Refs \cup {None}]
      /\ None \notin Refs /\ 0 \notin Sensors
  BY ConstantTypes, SensorsAssumption DEF Typed, TypeOK
<1>3. /\ b.sensor = s
      /\ b.id = alarms[r].id /\ (b.id # None => alarms[r].sensor = b.sensor /\ alarms[r].state # "CLEARED")
      /\ alarms[r].sensor \in {0, s}
  BY <1>1, <1>2 DEF Owned
<1>4. /\ \A x \in Refs : alarms'[x].id = alarms[x].id
      /\ \A x \in Refs : alarms'[x].id # None => alarms'[x].sensor = alarms[x].sensor
      /\ \A x \in Refs \ {r} : alarms'[x] = alarms[x]
      /\ alarms'[r] = b
  BY <1>1, <1>2, <1>3
<1>5. /\ pending'["sig"].kind = "insert" /\ pending'["sig"].row.sensor = b.sensor
      /\ pending'["sig"].row.state = b.state /\ obj'["sig"] = r
      /\ \A u \in Tasks \ {"sig"} : pending'[u] = pending[u] /\ pending[u].kind # "insert"
  BY <1>1, <1>2, RowOfType, TasksFacts DEF InsertOf, Typed, TaskShape
<1>6. Owned'
  <2>1. \A x \in Refs : alarms'[x].sensor = 0 => alarms'[x].id = None /\ alarms'[x].state = "CLEARED"
    BY <1>2, <1>3, <1>4 DEF Owned
  <2>2. \A q \in Sensors : active'[q] # None => alarms'[active'[q]].sensor = q
    BY <1>1, <1>2, <1>3, <1>4 DEF Owned
  <2>3. /\ \A k \in RowIds : k > lastId' => rows'[k].sensor = 0
        /\ \A x \in Refs : alarms'[x].id # None =>
               alarms'[x].id <= lastId' /\ rows'[alarms'[x].id].sensor = alarms'[x].sensor
        /\ \A x, q \in Refs : alarms'[x].id = alarms'[q].id => x = q \/ alarms'[x].id = None
    BY <1>1, <1>4 DEF Owned
  <2>4. \A u \in Tasks : pending'[u].kind = "update" /\ pending'[u].id # None =>
           pending'[u].id <= lastId' /\ rows'[pending'[u].id].sensor = pending'[u].row.sensor
    BY <1>1, <1>5 DEF Owned
  <2>5. \A u \in Tasks : pending'[u].kind = "insert" =>
           pending'[u].row.sensor # 0 /\ pending'[u].row.sensor = alarms'[obj'[u]].sensor
    BY <1>2, <1>3, <1>4, <1>5
  <2>6. QED BY <2>1, <2>2, <2>3, <2>4, <2>5 DEF Owned
<1>7. ASSUME Over PROVE Over'
  <2>1. \A x \in Refs : alarms[x].state = "CLEARED" /\ alarms[x].id # None => alarms'[x].state = "CLEARED"
    BY <1>3, <1>4
  <2>2. ClearedRowIsOver'
    BY <1>7, <1>1, <1>4, <2>1 DEF Over, ClearedRowIsOver
  <2>3. QED BY <1>7, <1>1, <1>4, <1>5, <2>1, <2>2 DEF Over
<1>8. QED BY <1>6, <1>7

\* A new row gets an id no alarm and no statement carries.
LEMMA CommitInsertKeepsRows ==
    ASSUME Typed, Down, Owned, NEW t \in Tasks, CommitInsert(t)
    PROVE  Owned' /\ (Over => Over')
<1> DEFINE k == lastId + 1
<1> DEFINE r == obj[t]
<1>1. /\ pending[t].kind = "insert" /\ lastId' = k /\ lastId < MaxRows
      /\ rows' = [rows EXCEPT ![k] = [pending[t].row EXCEPT !.acked = FALSE, !.until = None]]
      /\ alarms' = [alarms EXCEPT ![r].id = k]
      /\ active' = active /\ pending' = [pending EXCEPT ![t] = NoWrite]
  BY DEF CommitInsert, Committed
<1>2. /\ alarms \in [Refs -> Alarm] /\ rows \in [RowIds -> Row] /\ pending \in [Tasks -> Write]
      /\ active \in [Sensors -> Refs \cup {None}]
      /\ lastId \in Nat /\ MaxRows \in Nat
  BY BoundsAssumption DEF Typed, TypeOK
<1>3. r \in Refs /\ pending[t].row \in Row /\ t = "sig"
  BY <1>1, PendingFacts DEF Typed, TaskShape
<1>4. k \in RowIds /\ k # None /\ k > lastId
  BY <1>1, <1>2 DEF RowIds, None
<1>5. /\ rows'[k].sensor = pending[t].row.sensor /\ rows'[k].state = pending[t].row.state
      /\ \A j \in RowIds \ {k} : rows'[j] = rows[j]
  BY <1>1, <1>2, <1>3, <1>4 DEF Row
<1>6. /\ alarms'[r].id = k
      /\ \A x \in Refs : alarms'[x].sensor = alarms[x].sensor /\ alarms'[x].state = alarms[x].state
      /\ \A x \in Refs \ {r} : alarms'[x] = alarms[x]
  BY <1>1, <1>2, <1>3, <1>4 DEF Alarm
<1>7. /\ pending'[t].kind = "none"
      /\ \A u \in Tasks \ {t} : pending'[u] = pending[u] /\ pending[u].kind # "insert"
  BY <1>1, <1>2, <1>3 DEF NoWrite, Typed, TaskShape
<1>8. /\ \A x \in Refs : alarms[x].id # None => alarms[x].id \in RowIds /\ alarms[x].id <= lastId
      /\ \A x \in Refs : alarms[x].id # k
      /\ \A u \in Tasks : pending[u].kind = "update" /\ pending[u].id # None =>
             pending[u].id \in RowIds /\ pending[u].id <= lastId /\ pending[u].id # k
  <2>1. \A x \in Refs : alarms[x].id \in RowIds \cup {None}
    BY <1>2 DEF Alarm
  <2>2. \A u \in Tasks : pending[u].id \in RowIds \cup {None}
    BY <1>2 DEF Write
  <2>3. \A x \in Refs : alarms[x].id # None => alarms[x].id <= lastId
    BY DEF Owned
  <2>4. \A u \in Tasks : pending[u].kind = "update" /\ pending[u].id # None => pending[u].id <= lastId
    BY DEF Owned
  <2>5. \A n \in RowIds : n <= lastId => n # k
    BY <1>2 DEF RowIds
  <2>6. QED BY <1>4, <2>1, <2>2, <2>3, <2>4, <2>5
<1>9. \A n \in RowIds : n <= lastId => n <= lastId'
  BY <1>1, <1>2 DEF RowIds
<1>10. /\ alarms[r].sensor # 0 /\ rows'[k].sensor = alarms[r].sensor
       /\ Over => rows'[k].state # "CLEARED"
  BY <1>1, <1>5 DEF Owned, Over
<1>11. Owned'
  <2>1. \A x \in Refs : alarms'[x].sensor = 0 => alarms'[x].id = None /\ alarms'[x].state = "CLEARED"
    BY <1>6, <1>10 DEF Owned
  <2>2. \A s \in Sensors : active'[s] # None => alarms'[active'[s]].sensor = s
    BY <1>1, <1>2, <1>6 DEF Owned
  <2>3. \A n \in RowIds : n > lastId' => rows'[n].sensor = 0
    <3>1. \A n \in RowIds : n > lastId' => n > lastId /\ n # k
      BY <1>1, <1>2 DEF RowIds
    <3>2. QED BY <1>5, <3>1 DEF Owned
  <2>4. \A x \in Refs : alarms'[x].id # None =>
           alarms'[x].id <= lastId' /\ rows'[alarms'[x].id].sensor = alarms'[x].sensor
    <3>1. alarms'[r].id <= lastId' /\ rows'[alarms'[r].id].sensor = alarms'[r].sensor
      BY <1>1, <1>2, <1>3, <1>6, <1>10
    <3>2. ASSUME NEW x \in Refs \ {r}, alarms[x].id # None
          PROVE  alarms[x].id <= lastId' /\ rows'[alarms[x].id].sensor = alarms[x].sensor
      <4>1. /\ alarms[x].id \in RowIds /\ alarms[x].id <= lastId /\ alarms[x].id # k
            /\ rows[alarms[x].id].sensor = alarms[x].sensor
        BY <1>8, <3>2 DEF Owned
      <4>2. QED BY <1>5, <1>9, <4>1
    <3>3. QED BY <1>6, <3>1, <3>2
  <2>5. \A x, q \in Refs : alarms'[x].id = alarms'[q].id => x = q \/ alarms'[x].id = None
    BY <1>6, <1>8 DEF Owned
  <2>6. \A u \in Tasks : pending'[u].kind = "update" /\ pending'[u].id # None =>
           pending'[u].id <= lastId' /\ rows'[pending'[u].id].sensor = pending'[u].row.sensor
    <3>1. ASSUME NEW u \in Tasks, pending'[u].kind = "update", pending'[u].id # None
          PROVE  pending'[u].id <= lastId' /\ rows'[pending'[u].id].sensor = pending'[u].row.sensor
      <4>1. pending'[u] = pending[u]
        BY <1>7, <3>1
      <4>2. /\ pending[u].id \in RowIds /\ pending[u].id <= lastId /\ pending[u].id # k
            /\ rows[pending[u].id].sensor = pending[u].row.sensor
        BY <1>8, <3>1, <4>1 DEF Owned
      <4>3. QED BY <1>5, <1>9, <4>1, <4>2
    <3>2. QED BY <3>1
  <2>7. \A u \in Tasks : pending'[u].kind # "insert"
    BY <1>7
  <2>8. QED BY <2>1, <2>2, <2>3, <2>4, <2>5, <2>6, <2>7 DEF Owned
<1>12. ASSUME Over PROVE Over'
  <2>1. ClearedRowIsOver'
    <3>1. ASSUME NEW x \in Refs \ {r}, alarms[x].id # None, rows'[alarms[x].id].state = "CLEARED"
          PROVE  alarms[x].state = "CLEARED"
      <4>1. alarms[x].id \in RowIds /\ alarms[x].id # k
        BY <1>8, <3>1
      <4>2. QED BY <1>12, <1>5, <3>1, <4>1 DEF Over, ClearedRowIsOver
    <3>2. QED BY <1>6, <1>10, <1>12, <3>1 DEF ClearedRowIsOver
  <2>2. \A u \in Tasks, x \in Refs :
           (/\ pending'[u].kind = "update" /\ pending'[u].row.state = "CLEARED"
            /\ pending'[u].id # None /\ alarms'[x].id = pending'[u].id)
           => alarms'[x].state = "CLEARED"
    BY <1>12, <1>6, <1>7, <1>8 DEF Over
  <2>3. \A u \in Tasks : pending'[u].kind # "insert"
    BY <1>7
  <2>4. QED BY <1>12, <2>1, <2>2, <2>3 DEF Over
<1>13. QED BY <1>11, <1>12

LEMMA CommitUpdateKeepsRows ==
    ASSUME Typed, Down, Owned, NEW t \in Tasks, CommitUpdate(t)
    PROVE  Owned' /\ (Over => Over')
<1>1. /\ pending[t].kind = "update" /\ alarms' = alarms /\ lastId' = lastId /\ active' = active
      /\ pending' = [pending EXCEPT ![t] = NoWrite]
      /\ rows' = IF pending[t].id = None THEN rows
                 ELSE [rows EXCEPT ![pending[t].id] =
                         [@ EXCEPT !.state = pending[t].row.state,
                                   !.acked = pending[t].row.acked,
                                   !.until = pending[t].row.until]]
  BY DEF CommitUpdate, Committed
<1>2. /\ rows \in [RowIds -> Row] /\ pending \in [Tasks -> Write]
      /\ alarms \in [Refs -> Alarm] /\ active \in [Sensors -> Refs \cup {None}]
  BY DEF Typed, TypeOK
<1>3. /\ pending'[t].kind = "none"
      /\ \A u \in Tasks \ {t} : pending'[u] = pending[u]
  BY <1>1, <1>2 DEF NoWrite
<1>4. /\ \A j \in RowIds : rows'[j].sensor = rows[j].sensor
      /\ \A j \in RowIds : j # pending[t].id => rows'[j] = rows[j]
      /\ pending[t].id # None => rows'[pending[t].id].state = pending[t].row.state
  <2>1. CASE pending[t].id = None
    BY <1>1, <2>1
  <2>2. CASE pending[t].id # None
    <3>1. pending[t].id \in RowIds
      BY <1>2, <2>2 DEF Write
    <3>2. rows[pending[t].id] \in Row
      BY <1>2, <3>1
    <3>3. rows' = [rows EXCEPT ![pending[t].id] =
                     [rows[pending[t].id] EXCEPT !.state = pending[t].row.state,
                                                 !.acked = pending[t].row.acked,
                                                 !.until = pending[t].row.until]]
      BY <1>1, <2>2
    <3>4. QED BY <1>2, <3>1, <3>2, <3>3 DEF Row
  <2>3. QED BY <2>1, <2>2
<1>5. /\ \A x \in Refs : alarms[x].id # None => alarms[x].id \in RowIds
      /\ \A u \in Tasks : pending[u].id # None => pending[u].id \in RowIds
  BY <1>2 DEF Alarm, Write
<1>6. \A u \in Tasks : pending'[u].kind = "insert" =>
          pending[u].kind = "insert" /\ pending'[u] = pending[u] /\ obj'[u] = obj[u]
  <2>1. obj' = obj \/ obj' = [obj EXCEPT ![t] = None]
    BY DEF CommitUpdate, Committed
  <2>2. obj \in [Tasks -> Refs \cup {None}]
    BY DEF Typed, TypeOK
  <2>3. QED BY <1>3, <2>1, <2>2
<1>7. Owned'
  <2>1. /\ \A x \in Refs : alarms'[x].sensor = 0 => alarms'[x].id = None /\ alarms'[x].state = "CLEARED"
        /\ \A s \in Sensors : active'[s] # None => alarms'[active'[s]].sensor = s
        /\ \A k \in RowIds : k > lastId' => rows'[k].sensor = 0
        /\ \A x \in Refs : alarms'[x].id # None =>
               alarms'[x].id <= lastId' /\ rows'[alarms'[x].id].sensor = alarms'[x].sensor
        /\ \A x, q \in Refs : alarms'[x].id = alarms'[q].id => x = q \/ alarms'[x].id = None
    BY <1>1, <1>4, <1>5 DEF Owned
  <2>2. \A u \in Tasks : pending'[u].kind = "update" /\ pending'[u].id # None =>
           pending'[u].id <= lastId' /\ rows'[pending'[u].id].sensor = pending'[u].row.sensor
    BY <1>1, <1>3, <1>4, <1>5 DEF Owned
  <2>3. \A u \in Tasks : pending'[u].kind = "insert" =>
           pending'[u].row.sensor # 0 /\ pending'[u].row.sensor = alarms'[obj'[u]].sensor
    BY <1>1, <1>6 DEF Owned
  <2>4. QED BY <2>1, <2>2, <2>3 DEF Owned
<1>8. ASSUME Over PROVE Over'
  <2>1. ClearedRowIsOver'
    BY <1>8, <1>1, <1>4, <1>5 DEF Over, ClearedRowIsOver
  <2>2. QED BY <1>8, <1>1, <1>3, <1>6, <2>1 DEF Over
<1>9. QED BY <1>7, <1>8

LEMMA DbErrorKeepsRows ==
    ASSUME Typed, Down, Owned, NEW t \in Tasks, DbError(t)
    PROVE  Owned' /\ (Over => Over')
<1>1. /\ alarms' = alarms /\ active' = active /\ rows' = rows /\ lastId' = lastId
      /\ pending' = [pending EXCEPT ![t] = NoWrite] /\ obj' = [obj EXCEPT ![t] = None]
  BY DEF DbError, memVars, dbVars
<1>2. pending \in [Tasks -> Write] /\ obj \in [Tasks -> Refs \cup {None}]
      /\ active \in [Sensors -> Refs \cup {None}]
  BY DEF Typed, TypeOK
<1>3. /\ pending'[t].kind = "none"
      /\ \A u \in Tasks \ {t} : pending'[u] = pending[u] /\ obj'[u] = obj[u]
  BY <1>1, <1>2 DEF NoWrite
<1>4. Owned'
  BY <1>1, <1>3 DEF Owned
<1>5. ASSUME Over PROVE Over'
  BY <1>5, <1>1, <1>3 DEF Over, ClearedRowIsOver
<1>6. QED BY <1>4, <1>5

LEMMA CrashKeepsRows ==
    ASSUME Typed, Down, Owned, Crash
    PROVE  Owned' /\ (Over => Over')
<1>1. /\ \A r \in Refs : alarms'[r] = FreeAlarm
      /\ \A s \in Sensors : active'[s] = None
      /\ \A t \in Tasks : pending'[t].kind = "none"
      /\ rows' = rows /\ lastId' = lastId
  BY DEF Crash, ClearTasks, NoWrite, dbVars
<1>2. FreeAlarm.sensor = 0 /\ FreeAlarm.id = None /\ FreeAlarm.state = "CLEARED"
  BY ConstantTypes DEF FreeAlarm, NewAlarm
<1>3. Owned'
  BY <1>1, <1>2 DEF Owned
<1>4. ASSUME Over PROVE Over'
  BY <1>4, <1>1, <1>2 DEF Over, ClearedRowIsOver
<1>5. QED BY <1>3, <1>4

\* The alarms of a restart carry the ids of the rows they are loaded from, which
\* are rows of different sensors.
LEMMA RestartKeepsRows ==
    ASSUME Typed, Down, Owned, Restart
    PROVE  Owned' /\ (Over => Over')
<1> DEFINE loaded == {s \in Sensors : OpenRows(s) # {}}
<1>1. PICK pick \in [Sensors -> RowIds] : Start(pick)
  BY DEF Restart
<1>2. /\ ~up /\ pending' = pending /\ rows' = rows /\ lastId' = lastId
      /\ \A s \in loaded : pick[s] \in LatestOpen(s)
      /\ active' = [s \in Sensors |-> IF s \in loaded THEN Place[s] ELSE None]
      /\ alarms' = [r \in Refs |->
                        IF \E s \in loaded : Place[s] = r
                        THEN Loaded(pick[CHOOSE s \in loaded : Place[s] = r])
                        ELSE FreeAlarm]
  BY <1>1 DEF Start, taskVars, dbVars
<1>3. \A t \in Tasks : pending'[t].kind = "none"
  <2>1. \A t \in Tasks : pc[t] = "idle"
    BY <1>2 DEF Down
  <2>2. QED BY <1>2, <2>1 DEF Typed, TaskShape
<1>4. /\ rows \in [RowIds -> Row] /\ lastId \in Nat
      /\ \A k \in RowIds : k > lastId => rows[k].sensor = 0
      /\ RowIds \subseteq Nat \ {0} /\ 0 \notin Sensors
  BY SensorsAssumption, BoundsAssumption DEF Owned, Typed, TypeOK, RowIds
<1>5. \A s \in loaded : /\ pick[s] \in RowIds /\ pick[s] <= lastId
                        /\ rows[pick[s]].sensor = s /\ rows[pick[s]].state # "CLEARED"
  <2>1. \A s \in loaded : pick[s] \in RowIds /\ rows[pick[s]].sensor = s /\ rows[pick[s]].state # "CLEARED"
    BY <1>2 DEF LatestOpen, OpenRows
  <2>2. \A s \in loaded : ~(pick[s] > lastId)
    BY <1>4, <2>1
  <2>3. ASSUME NEW s \in loaded PROVE pick[s] <= lastId
    <3>1. pick[s] \in Nat /\ lastId \in Nat
      BY <1>4, <2>1
    <3>2. ~(pick[s] > lastId)
      BY <2>2
    <3>3. QED BY <3>1, <3>2
  <2>4. QED BY <2>1, <2>3
<1>6. \A s \in loaded : Place[s] \in Refs /\ alarms'[Place[s]] = Loaded(pick[s])
  BY <1>2, PlaceFacts
<1>7. \A r \in Refs : \/ \E s \in loaded : r = Place[s] /\ alarms'[r] = Loaded(pick[s])
                     \/ alarms'[r] = FreeAlarm
  BY <1>2, <1>6
<1>8. \A s \in loaded : /\ Loaded(pick[s]).id = pick[s] /\ Loaded(pick[s]).id # None
                        /\ Loaded(pick[s]).sensor = s /\ Loaded(pick[s]).state # "CLEARED"
  BY <1>4, <1>5 DEF Loaded, None
<1>9. FreeAlarm.sensor = 0 /\ FreeAlarm.id = None /\ FreeAlarm.state = "CLEARED"
  BY ConstantTypes DEF FreeAlarm, NewAlarm
<1>10. Owned'
  <2>1. \A r \in Refs : alarms'[r].sensor = 0 => alarms'[r].id = None /\ alarms'[r].state = "CLEARED"
    BY <1>4, <1>7, <1>8, <1>9
  <2>2. \A s \in Sensors : active'[s] # None => alarms'[active'[s]].sensor = s
    BY <1>2, <1>6, <1>8
  <2>3. \A k \in RowIds : k > lastId' => rows'[k].sensor = 0
    BY <1>2, <1>4
  <2>4. \A r \in Refs : alarms'[r].id # None =>
            alarms'[r].id <= lastId' /\ rows'[alarms'[r].id].sensor = alarms'[r].sensor
    BY <1>2, <1>5, <1>7, <1>8, <1>9
  <2>5. \A r, q \in Refs : alarms'[r].id = alarms'[q].id => r = q \/ alarms'[r].id = None
    <3>1. \A s, x \in loaded : pick[s] = pick[x] => s = x
      BY <1>5
    <3>2. QED BY <1>7, <1>8, <1>9, <3>1
  <2>6. QED BY <1>3, <2>1, <2>2, <2>3, <2>4, <2>5 DEF Owned
<1>11. ASSUME Over PROVE Over'
  <2>1. ClearedRowIsOver'
    BY <1>2, <1>5, <1>7, <1>8, <1>9 DEF ClearedRowIsOver
  <2>2. QED BY <1>11, <1>3, <2>1 DEF Over
<1>12. QED BY <1>10, <1>11

LEMMA IInvStep == IInv /\ [Next]_vars => IInv'
<1> SUFFICES ASSUME IInv, [Next]_vars PROVE IInv'
  OBVIOUS
<1>1. Typed' /\ Down'
  BY TypedStep, DownStep DEF IInv
<1>2. Owned' /\ Over'
  BY <1>1, StepShape, QuietKeepsRows, WritingKeepsRows, InsertingKeepsRows, CommitInsertKeepsRows,
     CommitUpdateKeepsRows, DbErrorKeepsRows, CrashKeepsRows, RestartKeepsRows DEF IInv
<1>3. QED BY <1>1, <1>2 DEF IInv

LEMMA Invariant == Spec => []IInv
<1>1. Init => IInv
  BY InitIInv
<1>2. IInv /\ [Next]_vars => IInv'
  BY IInvStep
<1>3. QED BY <1>1, <1>2, PTL DEF Spec

\* No alarm ever writes into the row of another: the WHERE id of update_alarm is
\* always a row of the alarm's own sensor, and no two alarms share one.
THEOREM RowsStayOwned == Spec => []RowsAreOwned
<1>1. IInv => RowsAreOwned
  BY DEF IInv, Owned, RowsAreOwned
<1>2. QED BY <1>1, Invariant, PTL

\* However the statements in flight are reordered, a row that says CLEARED never
\* stands for an alarm the engine still holds: a restart loses none of those.
THEOREM RestartLosesNoAlarm == Spec => []ClearedRowIsOver
<1>1. IInv => ClearedRowIsOver
  BY DEF IInv, Over
<1>2. QED BY <1>1, Invariant, PTL

\* An alarm object that is over stays over, whoever still holds it.
THEOREM OverStaysOver == Spec => ClearedIsFinal
<1> DEFINE Final == \A r \in Refs : alarms[r].sensor # 0 /\ alarms[r].state = "CLEARED" /\ up'
                                     => alarms'[r].state = "CLEARED"
<1>1. IInv /\ [Next]_vars => [Final]_vars
  <2> SUFFICES ASSUME IInv, [Next]_vars PROVE Final
    OBVIOUS
  <2>1. Typed /\ Down /\ alarms \in [Refs -> Alarm]
    BY DEF IInv, Typed, TypeOK
  <2>2. CASE Quiet \/ Writing
    BY <2>2 DEF Quiet, Writing, Keeps
  <2>3. CASE Inserting
    <3>1. PICK s \in Sensors, r \in Refs, b \in Alarm :
            /\ alarms' = [alarms EXCEPT ![r] = b]
            /\ alarms[r].state # "CLEARED" \/ alarms[r].sensor = 0
      BY <2>3 DEF Inserting
    <3>2. QED BY <2>1, <3>1
  <2>4. ASSUME NEW t \in Tasks, CommitInsert(t) PROVE Final
    <3>1. obj[t] \in Refs /\ alarms' = [alarms EXCEPT ![obj[t]].id = lastId + 1]
      BY <2>1, <2>4, PendingFacts DEF CommitInsert
    <3>2. \A r \in Refs : alarms'[r].state = alarms[r].state
      BY <2>1, <3>1 DEF Alarm
    <3>3. QED BY <3>2
  <2>5. ASSUME NEW t \in Tasks, CommitUpdate(t) \/ DbError(t) PROVE Final
    BY <2>5 DEF CommitUpdate, DbError, memVars
  <2>6. CASE Crash
    BY <2>6 DEF Crash
  <2>7. CASE Restart
    BY <2>1, <2>7 DEF Restart, Start, Down
  <2>8. QED BY <2>1, <2>2, <2>3, <2>4, <2>5, <2>6, <2>7, StepShape
<1>2. QED BY <1>1, Invariant, PTL DEF Spec, ClearedIsFinal

-----------------------------------------------------------------------------
(* While nothing has failed: every live alarm is recorded.                 *)

\* The faults are counted and never forgotten, and they alone stop the process.
NeverDown == FaultFree => up

Recorded == NeverDown /\ LiveIsRecorded

LEMMA FaultsCount ==
    ASSUME Typed, [Next]_vars, FaultFree'
    PROVE  /\ FaultFree
           /\ ~Crash /\ ~\E t \in Tasks : DbError(t)
<1>1. dbErrors \in Nat /\ restarts \in Nat
  BY BoundsAssumption DEF Typed, TypeOK
<1>2. ~Crash
  BY <1>1 DEF Crash, FaultFree
<1>3. ~\E t \in Tasks : DbError(t)
  BY <1>1 DEF DbError, FaultFree
<1>4. dbErrors' = dbErrors /\ restarts' = restarts
  <2>1. CASE UNCHANGED vars
    BY <2>1 DEF vars, envVars
  <2>2. CASE \E s \in Sensors, v \in Values, p \in Priorities : ReceiveSignal(s, v, p)
    BY <2>2 DEF ReceiveSignal, envVars
  <2>3. CASE SignalStep
    BY <2>3 DEF SignalStep, StillAlarming, IgnoreReading, RaiseAlarm, ReturnToNormal, NothingToClear,
         SuppressOnArrival, AfterRaise, AfterClear, AfterEffect, AfterLastAwait, WriteEffect,
         Publish, EndOfSignal, envVars
  <2>4. CASE MonitorStep \/ StaleStep
    BY <2>4 DEF MonitorStep, StaleStep, QueryExpired, UnshelveExpired, SkipExpired, EndOfPass,
         CollectStale, ClearStale, envVars
  <2>5. CASE OperatorStep
    BY <2>5 DEF OperatorStep, AcknowledgeAlarm, ShelveAlarm, envVars
  <2>6. CASE \E t \in Tasks : CommitInsert(t) \/ CommitUpdate(t)
    BY <2>6 DEF CommitInsert, CommitUpdate, Committed, envVars
  <2>7. CASE Tick \/ Restart
    BY <2>7 DEF Tick, Restart, Start
  <2>8. QED BY <1>2, <1>3, <2>1, <2>2, <2>3, <2>4, <2>5, <2>6, <2>7 DEF Next
<1>5. QED BY <1>2, <1>3, <1>4 DEF FaultFree

\* What an alarm needs to count as recorded; and the part of it a step can change.
InFlight(r) == pc["sig"] = "db" /\ obj["sig"] = r /\ pending["sig"].kind = "insert"

LEMMA NeverDownStep ==
    ASSUME Typed, NeverDown, [Next]_vars
    PROVE  NeverDown'
<1> SUFFICES ASSUME FaultFree' PROVE up'
  BY DEF NeverDown
<1>1. up /\ ~Restart /\ ~Crash /\ ~\E t \in Tasks : DbError(t)
  BY FaultsCount DEF NeverDown, Restart, Start
<1>2. QED
  BY <1>1, StepShape DEF Quiet, Writing, Inserting, CommitInsert, CommitUpdate, Committed, envVars

LEMMA RecordedStep ==
    ASSUME IInv, Recorded, [Next]_vars
    PROVE  Recorded'
<1> SUFFICES ASSUME FaultFree'
             PROVE  up' /\ \A s \in Sensors : Live(s)' => alarms'[active'[s]].id # None
                                                         \/ InFlight(active[s])'
  BY DEF Recorded, NeverDown, LiveIsRecorded, InFlight
<1> USE TasksFacts
<1>1. FaultFree /\ up /\ ~Restart /\ ~Crash /\ ~\E t \in Tasks : DbError(t)
  BY FaultsCount DEF IInv, Recorded, NeverDown, Restart, Start
<1>2. \A s \in Sensors : Live(s) => alarms[active[s]].id # None \/ InFlight(active[s])
  BY <1>1 DEF Recorded, LiveIsRecorded, InFlight
<1>3. /\ alarms \in [Refs -> Alarm] /\ active \in [Sensors -> Refs \cup {None}]
      /\ pending \in [Tasks -> Write] /\ obj \in [Tasks -> Refs \cup {None}]
      /\ pc \in [Tasks -> {"idle", "run", "db", "logged"}]
      /\ \A t \in Tasks : pc[t] = "db" <=> pending[t].kind # "none"
      /\ None \notin Refs
  BY ConstantTypes DEF IInv, Typed, TypeOK, TaskShape
<1>4. pc'["sig"] = "db" <=> pending'["sig"].kind # "none"
  BY TypedStep DEF IInv, Typed, TaskShape
<1>5. ASSUME Keeps, active' = active, pending'["sig"] = pending["sig"],
             pending["sig"].kind # "none" => obj'["sig"] = obj["sig"]
      PROVE  \A s \in Sensors : Live(s)' => alarms'[active'[s]].id # None \/ InFlight(active[s])'
  BY <1>2, <1>3, <1>4, <1>5 DEF Keeps, Live, InFlight
<1>6. CASE Quiet
  BY <1>1, <1>3, <1>5, <1>6 DEF Quiet
<1>7. CASE Writing
  <2>1. PICK t \in Tasks, r \in Refs :
          /\ Keeps /\ pc[t] # "db"
          /\ pending' = [pending EXCEPT ![t] = UpdateOf(alarms'[r])]
          /\ \A u \in Tasks \ {t} : obj'[u] = obj[u]
          /\ UNCHANGED <<active, rows, lastId, up>>
    BY <1>7 DEF Writing
  <2>2. CASE t = "sig"
    <3>1. \A s \in Sensors : Live(s) => alarms[active[s]].id # None
      BY <1>2, <2>1, <2>2 DEF InFlight
    <3>2. QED BY <1>1, <1>3, <2>1, <3>1 DEF Keeps, Live
  <2>3. CASE t # "sig"
    <3>1. pending'["sig"] = pending["sig"] /\ obj'["sig"] = obj["sig"]
      BY <1>3, <2>1, <2>3
    <3>2. QED BY <1>1, <1>5, <2>1, <3>1
  <2>4. QED BY <2>2, <2>3
<1>8. CASE Inserting
  <2>1. PICK s \in Sensors, r \in Refs, b \in Alarm :
          /\ alarms' = [alarms EXCEPT ![r] = b]
          /\ active' = [active EXCEPT ![s] = r]
          /\ pending' = [pending EXCEPT !["sig"] = InsertOf(b)]
          /\ obj' = [obj EXCEPT !["sig"] = r]
          /\ b.state \in {"ACTIVE", "SUPPRESSED"}
          /\ \/ /\ r = active[s] /\ alarms[r].state # "CLEARED"
                /\ b.sensor = alarms[r].sensor /\ b.id = alarms[r].id
             \/ alarms[r].sensor = 0 /\ b.sensor = s /\ b.id = None
          /\ pc["sig"] = "run"
          /\ UNCHANGED <<rows, lastId, up>>
    BY <1>8 DEF Inserting
  <2>2. \A q \in Sensors : Live(q) => alarms[active[q]].id # None
    BY <1>2, <2>1 DEF InFlight
  <2>3. InFlight(active[s])'
    BY <1>3, <1>4, <2>1 DEF InFlight, InsertOf
  <2>4. \A q \in Sensors \ {s} : active[q] = None \/ active[q] # r
    BY <1>3, <2>1, SensorsAssumption DEF IInv, Owned
  <2>5. \A q \in Sensors \ {s} : active'[q] = active[q]
                                /\ (active[q] # None => alarms'[active[q]] = alarms[active[q]])
    BY <1>3, <2>1, <2>4
  <2>6. ASSUME NEW q \in Sensors, Live(q)'
        PROVE  alarms'[active'[q]].id # None \/ InFlight(active[q])'
    <3>1. CASE q = s
      BY <2>3, <3>1
    <3>2. CASE q # s
      BY <2>2, <2>5, <2>6, <3>2 DEF Live
    <3>3. QED BY <3>1, <3>2
  <2>7. QED BY <1>1, <2>1, <2>6
<1>9. ASSUME NEW t \in Tasks, CommitInsert(t)
      PROVE  up' /\ \A s \in Sensors : Live(s)' => alarms'[active'[s]].id # None
  <2>1. /\ t = "sig" /\ obj[t] \in Refs
        /\ alarms' = [alarms EXCEPT ![obj[t]].id = lastId + 1]
        /\ active' = active /\ up' = up
    BY <1>9, PendingFacts DEF CommitInsert, Committed, IInv, Typed, TaskShape, envVars
  <2>2. lastId + 1 # None
    BY BoundsAssumption DEF IInv, Typed, TypeOK, None
  <2>3. /\ alarms'[obj[t]].id = lastId + 1
        /\ \A r \in Refs \ {obj[t]} : alarms'[r] = alarms[r]
        /\ \A r \in Refs : alarms'[r].state = alarms[r].state
    BY <1>3, <2>1 DEF Alarm
  <2>4. QED BY <1>1, <1>2, <1>3, <2>1, <2>2, <2>3 DEF Live, InFlight
<1>10. ASSUME NEW t \in Tasks, CommitUpdate(t)
       PROVE  up' /\ \A s \in Sensors : Live(s)' => alarms'[active'[s]].id # None
                                                   \/ InFlight(active[s])'
  <2>1. /\ pending[t].kind = "update" /\ alarms' = alarms /\ active' = active /\ up' = up
        /\ pending' = [pending EXCEPT ![t] = NoWrite]
        /\ obj' = IF t \in Operators THEN [obj EXCEPT ![t] = None] ELSE obj
    BY <1>10 DEF CommitUpdate, Committed, envVars
  <2>2. CASE t = "sig"
    <3>1. \A s \in Sensors : Live(s) => alarms[active[s]].id # None
      BY <1>2, <2>1, <2>2 DEF InFlight
    <3>2. QED BY <1>1, <2>1, <3>1 DEF Live
  <2>3. CASE t # "sig"
    <3>1. pending'["sig"] = pending["sig"] /\ obj'["sig"] = obj["sig"]
      BY <1>3, <2>1, <2>3
    <3>2. QED BY <1>1, <1>5, <2>1, <3>1 DEF Keeps
  <2>4. QED BY <2>2, <2>3
<1>11. QED BY <1>1, <1>6, <1>7, <1>8, <1>9, <1>10, StepShape DEF IInv

\* No alarm lives in memory only: while nothing has failed, every live alarm has its
\* row or the INSERT of it is in flight, whatever operators and monitors do while
\* insert_alarm is awaited.
THEOREM LiveAlarmsAreRecorded == Spec => []LiveIsRecorded
<1>1. Init => Recorded
  BY DEF Init, Recorded, NeverDown, LiveIsRecorded, Live
<1>2. IInv /\ Recorded /\ [Next]_vars => Recorded'
  BY RecordedStep
<1>3. Recorded => LiveIsRecorded
  BY DEF Recorded
<1>4. QED BY <1>1, <1>2, <1>3, Invariant, PTL DEF Spec

-----------------------------------------------------------------------------
(* While nothing has failed: the suppression of a cascade is complete.     *)

\* The states an effect may not be in while a cause of it is in alarm.
Standing == Alarming \cup {"RTN_UNACK"}

\* Most steps put no alarm into alarm and bring none back (Fading), and leave the
\* raise that is being carried through as it is.
Fading ==
    \A r \in Refs : /\ alarms'[r].state \in Alarming => alarms[r].state \in Alarming
                    /\ alarms'[r].state \in Standing => alarms[r].state \in Standing

Calm ==
    /\ active' = active
    /\ Fading
    /\ \A c \in Sensors : Raising(c) => Raising(c)'

\* The transitions of an alarm other than its raise.
LEMMA CalmTransition ==
    ASSUME NEW a \in Alarm, NEW n \in Nat,
           NEW b \in {Acknowledge(a), ClearCondition(a, n), Shelve(a, n), Unshelve(a), Suppress(a, n),
                      Unsuppress(a), [a EXCEPT !.seen = n], [a EXCEPT !.state = "CLEARED"]}
    PROVE  /\ b.state \in Alarming => a.state \in Alarming
           /\ b.state \in Standing => a.state \in Standing
<1>1. CASE b \in {Acknowledge(a), ClearCondition(a, n)}
  BY <1>1 DEF Acknowledge, ClearCondition, Alarm, AlarmState, Alarming, Standing
<1>2. CASE b \in {Shelve(a, n), Unshelve(a)}
  BY <1>2 DEF Shelve, Unshelve, Alarm, AlarmState, Alarming, Standing
<1>3. CASE b \in {Suppress(a, n), Unsuppress(a)}
  BY <1>3 DEF Suppress, Unsuppress, Alarm, AlarmState, Alarming, Standing
<1>4. CASE b \in {[a EXCEPT !.seen = n], [a EXCEPT !.state = "CLEARED"]}
  BY <1>4 DEF Alarm, AlarmState, Alarming, Standing
<1>5. QED BY <1>1, <1>2, <1>3, <1>4

LEMMA CalmOne ==
    ASSUME Typed, NEW r \in Refs, NEW n \in Nat,
           NEW b \in {Acknowledge(alarms[r]), ClearCondition(alarms[r], n), Shelve(alarms[r], n),
                      Unshelve(alarms[r]), Suppress(alarms[r], n), Unsuppress(alarms[r]),
                      [alarms[r] EXCEPT !.seen = n], [alarms[r] EXCEPT !.state = "CLEARED"]},
           alarms' = [alarms EXCEPT ![r] = b], active' = active,
           \A c \in Sensors : Raising(c) => Raising(c)'
    PROVE  Calm
<1>1. alarms \in [Refs -> Alarm] /\ alarms[r] \in Alarm
  BY DEF Typed, TypeOK
<1>2. /\ b.state \in Alarming => alarms[r].state \in Alarming
      /\ b.state \in Standing => alarms[r].state \in Standing
  BY <1>1, CalmTransition
<1>3. QED BY <1>1, <1>2 DEF Calm, Fading

\* The steps of the subscriber before its first await and between the others.
LEMMA SignalCalm ==
    ASSUME Typed,
           \/ StillAlarming \/ IgnoreReading \/ ReturnToNormal \/ NothingToClear \/ AfterClear
           \/ \E r \in Refs : WriteEffect(r)
    PROVE  Calm
<1> USE TasksFacts
<1> /\ alarms \in [Refs -> Alarm] /\ active \in [Sensors -> Refs \cup {None}] /\ signal \in Signal
    /\ signal.at \in Nat /\ (pc["sig"] = "run" => signal.sensor \in Sensors)
  BY DEF Typed, TypeOK, TaskShape, Signal
<1>1. CASE StillAlarming
  <2> DEFINE r == active[signal.sensor]
  <2>1. /\ r \in Refs /\ alarms' = [alarms EXCEPT ![r] = [alarms[r] EXCEPT !.seen = signal.at]]
        /\ active' = active /\ pc["sig"] = "run"
    BY <1>1 DEF StillAlarming, Evaluating, Live
  <2>2. QED BY <2>1, CalmOne DEF Raising
<1>2. CASE IgnoreReading
  <2> DEFINE r == active[signal.sensor]
  <2>1. /\ r \in Refs /\ alarms' = [alarms EXCEPT ![r] = Raised(signal.sensor)]
        /\ Live(signal.sensor) /\ alarms[r].state \in {"SHELVED", "SUPPRESSED"}
        /\ active' = active /\ pc["sig"] = "run"
    BY <1>2 DEF IgnoreReading, Evaluating, Live
  <2>2. Raised(signal.sensor) = [alarms[r] EXCEPT !.seen = signal.at]
    BY <2>1 DEF Raised, Raise
  <2>3. QED BY <2>1, <2>2, CalmOne DEF Raising
<1>3. CASE ReturnToNormal
  <2> DEFINE r == active[signal.sensor]
  <2>1. /\ r \in Refs /\ alarms' = [alarms EXCEPT ![r] = ClearCondition(alarms[r], signal.at)]
        /\ active' = active /\ pc["sig"] = "run"
    BY <1>3 DEF ReturnToNormal, Evaluating
  <2>2. QED BY <2>1, CalmOne DEF Raising
<1>4. CASE NothingToClear
  <2> DEFINE r == active[signal.sensor]
  <2>1. active' = active /\ pc["sig"] = "run"
    BY <1>4 DEF NothingToClear, Evaluating
  <2>2. CASE alarms' = alarms
    BY <2>1, <2>2 DEF Calm, Fading, Raising
  <2>3. CASE r \in Refs /\ alarms' = [alarms EXCEPT ![r] = [alarms[r] EXCEPT !.seen = signal.at]]
    BY <2>1, <2>3, CalmOne DEF Raising
  <2>4. QED BY <1>4, <2>1, <2>2, <2>3 DEF NothingToClear
<1>5. CASE AfterClear
  <2>1. /\ active' = active /\ signal.then = "cleared"
        /\ \A x \in Refs : alarms'[x] \in {alarms[x], Unsuppress(alarms[x])}
    BY <1>5 DEF AfterClear, Resume
  <2>2. \A x \in Refs : /\ Unsuppress(alarms[x]).state \in Alarming => alarms[x].state \in Alarming
                        /\ Unsuppress(alarms[x]).state \in Standing => alarms[x].state \in Standing
    BY CalmTransition
  <2>3. QED BY <2>1, <2>2 DEF Calm, Fading, Raising
<1>6. ASSUME NEW r \in Refs, WriteEffect(r) PROVE Calm
  BY <1>6 DEF WriteEffect, Calm, Fading, Raising
<1>7. QED BY <1>1, <1>2, <1>3, <1>4, <1>5, <1>6

LEMMA IdleCalm ==
    ASSUME Typed, IdleStep
    PROVE  Calm
<1> USE TasksFacts
<1> pc \in [Tasks -> {"idle", "run", "db", "logged"}] /\ obj \in [Tasks -> Refs \cup {None}]
  BY DEF Typed, TypeOK
<1>1. alarms' = alarms /\ active' = active
  <2>1. CASE \E s \in Sensors, v \in Values, p \in Priorities : ReceiveSignal(s, v, p)
    BY <2>1 DEF ReceiveSignal
  <2>2. CASE AfterEffect \/ AfterLastAwait \/ Publish \/ EndOfSignal
    BY <2>2 DEF AfterEffect, AfterLastAwait, Publish, EndOfSignal, memVars
  <2>3. CASE \/ QueryExpired \/ \E s \in Sensors : SkipExpired(s)
             \/ EndOfPass("mon") \/ EndOfPass("stale") \/ CollectStale \/ Tick
    BY <2>3 DEF QueryExpired, SkipExpired, EndOfPass, CollectStale, Tick, memVars
  <2>4. QED BY <2>1, <2>2, <2>3 DEF IdleStep
<1>2. ASSUME NEW c \in Sensors, Raising(c) PROVE Raising(c)'
  <2>1. CASE \E s \in Sensors, v \in Values, p \in Priorities : ReceiveSignal(s, v, p)
    BY <1>2, <2>1 DEF ReceiveSignal, Raising
  <2>2. CASE AfterEffect \/ AfterLastAwait \/ Publish \/ EndOfSignal
    BY <1>2, <2>2 DEF AfterEffect, AfterLastAwait, Resume, Publish, EndOfSignal, Raising
  <2>3. CASE \/ QueryExpired \/ \E s \in Sensors : SkipExpired(s)
             \/ EndOfPass("mon") \/ EndOfPass("stale") \/ CollectStale \/ Tick
    BY <1>1, <1>2, <2>3 DEF QueryExpired, SkipExpired, EndOfPass, CollectStale, Tick, taskVars, Raising
  <2>4. QED BY <2>1, <2>2, <2>3 DEF IdleStep
<1>3. QED BY <1>1, <1>2 DEF Calm, Fading

\* What operators, monitors and the database do while a raise is carried through.
LEMMA OthersCalm ==
    ASSUME Typed, OtherWrite \/ \E t \in Tasks : CommitInsert(t) \/ CommitUpdate(t)
    PROVE  Calm
<1> USE TasksFacts
<1> /\ alarms \in [Refs -> Alarm] /\ active \in [Sensors -> Refs \cup {None}] /\ now \in Nat
    /\ pc \in [Tasks -> {"idle", "run", "db", "logged"}] /\ obj \in [Tasks -> Refs \cup {None}]
  BY BoundsAssumption DEF Typed, TypeOK
<1>1. ASSUME NEW t \in Tasks \ {"sig"}, NEW r \in Refs, Issue(t, "update", r),
             active' = active, signal' = signal
      PROVE  \A c \in Sensors : Raising(c) => Raising(c)'
  BY <1>1 DEF Issue, Raising
<1>2. ASSUME NEW op \in Operators, NEW s \in Sensors, AcknowledgeAlarm(op, s) PROVE Calm
  <2> DEFINE r == active[s]
  <2>1. /\ r \in Refs /\ alarms' = [alarms EXCEPT ![r] = Acknowledge(alarms[r])]
        /\ Issue(op, "update", r) /\ active' = active /\ signal' = signal
    BY <1>2 DEF AcknowledgeAlarm, OperatorMayAct
  <2>2. \A c \in Sensors : Raising(c) => Raising(c)'
    BY <1>1, <2>1
  <2>3. QED BY <2>1, <2>2, CalmOne
<1>3. ASSUME NEW op \in Operators, NEW s \in Sensors, NEW d \in ShelveFor, ShelveAlarm(op, s, d)
      PROVE  Calm
  <2> DEFINE r == active[s]
  <2> DEFINE until == now + (IF d > MaxShelve THEN MaxShelve ELSE d)
  <2>1. /\ r \in Refs /\ alarms' = [alarms EXCEPT ![r] = Shelve(alarms[r], until)]
        /\ Issue(op, "update", r) /\ active' = active /\ signal' = signal
    BY <1>3 DEF ShelveAlarm, OperatorMayAct
  <2>2. until \in Nat
    BY TimingAssumption
  <2>3. \A c \in Sensors : Raising(c) => Raising(c)'
    BY <1>1, <2>1
  <2> HIDE DEF until
  <2>4. QED BY <2>1, <2>2, <2>3, CalmOne
<1>4. ASSUME NEW s \in Sensors, UnshelveExpired(s) PROVE Calm
  <2> DEFINE r == active[s]
  <2>1. /\ r \in Refs /\ alarms' = [alarms EXCEPT ![r] = Unshelve(alarms[r])]
        /\ Issue("mon", "update", r) /\ active' = active /\ signal' = signal
    BY <1>4 DEF UnshelveExpired
  <2>2. \A c \in Sensors : Raising(c) => Raising(c)'
    BY <1>1, <2>1
  <2>3. QED BY <2>1, <2>2, CalmOne
<1>5. ASSUME NEW r \in Refs, ClearStale(r) PROVE Calm
  <2>1. /\ alarms' = [alarms EXCEPT ![r] = [alarms[r] EXCEPT !.state = "CLEARED"]]
        /\ Issue("stale", "update", r) /\ active' = active /\ signal' = signal
    BY <1>5 DEF ClearStale
  <2>2. \A c \in Sensors : Raising(c) => Raising(c)'
    BY <1>1, <2>1
  <2>3. QED BY <2>1, <2>2, CalmOne
<1>6. ASSUME NEW t \in Tasks, CommitInsert(t) \/ CommitUpdate(t) PROVE Calm
  <2>1. /\ Committed(t) /\ active' = active /\ signal' = signal /\ pc[t] = "db"
        /\ pc' = [pc EXCEPT ![t] = AfterCommit(t)]
        /\ obj' = IF t \in Operators THEN [obj EXCEPT ![t] = None] ELSE obj
    BY <1>6 DEF CommitInsert, CommitUpdate, Committed
  <2>2. \A x \in Refs : alarms'[x].state = alarms[x].state
    <3>1. CASE CommitUpdate(t)
      BY <3>1 DEF CommitUpdate
    <3>2. CASE CommitInsert(t)
      <4>1. alarms' = [alarms EXCEPT ![obj[t]].id = lastId + 1]
        BY <3>2 DEF CommitInsert
      <4>2. QED BY <4>1 DEF Alarm
    <3>3. QED BY <1>6, <3>1, <3>2
  <2>3. \A c \in Sensors : Raising(c) => Raising(c)'
    BY <2>1 DEF Raising, AfterCommit
  <2>4. QED BY <2>1, <2>2, <2>3 DEF Calm, Fading
<1>7. QED BY <1>2, <1>3, <1>4, <1>5, <1>6 DEF OtherWrite, OperatorStep

\* Effects of a cause in alarm do not stand, but during its raise.
Suppressing ==
    \A c, e \in Sensors :
        (/\ <<c, e>> \in Cascade
         /\ active[c] # None /\ alarms[active[c]].state \in Alarming
         /\ ~Raising(c))
        => ~(active[e] # None /\ alarms[active[e]].state \in Standing)

LEMMA CalmKeepsSuppressing ==
    ASSUME Typed, Suppressing, Calm
    PROVE  Suppressing'
BY DEF Suppressing, Calm, Fading, Typed, TypeOK

\* An alarm that arrives is raised only when no cause of it is in alarm; as a cause it
\* is then in its raise.
LEMMA InsertKeepsSuppressing ==
    ASSUME Typed, Owned, Suppressing, InsertStep
    PROVE  Suppressing'
<1> USE TasksFacts
<1>0. PICK s \in Sensors, r \in Refs :
         s = signal.sensor /\ r = Subject(s) /\ Evaluating({"alarm"}) /\ RoomFor(s)
  BY RaisedFacts DEF InsertStep, RaiseAlarm, SuppressOnArrival
<1>1. /\ alarms \in [Refs -> Alarm] /\ active \in [Sensors -> Refs \cup {None}]
      /\ obj \in [Tasks -> Refs \cup {None}] /\ pc \in [Tasks -> {"idle", "run", "db", "logged"}]
      /\ signal \in Signal
  BY DEF Typed, TypeOK
<1>2. /\ pc["sig"] = "run"
      /\ active' = [active EXCEPT ![s] = r]
      /\ pc' = [pc EXCEPT !["sig"] = "db"] /\ obj' = [obj EXCEPT !["sig"] = r]
  BY <1>0 DEF InsertStep, RaiseAlarm, SuppressOnArrival, Issue, Evaluating
<1>3. PICK b : alarms' = [alarms EXCEPT ![r] = b]
               /\ \/ /\ ActiveCauses(s) = {} /\ b.state = "ACTIVE" /\ NextEvaluation("raised")
                  \/ b.state = "SUPPRESSED" /\ NextEvaluation("suppressed")
  <2>1. CASE RaiseAlarm
    <3>1. Live(s) => alarms[r].state = "RTN_UNACK"
      BY <1>0, <2>1 DEF RaiseAlarm, Subject
    <3>2. Raised(s).state = "ACTIVE"
      BY <1>0, <3>1, RaisedFacts
    <3>3. QED BY <1>0, <2>1, <3>2 DEF RaiseAlarm
  <2>2. ASSUME NEW c \in Sensors, SuppressOnArrival(c)
        PROVE  /\ alarms' = [alarms EXCEPT ![r] = Suppress(Raised(s), c)]
               /\ Suppress(Raised(s), c).state = "SUPPRESSED" /\ NextEvaluation("suppressed")
    <3>1. ~(Live(s) /\ alarms[active[s]].state \in Alarming) /\ c \in Nat
      BY <1>0, <2>2, SensorNat DEF SuppressOnArrival
    <3>2. Raised(s) \in Alarm /\ Raised(s).state # "CLEARED"
      BY <1>0, RaisedFacts
    <3>3. QED BY <1>0, <2>2, <3>1, <3>2, SuppressType DEF SuppressOnArrival
  <2>3. QED BY <2>1, <2>2 DEF InsertStep
<1>4. signal'.then \in {"raised", "suppressed"} /\ (b.state = "ACTIVE" => signal'.then = "raised")
  BY <1>3, SignalNext
<1>5. \A q \in Sensors \ {s} : /\ active'[q] = active[q]
                               /\ active[q] # None => alarms'[active[q]] = alarms[active[q]]
  <2>1. r = active[s] \/ alarms[r].sensor = 0
    BY <1>0, RaisedFacts
  <2>2. \A q \in Sensors \ {s} : active[q] = None \/ active[q] # r
    BY <1>0, <1>1, <2>1, SensorsAssumption DEF Owned
  <2>3. QED BY <1>0, <1>1, <1>2, <1>3, <2>2
<1>6. active'[s] = r /\ alarms'[r] = b
  BY <1>0, <1>1, <1>2, <1>3
<1>7. b.state = "ACTIVE" => Raising(s)'
  BY <1>1, <1>2, <1>4, <1>6 DEF Raising
<1>8. ASSUME NEW c \in Sensors, NEW e \in Sensors, <<c, e>> \in Cascade,
             active'[c] # None, alarms'[active'[c]].state \in Alarming, ~Raising(c)',
             active'[e] # None, alarms'[active'[e]].state \in Standing
      PROVE  FALSE
  <2>1. c # s
    BY <1>3, <1>6, <1>7, <1>8 DEF Alarming, Raising
  <2>2. active[c] # None /\ alarms[active[c]].state \in Alarming /\ ~Raising(c)
    BY <1>2, <1>5, <1>8, <2>1 DEF Raising
  <2>3. CASE e = s
    BY <1>3, <1>6, <1>8, <2>2, <2>3 DEF ActiveCauses, Standing, Alarming
  <2>4. CASE e # s
    BY <1>5, <1>8, <2>2, <2>4 DEF Suppressing
  <2>5. QED BY <2>3, <2>4
<1>9. QED BY <1>8 DEF Suppressing

\* The end of a raise suppresses every standing effect in one step.
LEMMA AfterRaiseFades ==
    ASSUME Typed, AfterRaise
    PROVE  Fading /\ \A x \in Effects(obj["sig"]) \cap Refs : alarms'[x].state \notin Standing
<1> DEFINE r == obj["sig"]
<1>1. alarms \in [Refs -> Alarm] /\ r \in Refs
  BY DEF AfterRaise, Resume, Typed, TypeOK, TaskShape
<1>2. alarms' = [x \in Refs |-> IF x \in Effects(r)
                                THEN Suppress(alarms[x], CauseId(alarms[r])) ELSE alarms[x]]
  BY DEF AfterRaise
<1>3. PICK n \in Nat : n = CauseId(alarms[r])
  BY <1>1, SensorNat DEF CauseId, Alarm, RowIds, None
<1>4. \A x \in Refs : /\ Suppress(alarms[x], n).state \in Alarming => alarms[x].state \in Alarming
                      /\ Suppress(alarms[x], n).state \in Standing => alarms[x].state \in Standing
  BY <1>1, CalmTransition
<1>5. \A x \in Refs : Suppress(alarms[x], n).state \in {"CLEARED", "SUPPRESSED"}
  BY <1>1, SuppressType
<1>6. QED BY <1>2, <1>3, <1>4, <1>5 DEF Fading, Standing, Alarming

LEMMA RaiseKeepsSuppressing ==
    ASSUME Typed, Owned, Suppressing, AfterRaise
    PROVE  Suppressing'
<1> DEFINE r == obj["sig"]
<1>1. /\ alarms \in [Refs -> Alarm] /\ active \in [Sensors -> Refs \cup {None}]
  BY DEF Typed, TypeOK
<1>2. pc["sig"] = "logged" /\ signal.then = "raised" /\ r \in Refs /\ active' = active
  BY DEF AfterRaise, Resume, Typed, TaskShape
<1>3. Fading /\ \A x \in Effects(r) \cap Refs : alarms'[x].state \notin Standing
  BY AfterRaiseFades
<1>4. ASSUME NEW c \in Sensors, NEW e \in Sensors, <<c, e>> \in Cascade,
             active[c] # None, alarms'[active[c]].state \in Alarming,
             active[e] # None, alarms'[active[e]].state \in Standing
      PROVE  FALSE
  <2>1. active[c] \in Refs /\ active[e] \in Refs
    BY <1>1, <1>4
  <2>2. alarms[active[c]].state \in Alarming /\ alarms[active[e]].state \in Standing
    BY <1>3, <1>4, <2>1 DEF Fading
  <2>3. CASE Raising(c)
    <3>1. alarms[r].sensor = c
      BY <1>4, <2>3 DEF Raising, Owned
    <3>2. active[e] \in Effects(r)
      BY <1>4, <2>2, <3>1 DEF Effects, Standing, Alarming
    <3>3. QED BY <1>3, <1>4, <2>1, <3>2
  <2>4. CASE ~Raising(c)
    BY <1>4, <2>2, <2>4 DEF Suppressing
  <2>5. QED BY <2>3, <2>4
<1>5. QED BY <1>2, <1>4 DEF Suppressing

LEMMA SuppressingStep ==
    ASSUME IInv, NeverDown, FaultFree => Suppressing, [Next]_vars, FaultFree'
    PROVE  Suppressing'
<1>1. Typed /\ Owned
  BY DEF IInv
<1>2. FaultFree /\ Suppressing /\ ~Restart /\ ~Crash /\ ~\E t \in Tasks : DbError(t)
  BY <1>1, FaultsCount DEF NeverDown, Restart, Start
<1>3. CASE UNCHANGED vars
  BY <1>2, <1>3 DEF vars, memVars, taskVars, Suppressing, Raising
<1>4. QED
  BY <1>1, <1>2, <1>3, SignalCalm, IdleCalm, OthersCalm, CalmKeepsSuppressing,
     InsertKeepsSuppressing, RaiseKeepsSuppressing
     DEF Next, SignalStep, MonitorStep, StaleStep, IdleStep, OtherWrite, InsertStep

\* While nothing has failed, no effect of a cause in alarm is active, acknowledged or
\* returned once the raise of the cause has been carried through: neither an
\* operator's call nor a monitor's pass nor the order of the commits brings one back.
THEOREM CascadeIsComplete == Spec => []SuppressionComplete
<1> DEFINE I == NeverDown /\ (FaultFree => Suppressing)
<1>1. Init => I
  BY DEF Init, NeverDown, Suppressing
<1>2. IInv /\ I /\ [Next]_vars => I'
  <2>1. IInv /\ NeverDown /\ [Next]_vars => NeverDown'
    BY NeverDownStep DEF IInv
  <2>2. QED BY <2>1, SuppressingStep
<1>3. I => SuppressionComplete
  BY DEF Suppressing, SuppressionComplete, Standing
<1>4. QED BY <1>1, <1>2, <1>3, Invariant, PTL DEF Spec

-----------------------------------------------------------------------------
(* The engine together with the requests of the REST API, which write into  *)
(* the rows behind its back: what the table says of an alarm may differ     *)
(* from its memory now, but every row is still owned.                       *)

Call == [id : RowIds \cup {None}, state : {"none", "ACKED", "CLEARED", "SHELVED"}, until : Nat]

CallsTyped ==
    /\ calls \in [Callers -> Call]
    /\ \A c \in Callers : calls[c] # NoCall => calls[c].id \in 1..lastId /\ calls[c].state # "none"

\* Somebody has written, or is about to write, into a row that its alarm is out of
\* alarm: the table, a statement of the engine in flight, or a request.
OutOfAlarm == {"RTN_UNACK", "CLEARED"}

Against(k) ==
    \/ rows[k].state \in OutOfAlarm
    \/ \E t \in Tasks : /\ pending[t].kind = "update" /\ pending[t].id = k
                        /\ pending[t].row.state \in OutOfAlarm
    \/ \E c \in Callers : calls[c].id = k /\ calls[c].state = "CLEARED"

Reraised(r) == pending["sig"].kind = "insert" /\ obj["sig"] = r

\* Nothing speaks against an alarm that is in alarm, unless it is being raised again
\* and so about to leave its row for a new one.
Vouched ==
    /\ \A r \in Refs : alarms[r].id # None /\ alarms[r].state \in Alarming =>
           ~Against(alarms[r].id) \/ Reraised(r)
    /\ \A t \in Tasks : pending[t].kind = "insert" => pending[t].row.state \notin OutOfAlarm

SysInv == Typed /\ Down /\ Owned /\ CallsTyped /\ NeverDown /\ (FaultFree => Vouched)

LEMMA OwnedStep ==
    ASSUME Typed, Down, Owned, [Next]_vars
    PROVE  Owned'
BY TypedStep, StepShape, QuietKeepsRows, WritingKeepsRows, InsertingKeepsRows, CommitInsertKeepsRows,
   CommitUpdateKeepsRows, DbErrorKeepsRows, CrashKeepsRows, RestartKeepsRows

\* Only an insert puts an alarm into alarm.
LEMMA FadingStep ==
    ASSUME Typed, [Next]_vars, ~InsertStep, ~Crash, ~Restart
    PROVE  Fading
<1>1. CASE UNCHANGED vars
  BY <1>1 DEF vars, memVars, Fading
<1>2. CASE \E t \in Tasks : DbError(t)
  BY <1>2 DEF DbError, memVars, Fading
<1>3. QED
  BY <1>1, <1>2, SignalCalm, IdleCalm, OthersCalm, AfterRaiseFades
     DEF Calm, Next, SignalStep, MonitorStep, StaleStep, IdleStep, OtherWrite, InsertStep

LEMMA QuietKeepsVouched ==
    ASSUME Typed, Vouched, Quiet, Fading, calls' = calls
    PROVE  Vouched'
<1>1. /\ \A r \in Refs : alarms'[r].id = alarms[r].id
      /\ pending' = pending /\ rows' = rows
      /\ pending["sig"].kind = "insert" => obj'["sig"] = obj["sig"]
  BY TasksFacts DEF Quiet, Keeps, Typed, TaskShape
<1>2. \A r \in Refs : alarms'[r].state \in Alarming => alarms[r].state \in Alarming
  BY DEF Fading
<1>3. QED BY <1>1, <1>2 DEF Vouched, Against, Reraised

LEMMA WritingKeepsVouched ==
    ASSUME Typed, Typed', Owned, Vouched, Writing, Fading, calls' = calls
    PROVE  Vouched'
<1>1. PICK t \in Tasks, q \in Refs :
        /\ Keeps /\ pc[t] # "db"
        /\ pending' = [pending EXCEPT ![t] = UpdateOf(alarms'[q])]
        /\ \A u \in Tasks \ {t} : obj'[u] = obj[u]
        /\ UNCHANGED <<active, rows, lastId, up>>
  BY DEF Writing
<1>2. /\ pending \in [Tasks -> Write] /\ alarms' \in [Refs -> Alarm] /\ pending[t].kind = "none"
  BY <1>1 DEF Typed, TypeOK, TaskShape
<1>3. /\ pending'[t].kind = "update" /\ pending'[t].id = alarms[q].id
      /\ pending'[t].row.state = alarms'[q].state
      /\ \A u \in Tasks \ {t} : pending'[u] = pending[u]
  BY <1>1, <1>2, RowOfType DEF UpdateOf, Keeps
<1>4. \A r \in Refs : /\ alarms'[r].id = alarms[r].id
                      /\ alarms'[r].state \in Alarming => alarms[r].state \in Alarming
  BY <1>1 DEF Keeps, Fading
<1>5. ASSUME NEW r \in Refs, alarms'[r].id # None, alarms'[r].state \in Alarming
      PROVE  ~Against(alarms[r].id)' \/ Reraised(r)'
  <2>1. ~Against(alarms[r].id) \/ Reraised(r)
    BY <1>4, <1>5 DEF Vouched
  <2>2. CASE Reraised(r)
    BY <1>1, <1>2, <1>3, <2>2, TasksFacts DEF Reraised
  <2>3. CASE ~Against(alarms[r].id)
    <3>1. alarms[q].id = alarms[r].id => q = r
      BY <1>4, <1>5 DEF Owned
    <3>2. \A u \in Tasks : ~(/\ pending'[u].kind = "update" /\ pending'[u].id = alarms[r].id
                             /\ pending'[u].row.state \in OutOfAlarm)
      BY <1>3, <1>5, <2>3, <3>1 DEF Against, Alarming, OutOfAlarm
    <3>3. QED BY <1>1, <1>4, <2>3, <3>2 DEF Against
  <2>4. QED BY <2>1, <2>2, <2>3
<1>6. QED BY <1>3, <1>4, <1>5 DEF Vouched

LEMMA InsertingKeepsVouched ==
    ASSUME Typed, Vouched, Inserting, calls' = calls
    PROVE  Vouched'
<1>1. PICK s \in Sensors, r \in Refs, b \in Alarm :
        /\ alarms' = [alarms EXCEPT ![r] = b]
        /\ pending' = [pending EXCEPT !["sig"] = InsertOf(b)]
        /\ obj' = [obj EXCEPT !["sig"] = r]
        /\ b.state \in {"ACTIVE", "SUPPRESSED"}
        /\ pc["sig"] = "run" /\ rows' = rows
  BY DEF Inserting
<1>2. /\ pending \in [Tasks -> Write] /\ obj \in [Tasks -> Refs \cup {None}]
      /\ alarms \in [Refs -> Alarm] /\ pending["sig"].kind = "none"
  BY <1>1, TasksFacts DEF Typed, TypeOK, TaskShape
<1>3. /\ pending'["sig"].kind = "insert" /\ pending'["sig"].row.state = b.state /\ obj'["sig"] = r
      /\ \A u \in Tasks \ {"sig"} : pending'[u] = pending[u]
      /\ \A x \in Refs \ {r} : alarms'[x] = alarms[x]
  BY <1>1, <1>2, RowOfType, TasksFacts DEF InsertOf
<1>4. Reraised(r)'
  BY <1>3 DEF Reraised
<1>5. ASSUME NEW x \in Refs \ {r}, alarms'[x].id # None, alarms'[x].state \in Alarming
      PROVE  ~Against(alarms[x].id)'
  <2>1. ~Against(alarms[x].id)
    BY <1>2, <1>3, <1>5 DEF Vouched, Reraised
  <2>2. QED BY <1>1, <1>3, <1>5, <2>1 DEF Against
<1>6. ASSUME NEW u \in Tasks, pending'[u].kind = "insert" PROVE pending'[u].row.state \notin OutOfAlarm
  BY <1>1, <1>3, <1>6 DEF Vouched, OutOfAlarm
<1>7. QED BY <1>3, <1>4, <1>5, <1>6 DEF Vouched

\* The row of a raise is new: nobody has written into it yet.
LEMMA CommitInsertKeepsVouched ==
    ASSUME Typed, Owned, CallsTyped, Vouched, NEW t \in Tasks, CommitInsert(t), calls' = calls
    PROVE  Vouched'
<1>0. PICK k \in Nat, r \in Refs : k = lastId + 1 /\ r = obj[t]
  BY PendingFacts, BoundsAssumption DEF CommitInsert, Typed, TypeOK
<1>1. /\ pending[t].kind = "insert" /\ t = "sig" /\ pending[t].row \in Row
      /\ rows' = [rows EXCEPT ![k] = [pending[t].row EXCEPT !.acked = FALSE, !.until = None]]
      /\ alarms' = [alarms EXCEPT ![r].id = k]
      /\ pending' = [pending EXCEPT ![t] = NoWrite]
  BY <1>0, PendingFacts DEF CommitInsert, Committed, Typed, TaskShape
<1>2. /\ alarms \in [Refs -> Alarm] /\ rows \in [RowIds -> Row] /\ pending \in [Tasks -> Write]
      /\ lastId \in Nat /\ MaxRows \in Nat /\ lastId < MaxRows
  BY BoundsAssumption DEF CommitInsert, Typed, TypeOK
<1>3. k \in RowIds /\ k # None /\ k > lastId
  BY <1>0, <1>2 DEF RowIds, None
<1>4. /\ rows'[k].state = pending[t].row.state
      /\ \A j \in RowIds \ {k} : rows'[j] = rows[j]
  BY <1>1, <1>2, <1>3 DEF Row
<1>5. /\ alarms'[r].id = k
      /\ \A x \in Refs : alarms'[x].state = alarms[x].state
      /\ \A x \in Refs \ {r} : alarms'[x] = alarms[x]
  BY <1>1, <1>2, <1>3 DEF Alarm
<1>6. pending'[t].kind = "none" /\ \A u \in Tasks \ {t} : pending'[u] = pending[u]
  BY <1>1, <1>2 DEF NoWrite
<1>7. ~Against(k)'
  <2>1. rows'[k].state \notin OutOfAlarm
    BY <1>1, <1>4 DEF Vouched
  <2>2. \A u \in Tasks : pending[u].kind = "update" => pending[u].id # k
    <3>1. \A u \in Tasks : pending[u].kind = "update" /\ pending[u].id # None => pending[u].id <= lastId
      BY DEF Owned
    <3>2. QED BY <1>0, <1>2, <1>3, <3>1
  <2>3. \A c \in Callers : calls[c].state = "CLEARED" => calls[c].id # k
    <3>1. \A c \in Callers : calls[c].state = "CLEARED" => calls[c].id \in 1..lastId
      BY DEF CallsTyped, NoCall
    <3>2. QED BY <1>0, <1>2, <3>1
  <2>4. QED BY <1>6, <2>1, <2>2, <2>3 DEF Against
<1>8. ASSUME NEW x \in Refs \ {r}, alarms'[x].id # None, alarms'[x].state \in Alarming
      PROVE  ~Against(alarms[x].id)'
  <2>1. alarms[x].id # None /\ alarms[x].state \in Alarming
    BY <1>5, <1>8
  <2>2. ~Against(alarms[x].id)
    BY <1>0, <1>1, <2>1 DEF Vouched, Reraised
  <2>3. alarms[x].id \in RowIds /\ alarms[x].id # k
    <3>1. alarms[x].id \in RowIds /\ alarms[x].id <= lastId
      BY <1>2, <2>1 DEF Alarm, Owned
    <3>2. QED BY <1>0, <1>2, <3>1 DEF RowIds
  <2>4. rows'[alarms[x].id] = rows[alarms[x].id]
    BY <1>4, <2>3
  <2>5. QED BY <1>5, <1>6, <2>2, <2>4 DEF Against
<1>9. \A u \in Tasks : pending'[u].kind # "insert"
  BY <1>1, <1>6 DEF Typed, TaskShape
<1>10. QED BY <1>5, <1>7, <1>8, <1>9 DEF Vouched

LEMMA CommitUpdateKeepsVouched ==
    ASSUME Typed, Vouched, NEW t \in Tasks, CommitUpdate(t), calls' = calls
    PROVE  Vouched'
<1>1. /\ pending[t].kind = "update" /\ alarms' = alarms
      /\ pending' = [pending EXCEPT ![t] = NoWrite]
      /\ obj' = IF t \in Operators THEN [obj EXCEPT ![t] = None] ELSE obj
      /\ rows' = IF pending[t].id = None THEN rows
                 ELSE [rows EXCEPT ![pending[t].id] =
                         [@ EXCEPT !.state = pending[t].row.state,
                                   !.acked = pending[t].row.acked,
                                   !.until = pending[t].row.until]]
  BY DEF CommitUpdate, Committed
<1>2. /\ rows \in [RowIds -> Row] /\ pending \in [Tasks -> Write]
      /\ alarms \in [Refs -> Alarm] /\ obj \in [Tasks -> Refs \cup {None}]
  BY DEF Typed, TypeOK
<1>3. pending'[t].kind = "none" /\ \A u \in Tasks \ {t} : pending'[u] = pending[u]
  BY <1>1, <1>2 DEF NoWrite
<1>4. \A k \in RowIds : rows'[k].state = IF k = pending[t].id THEN pending[t].row.state ELSE rows[k].state
  <2>1. None \notin RowIds
    BY DEF None, RowIds
  <2>2. \A k \in RowIds : rows[k] \in Row
    BY <1>2
  <2>3. QED BY <1>1, <1>2, <2>1, <2>2 DEF Row
<1>5. \A r \in Refs : Reraised(r) => Reraised(r)'
  <2>1. pending["sig"].kind = "insert" => t # "sig" /\ obj'["sig"] = obj["sig"]
    BY <1>1, <1>2, TasksFacts
  <2>2. QED BY <1>3, <2>1, TasksFacts DEF Reraised
<1>6. \A k \in RowIds : ~Against(k) => ~Against(k)'
  BY <1>1, <1>3, <1>4 DEF Against
<1>7. \A r \in Refs : alarms[r].id # None => alarms[r].id \in RowIds
  BY <1>2 DEF Alarm
<1>8. \A r \in Refs : alarms'[r].id # None /\ alarms'[r].state \in Alarming =>
          ~Against(alarms[r].id)' \/ Reraised(r)'
  <2>1. SUFFICES ASSUME NEW r \in Refs, alarms[r].id # None, alarms[r].state \in Alarming
                 PROVE  ~Against(alarms[r].id)' \/ Reraised(r)'
    BY <1>1
  <2>2. PICK k \in RowIds : k = alarms[r].id
    BY <1>7, <2>1
  <2>3. ~Against(k) \/ Reraised(r)
    BY <2>1, <2>2 DEF Vouched
  <2>4. ~Against(k)' \/ Reraised(r)'
    BY <1>5, <1>6, <2>3
  <2>5. alarms'[r].id = k
    BY <1>1, <2>2
  <2>6. QED BY <2>4, <2>5
<1>9. QED BY <1>3, <1>8 DEF Vouched

\* A step of the engine, as the API sees it.
LEMMA EngineStepVouched ==
    ASSUME SysInv, [Next]_vars, calls' = calls, FaultFree'
    PROVE  Vouched'
<1>1. /\ Typed /\ Typed' /\ Down /\ Owned /\ CallsTyped /\ FaultFree /\ Vouched /\ up
      /\ ~Crash /\ ~Restart /\ ~\E t \in Tasks : DbError(t)
  BY TypedStep, FaultsCount DEF SysInv, NeverDown, Restart, Start
<1>2. CASE InsertStep
  BY <1>1, <1>2, InsertStepTyped, InsertingKeepsVouched
<1>3. CASE ~InsertStep
  <2>1. Fading
    BY <1>1, <1>3, FadingStep
  <2>2. CASE \E t \in Tasks : CommitInsert(t) \/ CommitUpdate(t)
    BY <1>1, <2>2, CommitInsertKeepsVouched, CommitUpdateKeepsVouched
  <2>3. CASE ~\E t \in Tasks : CommitInsert(t) \/ CommitUpdate(t)
    <3>1. Quiet \/ Writing
      <4>1. IdleStep \/ MemoryStep => Quiet
        BY <1>1, IdleStepTyped, MemoryStepTyped
      <4>2. WriteStep => Writing
        BY <1>1, SignalWriteTyped, OtherWriteTyped DEF WriteStep
      <4>3. UNCHANGED vars => Quiet
        BY DEF vars, memVars, taskVars, dbVars, envVars, Quiet, Keeps
      <4>4. QED
        BY <1>1, <1>3, <2>3, <4>1, <4>2, <4>3
           DEF Next, SignalStep, MonitorStep, StaleStep, IdleStep, MemoryStep, WriteStep,
               SignalWrite, OtherWrite, InsertStep
    <3>2. QED BY <1>1, <2>1, <3>1, QuietKeepsVouched, WritingKeepsVouched
  <2>4. QED BY <2>2, <2>3
<1>4. QED BY <1>2, <1>3

LEMMA LastIdGrows ==
    ASSUME Typed, [Next]_vars
    PROVE  lastId <= lastId'
<1>1. lastId \in Nat
  BY BoundsAssumption DEF Typed, TypeOK
<1>2. lastId' = lastId \/ lastId' = lastId + 1
  BY StepShape DEF Quiet, Writing, Inserting, CommitInsert, CommitUpdate, DbError, Crash, Restart,
     Start, dbVars
<1>3. QED BY <1>1, <1>2

\* A request writes CLEARED only into a row that already said the alarm was not in
\* alarm when the request read it; what it writes later speaks no more against the
\* alarm than the request did.
LEMMA RequestStep ==
    ASSUME SysInv, Request
    PROVE  SysInv'
<1>1. PICK c \in Callers, s \in Sensors :
        \/ ReadToAcknowledge(c, s)
        \/ \E d \in ShelveFor : ReadToShelve(c, s, d)
  BY DEF Request
<1>2. /\ calls \in [Callers -> Call] /\ rows \in [RowIds -> Row] /\ UNCHANGED vars
      /\ now \in Nat /\ MaxShelve \in Nat /\ ShelveFor \subseteq Nat /\ lastId \in Nat
  BY <1>1, TimingAssumption, BoundsAssumption
     DEF ReadToAcknowledge, ReadToShelve, SysInv, CallsTyped, Typed, TypeOK
<1>3. PICK k \in RowIds, call \in Call :
        /\ calls' = [calls EXCEPT ![c] = call] /\ call.id = k /\ call # NoCall /\ call.state # "none"
        /\ rows[k].sensor = s
        /\ call.state = "CLEARED" => rows[k].state = "RTN_UNACK"
  <2>1. CASE ReadToAcknowledge(c, s)
    <3>1. PICK k \in Newest(s, {"ACTIVE", "RTN_UNACK"}) :
            calls' = [calls EXCEPT ![c] =
                        [id |-> k, until |-> None,
                         state |-> IF rows[k].state = "ACTIVE" THEN "ACKED" ELSE "CLEARED"]]
      BY <2>1 DEF ReadToAcknowledge
    <3>2. k \in RowIds /\ rows[k].sensor = s /\ rows[k].state \in {"ACTIVE", "RTN_UNACK"}
      BY DEF Newest
    <3>3. PICK call : call = [id |-> k, until |-> None,
                              state |-> IF rows[k].state = "ACTIVE" THEN "ACKED" ELSE "CLEARED"]
      OBVIOUS
    <3>4. call \in Call /\ call # NoCall /\ call.state # "none" /\ call.id = k
          /\ (call.state = "CLEARED" => rows[k].state = "RTN_UNACK")
      BY <3>2, <3>3 DEF Call, NoCall, None
    <3>5. QED BY <3>1, <3>2, <3>3, <3>4
  <2>2. ASSUME NEW d \in ShelveFor, ReadToShelve(c, s, d)
        PROVE  \E k \in RowIds, call \in Call :
                 /\ calls' = [calls EXCEPT ![c] = call] /\ call.id = k /\ call # NoCall /\ call.state # "none"
                 /\ rows[k].sensor = s
                 /\ call.state = "CLEARED" => rows[k].state = "RTN_UNACK"
    <3>1. PICK k \in Newest(s, {"ACTIVE", "ACKED", "RTN_UNACK"}) :
            calls' = [calls EXCEPT ![c] =
                        [id |-> k, state |-> "SHELVED",
                         until |-> now + (IF d > MaxShelve THEN MaxShelve ELSE d)]]
      BY <2>2 DEF ReadToShelve
    <3>2. k \in RowIds /\ rows[k].sensor = s
      BY DEF Newest
    <3>3. PICK n \in Nat : n = now + (IF d > MaxShelve THEN MaxShelve ELSE d)
      BY <1>2
    <3>4. PICK call : call = [id |-> k, state |-> "SHELVED", until |-> n]
      OBVIOUS
    <3>5. call \in Call /\ call # NoCall /\ call.state # "none" /\ call.id = k /\ call.state = "SHELVED"
      BY <3>2, <3>4 DEF Call, NoCall
    <3>6. QED BY <3>1, <3>2, <3>3, <3>4, <3>5
  <2>3. QED BY <1>1, <2>1, <2>2
<1>4. k \in 1..lastId
  <2>1. rows[k].sensor # 0
    BY <1>3, SensorsAssumption
  <2>2. ~(k > lastId) /\ k \in Nat /\ k >= 1
    BY <2>1 DEF SysInv, Owned, RowIds
  <2>3. QED BY <1>2, <2>2
<1>5. UNCHANGED <<alarms, active, debounce, pc, obj, pending, todo, signal, rows, lastId,
                  now, up, dbErrors, restarts>>
  BY <1>2 DEF vars, memVars, taskVars, dbVars, envVars
<1>6. CallsTyped'
  BY <1>2, <1>3, <1>4, <1>5 DEF SysInv, CallsTyped
<1>7. ASSUME NEW n, Against(n)' PROVE Against(n)
  <2>1. calls'[c] = call /\ \A e \in Callers \ {c} : calls'[e] = calls[e]
    BY <1>2, <1>3
  <2>2. QED BY <1>3, <1>5, <1>7, <2>1 DEF Against, OutOfAlarm
<1>8. Vouched => Vouched'
  BY <1>5, <1>7 DEF Vouched, Reraised
<1>9. Typed' /\ Down' /\ Owned' /\ NeverDown' /\ (FaultFree' <=> FaultFree)
  BY <1>5 DEF SysInv, Typed, TypeOK, TaskShape, Down, Owned, NeverDown, FaultFree
<1>10. QED BY <1>6, <1>8, <1>9 DEF SysInv

LEMMA AnswerStep ==
    ASSUME SysInv, NEW c \in Callers, Answer(c) \/ RollBack(c)
    PROVE  SysInv'
<1>1. /\ calls \in [Callers -> Call] /\ rows \in [RowIds -> Row] /\ calls[c] # NoCall
      /\ calls[c].id \in RowIds /\ NoCall \in Call
      /\ calls' = [calls EXCEPT ![c] = NoCall]
  <2>1. calls \in [Callers -> Call] /\ rows \in [RowIds -> Row] /\ lastId \in 0..MaxRows
    BY DEF SysInv, CallsTyped, Typed, TypeOK
  <2>2. calls[c] # NoCall /\ calls' = [calls EXCEPT ![c] = NoCall]
    BY DEF Answer, RollBack
  <2>3. calls[c].id \in RowIds
    <3>1. calls[c].id \in 1..lastId
      BY <2>2 DEF SysInv, CallsTyped
    <3>2. QED BY <2>1, <3>1, BoundsAssumption DEF RowIds
  <2>4. NoCall \in Call
    BY DEF NoCall, Call, None
  <2>5. QED BY <2>1, <2>2, <2>3, <2>4
<1>2. UNCHANGED <<alarms, active, debounce, pc, obj, pending, todo, signal, lastId,
                  now, up, dbErrors, restarts>>
  BY DEF Answer, RollBack, vars, memVars, taskVars, dbVars, envVars
<1>3. /\ rows' \in [RowIds -> Row]
      /\ \A k \in RowIds : rows'[k].sensor = rows[k].sensor
      /\ \A k \in RowIds : rows'[k].state \in OutOfAlarm =>
             rows[k].state \in OutOfAlarm \/ (k = calls[c].id /\ calls[c].state = "CLEARED")
  <2>1. CASE RollBack(c)
    <3>1. rows' = rows
      BY <2>1 DEF RollBack, vars, dbVars
    <3>2. QED BY <1>1, <3>1
  <2>2. CASE Answer(c)
    <3>1. PICK k \in RowIds : k = calls[c].id
      BY <1>1
    <3>2. rows[k] \in Row /\ calls[c] \in Call
      BY <1>1
    <3>3. CASE calls[c].state = "SHELVED"
      <4>1. rows' = [rows EXCEPT ![k] = [rows[k] EXCEPT !.state = "SHELVED", !.until = calls[c].until]]
        BY <2>2, <3>1, <3>3 DEF Answer
      <4>2. [rows[k] EXCEPT !.state = "SHELVED", !.until = calls[c].until] \in Row
        BY <3>2 DEF Row, Call, AlarmState
      <4>3. QED BY <1>1, <3>2, <4>1, <4>2 DEF OutOfAlarm, Row
    <3>4. CASE calls[c].state # "SHELVED"
      <4>1. rows' = [rows EXCEPT ![k] = [rows[k] EXCEPT !.state = calls[c].state, !.acked = TRUE]]
        BY <2>2, <3>1, <3>4 DEF Answer
      <4>2. calls[c].state \in {"ACKED", "CLEARED"}
        <5>1. calls[c].state # "none"
          BY <1>1 DEF SysInv, CallsTyped
        <5>2. QED BY <3>2, <3>4, <5>1 DEF Call
      <4>3. [rows[k] EXCEPT !.state = calls[c].state, !.acked = TRUE] \in Row
        BY <3>2, <4>2 DEF Row, AlarmState
      <4>4. QED BY <1>1, <3>1, <3>2, <4>1, <4>2, <4>3 DEF OutOfAlarm, Row
    <3>5. QED BY <3>3, <3>4
  <2>3. QED BY <2>1, <2>2
<1>4. /\ calls'[c] = NoCall /\ \A e \in Callers \ {c} : calls'[e] = calls[e]
  BY <1>1
<1>5. CallsTyped'
  BY <1>1, <1>2, <1>4 DEF SysInv, CallsTyped
<1>6. ASSUME NEW k \in RowIds, Against(k)' PROVE Against(k)
  BY <1>2, <1>3, <1>4, <1>6 DEF Against, NoCall
<1>7. Vouched => Vouched'
  <2>1. \A r \in Refs : alarms[r].id # None => alarms[r].id \in RowIds
    BY DEF SysInv, Typed, TypeOK, Alarm
  <2>2. ASSUME NEW r \in Refs, alarms[r].id # None, ~Against(alarms[r].id)
        PROVE  ~Against(alarms[r].id)'
    <3>1. PICK k \in RowIds : k = alarms[r].id
      BY <2>1, <2>2
    <3>2. ~Against(k)'
      BY <1>6, <2>2, <3>1
    <3>3. alarms'[r].id = k
      BY <1>2, <3>1
    <3>4. QED BY <3>2, <3>3
  <2>3. QED BY <1>2, <2>2 DEF Vouched, Reraised
<1>8. Typed' /\ Down' /\ NeverDown' /\ (FaultFree' <=> FaultFree)
  BY <1>2, <1>3 DEF SysInv, Typed, TypeOK, TaskShape, Down, NeverDown, FaultFree
<1>9. Owned'
  <2>1. /\ \A r \in Refs : alarms[r].id # None => alarms[r].id \in RowIds
        /\ \A t \in Tasks : pending[t].id # None => pending[t].id \in RowIds
    BY DEF SysInv, Typed, TypeOK, Alarm, Write
  <2>2. QED BY <1>2, <1>3, <2>1 DEF SysInv, Owned
<1>10. QED BY <1>5, <1>7, <1>8, <1>9 DEF SysInv

\* An acknowledgement closes no alarm that is in alarm: as long as nothing fails, the
\* row of an alarm in alarm says CLEARED only while that alarm is being raised again
\* and its new row is on its way, whichever requests race with whichever statements.
THEOREM AcknowledgementsCloseNothing == SysSpec => []ClosesNoActiveAlarm
<1>1. SysInit => SysInv
  <2> SUFFICES ASSUME SysInit PROVE SysInv
    OBVIOUS
  <2>1. Typed /\ Down /\ Owned
    BY InitIInv DEF SysInit, IInv
  <2>2. CallsTyped
    BY DEF SysInit, CallsTyped, NoCall, Call, None
  <2>3. NeverDown /\ Vouched
    BY ConstantTypes DEF SysInit, Init, NeverDown, Vouched, NoWrite
  <2>4. QED BY <2>1, <2>2, <2>3 DEF SysInv
<1>2. SysInv /\ [SysNext]_sysVars => SysInv'
  <2> SUFFICES ASSUME SysInv, [SysNext]_sysVars PROVE SysInv'
    OBVIOUS
  <2>1. CASE [Next]_vars /\ calls' = calls
    <3>1. Typed' /\ Down' /\ Owned' /\ NeverDown'
      BY <2>1, TypedStep, DownStep, OwnedStep, NeverDownStep DEF SysInv
    <3>2. CallsTyped'
      <4>1. lastId' \in Nat /\ lastId \in Nat /\ lastId <= lastId'
        BY <2>1, <3>1, LastIdGrows DEF SysInv, Typed, TypeOK
      <4>2. QED BY <2>1, <4>1 DEF SysInv, CallsTyped
    <3>3. FaultFree' => Vouched'
      BY <2>1, EngineStepVouched
    <3>4. QED BY <3>1, <3>2, <3>3 DEF SysInv
  <2>2. CASE Request
    BY <2>2, RequestStep
  <2>3. CASE \E c \in Callers : Answer(c) \/ RollBack(c)
    BY <2>3, AnswerStep
  <2>4. QED BY <2>1, <2>2, <2>3 DEF SysNext, sysVars
<1>3. SysInv => ClosesNoActiveAlarm
  BY DEF SysInv, CallsTyped, Vouched, Against, Reraised, OutOfAlarm, ClosesNoActiveAlarm
<1>4. QED BY <1>1, <1>2, <1>3, PTL DEF SysSpec

=============================================================================
