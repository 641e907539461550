----------------------------- MODULE AlarmEngine -----------------------------
(***************************************************************************)
(* The alarm engine (platform/alarm_engine/engine.py, cascade.py and       *)
(* persistence.py): one asyncio process that keeps one AlarmInstance per   *)
(* sensor in memory, mirrors it in rows of table alarms, and is restarted  *)
(* from those rows.                                                        *)
(*                                                                         *)
(* Four kinds of coroutines share the memory:                              *)
(*   "sig"    the subscriber, one signal at a time                         *)
(*   "mon"    the monitor that unshelves expired alarms                    *)
(*   "stale"  the monitor that clears alarms without readings              *)
(*   op       an operator's call of acknowledge_alarm or shelve_alarm      *)
(* A coroutine runs alone until it awaits the database, so each action     *)
(* below is the code between two awaits.  The statement a coroutine awaits *)
(* carries a snapshot of the alarm taken when it was issued; the database  *)
(* commits the statements in flight, each on a connection of its own, in   *)
(* any order.  A coroutine with work left before its next await is in pc   *)
(* "run" and holds the event loop.                                         *)
(***************************************************************************)
EXTENDS AlarmLifecycle, AlarmThreshold, FiniteSets

CONSTANTS
    Sensors,       \* ids of the sensors: integers, as sensor_id is
    Operators,     \* concurrent operator calls
    Refs,          \* identities of AlarmInstance objects, enough for the bound on rows
    Cascade,       \* <<c, e>>: some cascade rule has c as a cause and e as an effect
    Thresholds,    \* the thresholds of each sensor, in the order of the registry
    Values,        \* the readings
    StaleTimeout,  \* stale_alarm_timeout_minutes
    MaxShelve,     \* max_shelve_duration_hours
    ShelveFor,     \* the durations operators ask for
    MaxRows,       \* bound: rows of table alarms
    MaxTime,       \* bound: the clock
    MaxDbErrors,   \* bound: failed statements
    MaxRestarts    \* bound: crashes of the process

ASSUME SensorsAssumption == Sensors \subseteq Nat \ {0}
\* Every sensor can have an alarm at once.
ASSUME RefsAssumption ==
    /\ Refs \subseteq Nat \ {0}
    /\ \E f \in [Sensors -> Refs] : \A s, q \in Sensors : f[s] = f[q] => s = q
ASSUME OperatorsAssumption == Operators \cap {"sig", "mon", "stale"} = {}
\* No rule of DEFAULT_CASCADE_RULES has a tag that is both cause and effect.
ASSUME CascadeAssumption ==
    /\ Cascade \subseteq Sensors \X Sensors
    /\ \A s \in Sensors : <<s, s>> \notin Cascade
ASSUME ThresholdsAssumption == Thresholds \in [Sensors -> Seq(Threshold)]
ASSUME ReadingsAssumption == Values \subseteq Int
ASSUME TimingAssumption ==
    /\ StaleTimeout \in Nat /\ MaxShelve \in Nat /\ ShelveFor \subseteq Nat
ASSUME BoundsAssumption ==
    /\ MaxRows \in Nat /\ MaxTime \in Nat \ {0}
    /\ MaxDbErrors \in Nat /\ MaxRestarts \in Nat

VARIABLES
    alarms,      \* the AlarmInstance objects; sensor = 0 in one not yet created
    active,      \* _active_alarms: sensor -> object, None when absent
    debounce,    \* _debounce of each sensor: level -> instant, 0 when absent
    pc,          \* where each coroutine is
    obj,         \* the object whose statement it awaits
    pending,     \* the statement it awaits
    todo,        \* what is left of the list it iterates over
    signal,      \* the signal being processed
    rows,        \* table alarms, by id
    lastId,      \* the sequence behind alarms.id
    now,         \* wall clock
    up,          \* the process runs
    dbErrors, restarts

memVars  == <<alarms, active, debounce>>
taskVars == <<pc, obj, pending, todo, signal>>
dbVars   == <<rows, lastId>>
envVars  == <<now, up, dbErrors, restarts>>
vars     == <<memVars, taskVars, dbVars, envVars>>

None   == 0
Tasks  == {"sig", "mon", "stale"} \cup Operators
RowIds == 1..MaxRows

RowOf(a) ==
    [sensor |-> a.sensor, priority |-> a.priority, state |-> a.state,
     acked |-> a.acked, raisedAt |-> a.raisedAt, until |-> a.until]

FreeAlarm == NewAlarm(0, 0)
NoRow     == RowOf(FreeAlarm)
NoWrite   == [kind |-> "none", id |-> None, row |-> NoRow]
NoSignal  == [sensor |-> 0, at |-> 0, evals |-> <<>>, next |-> 1, then |-> "none"]

-----------------------------------------------------------------------------
(* Coroutines and statements.                                              *)

EventLoopFree(t) == \A u \in Tasks \ {t} : pc[u] # "run"

\* insert_alarm and update_alarm up to their first suspension: the parameters
\* of the statement are those of the alarm at this moment.
Issue(t, kind, r) ==
    /\ pc' = [pc EXCEPT ![t] = "db"]
    /\ obj' = [obj EXCEPT ![t] = r]
    /\ pending' = [pending EXCEPT ![t] =
                     [kind |-> kind, id |-> alarms'[r].id, row |-> RowOf(alarms'[r])]]

\* An operator's call has nothing left to change once its statement returned.
AfterCommit(t) == IF t \in Operators THEN "idle" ELSE "logged"

Committed(t) ==
    /\ pc[t] = "db"
    /\ EventLoopFree(t)
    /\ pc' = [pc EXCEPT ![t] = AfterCommit(t)]
    /\ obj' = IF t \in Operators THEN [obj EXCEPT ![t] = None] ELSE obj
    /\ pending' = [pending EXCEPT ![t] = NoWrite]
    /\ UNCHANGED <<active, debounce, todo, signal, envVars>>

\* Mutant: the id is read before the row is there.
CommitInsertStaleId(t) ==
    /\ pending[t].kind = "insert"
    /\ lastId < MaxRows
    /\ lastId' = lastId + 1
    /\ rows' = [rows EXCEPT ![lastId + 1] =
                  [pending[t].row EXCEPT !.acked = FALSE, !.until = None]]
    /\ alarms' = [alarms EXCEPT ![obj[t]].id = lastId]
    /\ Committed(t)

\* insert_alarm: a new row is neither acknowledged nor shelved, and its id is known
\* to the alarm only after the commit.
CommitInsert(t) ==
    /\ pending[t].kind = "insert"
    /\ lastId < MaxRows
    /\ lastId' = lastId + 1
    /\ rows' = [rows EXCEPT ![lastId + 1] =
                  [pending[t].row EXCEPT !.acked = FALSE, !.until = None]]
    /\ alarms' = [alarms EXCEPT ![obj[t]].id = lastId + 1]
    /\ Committed(t)

\* update_alarm: UPDATE ... WHERE id = :id matches no row when the id is None.
CommitUpdate(t) ==
    /\ pending[t].kind = "update"
    /\ rows' = IF pending[t].id = None THEN rows
               ELSE [rows EXCEPT ![pending[t].id] =
                       [@ EXCEPT !.state = pending[t].row.state,
                                 !.acked = pending[t].row.acked,
                                 !.until = pending[t].row.until]]
    /\ UNCHANGED <<alarms, lastId>>
    /\ Committed(t)

\* A statement fails: the exception ends the signal, the monitor's pass or the
\* operator's call; what it did to the memory stays.
DbError(t) ==
    /\ pc[t] = "db"
    /\ EventLoopFree(t)
    /\ dbErrors < MaxDbErrors
    /\ dbErrors' = dbErrors + 1
    /\ pc' = [pc EXCEPT ![t] = "idle"]
    /\ obj' = [obj EXCEPT ![t] = None]
    /\ pending' = [pending EXCEPT ![t] = NoWrite]
    /\ todo' = [todo EXCEPT ![t] = {}]
    /\ signal' = IF t = "sig" THEN NoSignal ELSE signal
    /\ UNCHANGED <<memVars, dbVars, now, up, restarts>>

-----------------------------------------------------------------------------
(* The subscriber: _process_signal.                                        *)

\* Mutant: an alarm that is over is used again.
LiveIfKnown(s) == active[s] # None

Live(s)    == active[s] # None /\ alarms[active[s]].state # "CLEARED"
IsFree(r)  == alarms[r].sensor = 0
FreshRef   == CHOOSE r \in Refs : IsFree(r)

Evaluations(s, v, p) ==
    IF Thresholds[s] = <<>>
    THEN <<[priority |-> p, outcome |-> "alarm"]>>
    ELSE [i \in 1..Len(Thresholds[s]) |->
            LET t == Thresholds[s][i] IN
            [priority |-> t.priority,
             outcome  |-> Outcome(t, v, debounce[s][t.level], now)]]

DebounceAfter(s, v) ==
    [l \in Levels |->
        IF \E i \in 1..Len(Thresholds[s]) : Thresholds[s][i].level = l
        THEN LET t == CHOOSE t \in {Thresholds[s][i] : i \in 1..Len(Thresholds[s])} : t.level = l
             IN  FirstExceeded(t, v, debounce[s][l], now)
        ELSE debounce[s][l]]

\* A signal is taken from the channel.  The bounds leave room for every row and
\* object it can create: the first evaluation works on the live alarm if there is one.
ReceiveSignal(s, v, p) ==
    /\ up
    /\ pc["sig"] = "idle"
    /\ EventLoopFree("sig")
    /\ lastId + Len(Evaluations(s, v, p)) <= MaxRows
    /\ Cardinality({r \in Refs : IsFree(r)}) + (IF Live(s) THEN 1 ELSE 0)
         >= Len(Evaluations(s, v, p))
    /\ signal' = [sensor |-> s, at |-> now, evals |-> Evaluations(s, v, p),
                 next |-> 1, then |-> "none"]
    /\ debounce' = [debounce EXCEPT ![s] = DebounceAfter(s, v)]
    /\ pc' = [pc EXCEPT !["sig"] = "run"]
    /\ UNCHANGED <<alarms, active, obj, pending, todo, dbVars, envVars>>

\* The evaluation the loop of _process_signal is at.
Current == signal.evals[signal.next]

Evaluating(outcomes) ==
    /\ pc["sig"] = "run"
    /\ signal.then = "none"
    /\ signal.next <= Len(signal.evals)
    /\ Current.outcome \in outcomes

NextEvaluation(then) ==
    signal' = [signal EXCEPT !.next = @ + 1, !.then = then]

\* Mutant: an acknowledged cause no longer suppresses.
UnackedCauses(s) ==
    {c \in Sensors : /\ <<c, s>> \in Cascade
                     /\ active[c] # None
                     /\ alarms[active[c]].state = "ACTIVE"}

\* would_be_suppressed: the causes of s that are in alarm.  The code takes the
\* first it meets, in the order of the rules and of the dictionary.
ActiveCauses(s) ==
    {c \in Sensors : /\ <<c, s>> \in Cascade
                     /\ active[c] # None
                     /\ alarms[active[c]].state \in Alarming}

\* The object an alarm condition works on: a new one unless one is live.  Bound:
\* there has to be an identity left for it.
RoomFor(s) == Live(s) \/ \E r \in Refs : IsFree(r)
Subject(s) == IF Live(s) THEN active[s] ELSE FreshRef
Raised(s) ==
    LET a == IF Live(s) THEN alarms[active[s]]
             ELSE NewAlarm(s, Current.priority)
    IN  Raise(a, lastId + 1, signal.at)

\* The reading of an alarm that is in alarm already.
StillAlarming ==
    /\ Evaluating({"alarm"})
    /\ Live(signal.sensor)
    /\ alarms[active[signal.sensor]].state \in Alarming
    /\ alarms' = [alarms EXCEPT ![active[signal.sensor]].seen = signal.at]
    /\ NextEvaluation("none")
    /\ UNCHANGED <<active, debounce, pc, obj, pending, todo, dbVars, envVars>>

\* An active cause suppresses the alarm as it arrives: the alarm is filed under
\* the sensor of the cause, and a row is inserted for every such reading.
SuppressOnArrival(c) ==
    LET s == signal.sensor
        r == Subject(s)
    IN  /\ Evaluating({"alarm"})
        /\ RoomFor(s)
        /\ ~(Live(s) /\ alarms[active[s]].state \in Alarming)
        /\ c \in ActiveCauses(s)
        /\ alarms' = [alarms EXCEPT ![r] = Suppress(Raised(s), c)]
        /\ active' = [active EXCEPT ![s] = r]
        /\ Issue("sig", "insert", r)
        /\ NextEvaluation("suppressed")
        /\ UNCHANGED <<debounce, todo, dbVars, envVars>>

\* Without an active cause a shelved or suppressed alarm only notes the reading.
IgnoreReading ==
    LET s == signal.sensor
    IN  /\ Evaluating({"alarm"})
        /\ Live(s)
        /\ alarms[active[s]].state \in {"SHELVED", "SUPPRESSED"}
        /\ ActiveCauses(s) = {}
        /\ alarms' = [alarms EXCEPT ![active[s]] = Raised(s)]
        /\ NextEvaluation("none")
        /\ UNCHANGED <<active, debounce, pc, obj, pending, todo, dbVars, envVars>>

\* Mutant: the row of the alarm is taken to exist.
RaiseAlarmByUpdate ==
    LET s == signal.sensor
        r == Subject(s)
    IN  /\ Evaluating({"alarm"})
        /\ RoomFor(s)
        /\ Live(s) => alarms[active[s]].state = "RTN_UNACK"
        /\ ActiveCauses(s) = {}
        /\ alarms' = [alarms EXCEPT ![r] = Raised(s)]
        /\ active' = [active EXCEPT ![s] = r]
        /\ Issue("sig", "update", r)
        /\ NextEvaluation("raised")
        /\ UNCHANGED <<debounce, todo, dbVars, envVars>>

\* A raise is in memory before its row exists; a returned alarm raised again
\* gets a new row.
RaiseAlarm ==
    LET s == signal.sensor
        r == Subject(s)
    IN  /\ Evaluating({"alarm"})
        /\ RoomFor(s)
        /\ Live(s) => alarms[active[s]].state = "RTN_UNACK"
        /\ ActiveCauses(s) = {}
        /\ alarms' = [alarms EXCEPT ![r] = Raised(s)]
        /\ active' = [active EXCEPT ![s] = r]
        /\ Issue("sig", "insert", r)
        /\ NextEvaluation("raised")
        /\ UNCHANGED <<debounce, todo, dbVars, envVars>>

\* A value past the deadband of a threshold returns the alarm to normal,
\* whichever threshold raised it.
ReturnToNormal ==
    LET s == signal.sensor
        r == active[s]
    IN  /\ Evaluating({"clear"})
        /\ r # None
        /\ alarms[r].state \in Alarming
        /\ alarms' = [alarms EXCEPT ![r] = ClearCondition(@, signal.at)]
        /\ Issue("sig", "update", r)
        /\ NextEvaluation("cleared")
        /\ UNCHANGED <<active, debounce, todo, dbVars, envVars>>

\* The other readings that are not in alarm: inside the deadband, or of an alarm
\* that has nothing to clear.
NothingToClear ==
    LET s == signal.sensor
        r == active[s]
    IN  /\ Evaluating({"clear", "hold"})
        /\ ~(/\ Current.outcome = "clear"
             /\ r # None
             /\ alarms[r].state \in Alarming)
        /\ alarms' = IF r # None /\ alarms[r].state \in Alarming \cup {"RTN_UNACK"}
                     THEN [alarms EXCEPT ![r].seen = signal.at] ELSE alarms
        /\ NextEvaluation("none")
        /\ UNCHANGED <<active, debounce, pc, obj, pending, todo, dbVars, envVars>>

\* cause.id or cause.sensor_id
CauseId(a) == IF a.id # None THEN a.id ELSE a.sensor

\* Mutant: an acknowledged alarm is left to the operator.
EffectsNotAcked(r) ==
    {active[e] : e \in {x \in Sensors :
        /\ <<alarms[r].sensor, x>> \in Cascade
        /\ active[x] # None
        /\ alarms[active[x]].state \notin {"CLEARED", "SUPPRESSED", "ACKED"}}}

\* on_alarm_raised: the alarms the raised one suppresses.
Effects(r) ==
    {active[e] : e \in {x \in Sensors :
        /\ <<alarms[r].sensor, x>> \in Cascade
        /\ active[x] # None
        /\ alarms[active[x]].state \notin {"CLEARED", "SUPPRESSED"}}}

\* on_alarm_cleared: the alarms filed under the id of the cleared one.
FiledUnder(r) ==
    {active[e] : e \in {x \in Sensors :
        /\ active[x] # None
        /\ alarms[active[x]].state = "SUPPRESSED"
        /\ alarms[active[x]].supBy = CauseId(alarms[r])}}

\* The statement of the signal has returned and its event is logged.
Resume(then) ==
    /\ pc["sig"] = "logged"
    /\ signal.then = then
    /\ EventLoopFree("sig")
    /\ pc' = [pc EXCEPT !["sig"] = "run"]

AfterRaise ==
    LET r == obj["sig"]
    IN  /\ Resume("raised")
        /\ alarms' = [x \in Refs |-> IF x \in Effects(r)
                                     THEN Suppress(alarms[x], CauseId(alarms[r])) ELSE alarms[x]]
        /\ todo' = [todo EXCEPT !["sig"] = Effects(r)]
        /\ signal' = [signal EXCEPT !.then = "effects"]
        /\ UNCHANGED <<active, debounce, obj, pending, dbVars, envVars>>

\* The state is read again here: an operator may have acknowledged the returned
\* alarm meanwhile.
AfterClear ==
    LET r    == obj["sig"]
        back == IF alarms[r].state = "CLEARED" THEN FiledUnder(r) ELSE {}
    IN  /\ Resume("cleared")
        /\ alarms' = [x \in Refs |-> IF x \in back THEN Unsuppress(alarms[x]) ELSE alarms[x]]
        /\ todo' = [todo EXCEPT !["sig"] = back]
        /\ signal' = [signal EXCEPT !.then = "effects"]
        /\ UNCHANGED <<active, debounce, obj, pending, dbVars, envVars>>

AfterEffect ==
    /\ Resume("effects")
    /\ UNCHANGED <<memVars, obj, pending, todo, signal, dbVars, envVars>>

AfterLastAwait ==
    /\ Resume("suppressed") \/ Resume("published")
    /\ signal' = [signal EXCEPT !.then = "none"]
    /\ UNCHANGED <<memVars, obj, pending, todo, dbVars, envVars>>

\* The suppressed or unsuppressed alarms are written one after the other, each
\* with the state it has by then; then the event of the signal is published.
WriteEffect(r) ==
    /\ pc["sig"] = "run"
    /\ signal.then = "effects"
    /\ r \in todo["sig"]
    /\ todo' = [todo EXCEPT !["sig"] = @ \ {r}]
    /\ UNCHANGED alarms
    /\ Issue("sig", "update", r)
    /\ UNCHANGED <<active, debounce, signal, dbVars, envVars>>

Publish ==
    /\ pc["sig"] = "run"
    /\ signal.then = "effects"
    /\ todo["sig"] = {}
    /\ pc' = [pc EXCEPT !["sig"] = "logged"]
    /\ signal' = [signal EXCEPT !.then = "published"]
    /\ UNCHANGED <<memVars, obj, pending, todo, dbVars, envVars>>

EndOfSignal ==
    /\ pc["sig"] = "run"
    /\ signal.then = "none"
    /\ signal.next > Len(signal.evals)
    /\ pc' = [pc EXCEPT !["sig"] = "idle"]
    /\ obj' = [obj EXCEPT !["sig"] = None]
    /\ signal' = NoSignal
    /\ UNCHANGED <<memVars, pending, todo, dbVars, envVars>>

-----------------------------------------------------------------------------
(* Operators.                                                              *)

OperatorMayAct(op, s) ==
    /\ up
    /\ pc[op] = "idle"
    /\ EventLoopFree(op)
    /\ active[s] # None

AcknowledgeAlarm(op, s) ==
    /\ OperatorMayAct(op, s)
    /\ alarms[active[s]].state \in {"ACTIVE", "RTN_UNACK"}
    /\ alarms' = [alarms EXCEPT ![active[s]] = Acknowledge(@)]
    /\ Issue(op, "update", active[s])
    /\ UNCHANGED <<active, debounce, todo, signal, dbVars, envVars>>

ShelveAlarm(op, s, d) ==
    /\ OperatorMayAct(op, s)
    /\ alarms[active[s]].state # "CLEARED"
    /\ alarms' = [alarms EXCEPT ![active[s]] =
                    Shelve(@, now + (IF d > MaxShelve THEN MaxShelve ELSE d))]
    /\ Issue(op, "update", active[s])
    /\ UNCHANGED <<active, debounce, todo, signal, dbVars, envVars>>

-----------------------------------------------------------------------------
(* The shelve monitor.                                                     *)

ExpiredRow(k) ==
    rows[k].state = "SHELVED" /\ rows[k].until # None /\ rows[k].until < now

\* get_shelved_expired: the sensors of the expired rows.
QueryExpired ==
    /\ up
    /\ pc["mon"] = "idle"
    /\ \E k \in RowIds : ExpiredRow(k)
    /\ todo' = [todo EXCEPT !["mon"] = {rows[k].sensor : k \in {j \in RowIds : ExpiredRow(j)}}]
    /\ pc' = [pc EXCEPT !["mon"] = "logged"]
    /\ UNCHANGED <<memVars, obj, pending, signal, dbVars, envVars>>

MayContinue(t) ==
    /\ pc[t] \in {"run", "logged"}
    /\ EventLoopFree(t)

\* The alarm in memory has to be shelved; whether its own time is up is not asked.
UnshelveExpired(s) ==
    /\ MayContinue("mon")
    /\ s \in todo["mon"]
    /\ active[s] # None
    /\ alarms[active[s]].state = "SHELVED"
    /\ alarms' = [alarms EXCEPT ![active[s]] = Unshelve(@)]
    /\ todo' = [todo EXCEPT !["mon"] = @ \ {s}]
    /\ Issue("mon", "update", active[s])
    /\ UNCHANGED <<active, debounce, signal, dbVars, envVars>>

SkipExpired(s) ==
    /\ MayContinue("mon")
    /\ s \in todo["mon"]
    /\ active[s] # None => alarms[active[s]].state # "SHELVED"
    /\ todo' = [todo EXCEPT !["mon"] = @ \ {s}]
    /\ pc' = [pc EXCEPT !["mon"] = "run"]
    /\ UNCHANGED <<memVars, obj, pending, signal, dbVars, envVars>>

\* The end of a pass of either monitor.
EndOfPass(t) ==
    /\ MayContinue(t)
    /\ todo[t] = {}
    /\ pc' = [pc EXCEPT ![t] = "idle"]
    /\ obj' = [obj EXCEPT ![t] = None]
    /\ UNCHANGED <<memVars, pending, todo, signal, dbVars, envVars>>

-----------------------------------------------------------------------------
(* The stale monitor.                                                      *)

IsStale(a) ==
    /\ a.state \in Alarming
    /\ a.seen # 0
    /\ now - a.seen > StaleTimeout

\* Mutant: only unacknowledged alarms are looked at.
StaleUnacked ==
    {active[s] : s \in {x \in Sensors :
        /\ active[x] # None
        /\ IsStale(alarms[active[x]])
        /\ alarms[active[x]].state = "ACTIVE"}}

StaleAlarms == {active[s] : s \in {x \in Sensors : active[x] # None /\ IsStale(alarms[active[x]])}}

CollectStale ==
    /\ up
    /\ pc["stale"] = "idle"
    /\ EventLoopFree("stale")
    /\ StaleAlarms # {}
    /\ todo' = [todo EXCEPT !["stale"] = StaleAlarms]
    /\ pc' = [pc EXCEPT !["stale"] = "run"]
    /\ UNCHANGED <<memVars, obj, pending, signal, dbVars, envVars>>

\* The alarms collected are cleared one after the other, whatever happened to
\* them since.
ClearStale(r) ==
    /\ MayContinue("stale")
    /\ r \in todo["stale"]
    /\ alarms' = [alarms EXCEPT ![r].state = "CLEARED"]
    /\ todo' = [todo EXCEPT !["stale"] = @ \ {r}]
    /\ Issue("stale", "update", r)
    /\ UNCHANGED <<active, debounce, signal, dbVars, envVars>>

-----------------------------------------------------------------------------
(* Time, crash and restart.                                                *)

Tick ==
    /\ now < MaxTime
    /\ now' = now + 1
    /\ UNCHANGED <<memVars, taskVars, dbVars, up, dbErrors, restarts>>

ClearTasks ==
    /\ pc' = [t \in Tasks |-> "idle"]
    /\ obj' = [t \in Tasks |-> None]
    /\ pending' = [t \in Tasks |-> NoWrite]
    /\ todo' = [t \in Tasks |-> {}]
    /\ signal' = NoSignal

\* The process dies: its memory and its statements in flight are gone.
Crash ==
    /\ up
    /\ restarts < MaxRestarts
    /\ restarts' = restarts + 1
    /\ up' = FALSE
    /\ alarms' = [r \in Refs |-> FreeAlarm]
    /\ active' = [s \in Sensors |-> None]
    /\ debounce' = [s \in Sensors |-> [l \in Levels |-> 0]]
    /\ ClearTasks
    /\ UNCHANGED <<dbVars, now, dbErrors>>

OpenRows(s) == {k \in RowIds : rows[k].sensor = s /\ rows[k].state # "CLEARED"}

\* ORDER BY raised_at, the last row of a sensor wins; rows with the same
\* raised_at come in any order.
LatestOpen(s) == {k \in OpenRows(s) : \A j \in OpenRows(s) : rows[j].raisedAt <= rows[k].raisedAt}

\* load_active_alarms restores neither suppressed_by_alarm_id nor last_seen.
Loaded(k) ==
    [sensor |-> rows[k].sensor, priority |-> rows[k].priority, state |-> rows[k].state,
     id |-> k, raisedAt |-> rows[k].raisedAt, acked |-> rows[k].acked,
     until |-> rows[k].until, supBy |-> None, seen |-> 0]

\* The objects the loaded alarms live in.
Place == CHOOSE f \in [Sensors -> Refs] : \A s, q \in Sensors : f[s] = f[q] => s = q

\* start: "pick" is the row each sensor is loaded from.
Start(pick) ==
    LET loaded == {s \in Sensors : OpenRows(s) # {}}
    IN  /\ ~up
        /\ \A s \in loaded : pick[s] \in LatestOpen(s)
        /\ up' = TRUE
        /\ alarms' = [r \in Refs |->
                        IF \E s \in loaded : Place[s] = r
                        THEN Loaded(pick[CHOOSE s \in loaded : Place[s] = r])
                        ELSE FreeAlarm]
        /\ active' = [s \in Sensors |-> IF s \in loaded THEN Place[s] ELSE None]
        /\ UNCHANGED <<debounce, taskVars, dbVars, now, dbErrors, restarts>>

-----------------------------------------------------------------------------
Init ==
    /\ alarms = [r \in Refs |-> FreeAlarm]
    /\ active = [s \in Sensors |-> None]
    /\ debounce = [s \in Sensors |-> [l \in Levels |-> 0]]
    /\ pc = [t \in Tasks |-> "idle"]
    /\ obj = [t \in Tasks |-> None]
    /\ pending = [t \in Tasks |-> NoWrite]
    /\ todo = [t \in Tasks |-> {}]
    /\ signal = NoSignal
    /\ rows = [k \in RowIds |-> NoRow]
    /\ lastId = 0
    /\ now = 1
    /\ up = TRUE
    /\ dbErrors = 0
    /\ restarts = 0

SignalStep ==
    \/ StillAlarming \/ IgnoreReading \/ RaiseAlarm \/ ReturnToNormal \/ NothingToClear
    \/ \E c \in Sensors : SuppressOnArrival(c)
    \/ AfterRaise \/ AfterClear \/ AfterEffect \/ AfterLastAwait
    \/ \E r \in Refs : WriteEffect(r)
    \/ Publish \/ EndOfSignal

MonitorStep ==
    \/ QueryExpired
    \/ \E s \in Sensors : UnshelveExpired(s) \/ SkipExpired(s)
    \/ EndOfPass("mon")

StaleStep ==
    \/ CollectStale
    \/ \E r \in Refs : ClearStale(r)
    \/ EndOfPass("stale")

OperatorStep ==
    \E op \in Operators, s \in Sensors :
        \/ AcknowledgeAlarm(op, s)
        \/ \E d \in ShelveFor : ShelveAlarm(op, s, d)

Restart == \E pick \in [Sensors -> RowIds] : Start(pick)

Next ==
    \/ \E s \in Sensors, v \in Values, p \in Priorities : ReceiveSignal(s, v, p)
    \/ SignalStep
    \/ MonitorStep
    \/ StaleStep
    \/ OperatorStep
    \/ \E t \in Tasks : CommitInsert(t) \/ CommitUpdate(t) \/ DbError(t)
    \/ Tick
    \/ Crash
    \/ Restart

Spec == Init /\ [][Next]_vars

\* The event loop serves the coroutines that can go on in turn, so one that can
\* go on again and again does (strong fairness: it holds the loop only between two
\* awaits); the database answers and time passes.  No signal, operator, failure
\* or crash has to come.
Fairness ==
    /\ SF_vars(SignalStep)
    /\ SF_vars(MonitorStep)
    /\ SF_vars(StaleStep)
    /\ \A t \in Tasks : SF_vars(CommitInsert(t) \/ CommitUpdate(t))
    /\ WF_vars(Tick)
    /\ WF_vars(Restart)

FairSpec == Spec /\ Fairness

-----------------------------------------------------------------------------
(* What the engine guarantees.                                             *)

Row == [sensor : Sensors \cup {0}, priority : Priorities, state : AlarmState,
        acked : BOOLEAN, raisedAt : Nat, until : Nat]

Alarm == [sensor : Sensors \cup {0}, priority : Priorities, state : AlarmState,
          id : RowIds \cup {None}, raisedAt : Nat, acked : BOOLEAN, until : Nat,
          supBy : Nat, seen : Nat]

Write == [kind : {"none", "insert", "update"}, id : RowIds \cup {None}, row : Row]

Evaluation == [priority : Priorities, outcome : Outcomes]

Signal == [sensor : Sensors \cup {0}, at : Nat, evals : Seq(Evaluation), next : Nat,
           then : {"none", "raised", "suppressed", "cleared", "effects", "published"}]

\* Every variable keeps its type: an object, a row, a statement or a signal is
\* always one the code could hold.
TypeOK ==
    /\ alarms \in [Refs -> Alarm]
    /\ active \in [Sensors -> Refs \cup {None}]
    /\ debounce \in [Sensors -> [Levels -> Nat]]
    /\ pc \in [Tasks -> {"idle", "run", "db", "logged"}]
    /\ obj \in [Tasks -> Refs \cup {None}]
    /\ pending \in [Tasks -> Write]
    /\ todo \in [Tasks -> SUBSET Nat]
    /\ signal \in Signal
    /\ rows \in [RowIds -> Row]
    /\ lastId \in 0..MaxRows
    /\ now \in 1..MaxTime
    /\ up \in BOOLEAN
    /\ dbErrors \in 0..MaxDbErrors
    /\ restarts \in 0..MaxRestarts

\* No alarm ever writes into the row of another: whatever races, fails or is
\* restarted, the id an alarm or a statement in flight carries is the id of a row
\* of its own sensor, and no two alarms carry the same id (update_alarm's WHERE id).
RowsAreOwned ==
    /\ \A r \in Refs : alarms[r].id # None =>
           rows[alarms[r].id].sensor = alarms[r].sensor
    /\ \A r, q \in Refs : alarms[r].id = alarms[q].id => r = q \/ alarms[r].id = None
    /\ \A t \in Tasks : pending[t].kind = "update" /\ pending[t].id # None =>
           rows[pending[t].id].sensor = pending[t].row.sensor

\* A restart loses no alarm the engine still holds: a row is CLEARED only when
\* the alarm written in it is over in memory too, in whatever order the
\* statements in flight commit (update_alarm against load_active_alarms).
ClearedRowIsOver ==
    \A r \in Refs : alarms[r].id # None /\ rows[alarms[r].id].state = "CLEARED" =>
        alarms[r].state = "CLEARED"

FaultFree == dbErrors = 0 /\ restarts = 0

\* No alarm lives in memory only: while no statement has failed, a live alarm
\* has a row, or its INSERT is in flight (_active_alarms is set before insert_alarm).
LiveIsRecorded ==
    FaultFree => \A s \in Sensors : Live(s) =>
        \/ alarms[active[s]].id # None
        \/ pc["sig"] = "db" /\ obj["sig"] = active[s] /\ pending["sig"].kind = "insert"

\* Between the raise of a cause and its on_alarm_raised, two awaits later.
Raising(c) ==
    pc["sig"] \in {"db", "logged"} /\ signal.then = "raised" /\ obj["sig"] = active[c]

\* The suppression by design of cascade.py is complete: once the raise of a cause
\* has been carried through, no effect of it is active, acknowledged or returned
\* while the cause is in alarm, whatever operators and monitors do in between.
SuppressionComplete ==
    FaultFree => \A c, e \in Sensors :
        (/\ <<c, e>> \in Cascade
         /\ active[c] # None /\ alarms[active[c]].state \in Alarming
         /\ ~Raising(c))
        => ~(active[e] # None /\ alarms[active[e]].state \in Alarming \cup {"RTN_UNACK"})

\* An alarm that is over stays over: a later occurrence is a new object with a
\* new row, and no coroutine still holding the old one revives it.
ClearedIsFinal ==
    [][\A r \in Refs : alarms[r].sensor # 0 /\ alarms[r].state = "CLEARED" /\ up' =>
            alarms'[r].state = "CLEARED"]_vars

\* The alarm of a sensor stands, although nothing the alarm remembers of the sensor is recent:
\* neither its last reading nor its raise, which alone survives a restart.
Silent(s) ==
    LET a == alarms[active[s]]
    IN  /\ active[s] # None /\ a.state \in Alarming
        /\ now - (IF a.seen > a.raisedAt THEN a.seen ELSE a.raisedAt) > StaleTimeout

\* An alarm load_active_alarms has rebuilt, while no reading of its sensor has come since.
Rebuilt(s) == restarts > 0 /\ active[s] # None /\ alarms[active[s]].seen = 0

\* A sensor that went silent does not keep its alarm: an alarm without readings for longer
\* than the timeout is eventually out of alarm (_stale_alarm_loop), unless it was rebuilt at
\* a restart after the last reading: the monitor passes over an alarm without last_seen, so
\* that such an alarm may stand for ever, which docs/ALARM_ENGINE.md:174 does not say.
StaleEventuallyCleared ==
    \A s \in Sensors : (Silent(s) /\ ~Rebuilt(s)) ~> ~Silent(s)

-----------------------------------------------------------------------------
(* What the documentation says of the engine, checked as stated.           *)

\* cascade.py:15: when the cause clears, all its effects are unsuppressed.  After
\* the event of a clear is published, no effect without another cause in alarm is
\* suppressed.
ClearReleasesEffects ==
    (pc["sig"] = "logged" /\ signal.then = "published"
       /\ alarms[active[signal.sensor]].state = "CLEARED")
    => \A e \in Sensors : <<signal.sensor, e>> \in Cascade /\ ActiveCauses(e) = {} =>
          ~(active[e] # None /\ alarms[active[e]].state = "SUPPRESSED")

=============================================================================
