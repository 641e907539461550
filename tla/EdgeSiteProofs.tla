---------------------------- MODULE EdgeSiteProofs ----------------------------
(***************************************************************************)
(* Theorems about EdgeSite, for any points, devices, polling groups and    *)
(* schedules, any adapters run as processes and any number of restarts:    *)
(* what the adapters announce, and what is left once stop() has run.       *)
(***************************************************************************)
EXTENDS EdgeSite, TLAPS

AlarmNames == {"P0", "P1", "P2", "P3", NoPriority}
Qualities  == {"none", Good, Uncertain, Bad}
Readings   == [value : Values \cup {0}, quality : Qualities, alarm : AlarmNames]
AlarmEvents == [action : {"none", "RAISED", "ESCALATED", "CLEARED"}, priority : AlarmNames]

\* Where a coroutine may stand in its schedule.
Places(g) == 0..Len(Schedule[g])

-----------------------------------------------------------------------------
(* What a read makes of a value.                                            *)

\* evaluate_alarm answers one of the four priorities or none.
LEMMA AlarmIsNamed == ASSUME NEW v, NEW t PROVE EvaluateAlarm(v, t) \in AlarmNames
<1> DEFINE hit == {i \in 1..4 : Crossed(v, t, Priorities[i])}
<1>1. CASE hit = {}
  BY <1>1 DEF EvaluateAlarm, AlarmNames
<1>2. CASE hit # {}
  <2>1. \E i \in hit : \A j \in hit : i <= j
    <3>1. hit \subseteq 1..4 /\ hit # {}
      BY <1>2
    <3> HIDE DEF hit
    <3>2. CASE 1 \in hit
      BY <3>1, <3>2
    <3>3. CASE 1 \notin hit /\ 2 \in hit
      BY <3>1, <3>3
    <3>4. CASE 1 \notin hit /\ 2 \notin hit /\ 3 \in hit
      BY <3>1, <3>4
    <3>5. CASE 1 \notin hit /\ 2 \notin hit /\ 3 \notin hit
      <4>1. \A j \in hit : j = 4
        BY <3>1, <3>5
      <4>2. 4 \in hit
        BY <3>1, <4>1
      <4> QED BY <4>1, <4>2
    <3> QED BY <3>2, <3>3, <3>4, <3>5
  <2> DEFINE first == CHOOSE i \in hit : \A j \in hit : i <= j
  <2>2. first \in 1..4
    BY <2>1
  <2>3. EvaluateAlarm(v, t) = Priorities[first]
    BY <1>2 DEF EvaluateAlarm
  <2> HIDE DEF first, hit
  <2>4. Priorities[first] \in {"P0", "P1", "P2", "P3"}
    BY <2>2 DEF Priorities
  <2> QED BY <2>3, <2>4 DEF AlarmNames
<1> QED BY <1>1, <1>2

LEMMA QualityIsNamed == ASSUME NEW v, NEW r PROVE QualityOf(v, r) \in Qualities
BY DEF QualityOf, Qualities

\* What an adapter that polls by request makes of an answer, or of none.
LEMMA ConvertedIsTyped ==
    ASSUME NEW v \in Values, NEW raw \in {<<>>, <<v>>}, NEW range
    PROVE  LET r == ConvertValue(raw, "float", {}, range)
           IN  r.value \in Values \cup {0} /\ r.quality \in Qualities
<1>1. CASE raw = <<>>
  BY <1>1 DEF ConvertValue, Qualities
<1>2. CASE raw # <<>>
  BY <1>2, QualityIsNamed DEF ConvertValue
<1> QED BY <1>1, <1>2

LEMMA Layout ==
    ASSUME NEW g \in Groups
    PROVE  /\ Schedule[g] \in Seq(Points) /\ Len(Schedule[g]) \in Nat \ {0}
           /\ \A i \in 1..Len(Schedule[g]) :
                /\ Schedule[g][i] \in Points
                /\ DeviceOf[Schedule[g][i]] \in Devices
                /\ AdapterOf(Schedule[g][i]) = KindOf(g)
           /\ KindOf(g) \in Kinds
BY LayoutAssumption DEF KindOf, AdapterOf

-----------------------------------------------------------------------------
(* The adapters.                                                            *)

\* The part of the types that a read leaves alone, and the part it changes.
PlantTypes ==
    /\ plant \in [Points -> Values] /\ silent \subseteq Devices
    /\ moves \in 0..MaxMoves /\ failures \in 0..MaxFailures /\ outages \in 0..MaxOutages
ProcTypes ==
    /\ life \in [Kinds -> {"down", "starting", "polling", "stuck"}]
    /\ linked \subseteq Devices
    /\ at \in [Groups -> Nat] /\ \A g \in Groups : at[g] <= Len(Schedule[g])
ReportTypes ==
    /\ alarmState \in [Points -> AlarmNames]
    /\ topic \in [Points -> Readings]
    /\ event \in [Points -> AlarmEvents] /\ queued \in [Points -> AlarmEvents]
    /\ session \in [Kinds -> {"up", "lost", "never"}]

\* What the followers of a point's events know of it, or will once the connection is back.
Latest(p) == IF queued[p] # NoEvent THEN queued[p] ELSE event[p]
Says(e, alarm) == e.action \in {"RAISED", "ESCALATED"} /\ e.priority = alarm

\* The last event of a held alarm, sent or still queued, announces it, and nothing is queued
\* over a connection that is there.
HeldInv ==
    \A p \in Points : /\ alarmState[p] # NoPriority => Says(Latest(p), alarmState[p])
                      /\ Connected(p) => queued[p] = NoEvent

LEMMA FieldTypes == FieldTypeOK <=> PlantTypes /\ ProcTypes /\ ReportTypes
BY DEF FieldTypeOK, PlantTypes, ProcTypes, ReportTypes, AlarmNames, Qualities, Readings, AlarmEvents

\* An alarm event, if any, is one of the new alarm; without one the alarm is the old one or
\* there is none.
LEMMA TransitionSpeaks ==
    ASSUME NEW old \in AlarmNames, NEW new \in AlarmNames
    PROVE  /\ Transition(old, new) \in {"none", "RAISED", "ESCALATED", "CLEARED"}
           /\ Transition(old, new) = "none" => new = old
           /\ Transition(old, new) = "CLEARED" => new = NoPriority
BY DEF Transition, NoPriority

LEMMA PublishKeeps ==
    ASSUME NEW p \in Points, NEW v \in Values \cup {0}, NEW q \in Qualities,
           ReportTypes, HeldInv, Publish(p, v, q)
    PROVE  ReportTypes' /\ HeldInv'
<1> DEFINE alarm  == IF q = Good THEN EvaluateAlarm(v, Limits[p]) ELSE NoPriority
           action == Transition(alarmState[p], alarm)
           said   == Announcement(action, alarm)
<1>1. alarm \in AlarmNames
  BY AlarmIsNamed DEF AlarmNames
<1>2. /\ topic' \in {topic, [topic EXCEPT ![p] = [value |-> v, quality |-> q, alarm |-> alarm]]}
      /\ alarmState' = [alarmState EXCEPT ![p] = alarm]
      /\ event' = IF action # "none" /\ Connected(p) THEN [event EXCEPT ![p] = said] ELSE event
      /\ queued' = IF action # "none" /\ ~Connected(p) THEN [queued EXCEPT ![p] = said] ELSE queued
      /\ session' = session
  BY DEF Publish, PublishTelemetry, PublishAlarm
<1> HIDE DEF alarm
<1>3. /\ alarmState[p] \in AlarmNames /\ action \in {"none", "RAISED", "ESCALATED", "CLEARED"}
      /\ action = "none" => alarm = alarmState[p]
      /\ action = "CLEARED" => alarm = NoPriority
  BY <1>1, TransitionSpeaks DEF ReportTypes
<1> HIDE DEF action
<1>4. said \in AlarmEvents /\ (action # "none" => said # NoEvent)
  BY <1>1, <1>3 DEF AlarmEvents, AlarmNames, Announcement, NoEvent
<1>5. action # "none" /\ alarm # NoPriority => Says(said, alarm)
  BY <1>3 DEF Says, Announcement
<1> HIDE DEF said
<1>6. ReportTypes'
  BY <1>1, <1>2, <1>4 DEF ReportTypes, Readings
<1>7. /\ \A r \in Points : Connected(r)' <=> Connected(r)
      /\ \A r \in Points \ {p} : /\ alarmState'[r] = alarmState[r]
                                 /\ event'[r] = event[r] /\ queued'[r] = queued[r]
      /\ alarmState'[p] = alarm
      /\ event'[p] = IF action # "none" /\ Connected(p) THEN said ELSE event[p]
      /\ queued'[p] = IF action # "none" /\ ~Connected(p) THEN said ELSE queued[p]
  BY <1>2 DEF Connected, ReportTypes
<1>8. HeldInv'
  <2> SUFFICES ASSUME NEW r \in Points
               PROVE  /\ alarmState'[r] # NoPriority => Says(Latest(r)', alarmState'[r])
                      /\ Connected(r)' => queued'[r] = NoEvent
    BY DEF HeldInv, Says
  <2>1. /\ alarmState[r] # NoPriority => Says(Latest(r), alarmState[r])
        /\ Connected(r) => queued[r] = NoEvent
    BY DEF HeldInv
  <2>2. CASE r # p
    BY <1>7, <2>1, <2>2 DEF Latest
  <2>3. CASE r = p
    <3>1. Latest(p)' = IF action # "none" THEN said ELSE Latest(p)
      BY <1>4, <1>7, <2>1, <2>3 DEF Latest
    <3>2. alarm # NoPriority => Says(Latest(p)', alarm)
      BY <1>3, <1>5, <2>1, <2>3, <3>1
    <3> QED BY <1>7, <2>1, <2>3, <3>2
  <2> QED BY <2>2, <2>3
<1> QED BY <1>6, <1>8

LEMMA AdvanceTyped ==
    ASSUME NEW g \in Groups, ProcTypes, at[g] # 0, Advance(g)
    PROVE  at' \in [Groups -> Nat] /\ \A h \in Groups : at'[h] <= Len(Schedule[h])
BY Layout DEF ProcTypes, Advance

\* Where a coroutine reads, there is a point.
LEMMA PointRead ==
    ASSUME NEW g \in Groups, ProcTypes, Reading(g)
    PROVE  /\ at[g] \in 1..Len(Schedule[g])
           /\ Point(g) \in Points /\ Device(g) \in Devices
<1>1. at[g] \in 1..Len(Schedule[g])
  BY Layout DEF ProcTypes, Reading
<1> QED BY <1>1, Layout DEF Point, Device

FieldInv == PlantTypes /\ ProcTypes /\ ReportTypes /\ HeldInv

\* What is left when the announcements are left alone.
LEMMA ReportsIdle ==
    ASSUME ReportTypes, HeldInv, UNCHANGED <<alarmState, pubVars>>
    PROVE  ReportTypes' /\ HeldInv'
BY DEF ReportTypes, HeldInv, Latest, Connected, pubVars

LEMMA PollKeeps == ASSUME FieldInv, NEW g \in Groups, Poll(g) PROVE FieldInv' /\ UNCHANGED life
<1>0. PlantTypes /\ ProcTypes /\ ReportTypes /\ HeldInv
  BY DEF FieldInv
<1>1. CASE NextCycle(g)
  <2>1. ProcTypes'
    BY <1>0, <1>1, Layout DEF ProcTypes, NextCycle
  <2>2. PlantTypes'
    BY <1>0, <1>1 DEF PlantTypes, NextCycle, envVars
  <2>3. ReportTypes' /\ HeldInv'
    BY <1>0, <1>1, ReportsIdle DEF NextCycle
  <2> QED BY <1>1, <2>1, <2>2, <2>3 DEF FieldInv, NextCycle
<1>2. ASSUME Reading(g), Advance(g), linked' \subseteq Devices, UNCHANGED life, PlantTypes',
             NEW v \in Values \cup {0}, NEW q \in Qualities, Publish(Point(g), v, q)
      PROVE  FieldInv' /\ UNCHANGED life
  <2>1. ReportTypes' /\ HeldInv'
    BY <1>0, <1>2, PointRead, PublishKeeps
  <2>2. ProcTypes'
    BY <1>0, <1>2, AdvanceTyped DEF ProcTypes, Reading
  <2> QED BY <1>2, <2>1, <2>2 DEF FieldInv
<1>3. CASE ModbusRead(g)
  <2>1. plant[Point(g)] \in Values \cup {0}
    BY <1>0, <1>3, PointRead DEF PlantTypes, ModbusRead
  <2>2. PlantTypes' /\ linked' \subseteq Devices
    BY <1>0, <1>3 DEF PlantTypes, ProcTypes, ModbusRead, envVars
  <2> QED BY <1>2, <1>3, <2>1, <2>2, QualityIsNamed DEF ModbusRead, Measured
<1>4. CASE ModbusLost(g)
  <2>1. PlantTypes' /\ linked' \subseteq Devices
    BY <1>0, <1>4 DEF PlantTypes, ProcTypes, ModbusLost, envVars
  <2> QED BY <1>2, <1>4, <2>1 DEF ModbusLost, Failed, Qualities
<1>5. CASE ModbusError(g)
  <2>1. PlantTypes' /\ linked' \subseteq Devices
    BY <1>0, <1>5, FieldBoundsAssumption DEF PlantTypes, ProcTypes, ModbusError
  <2> QED BY <1>2, <1>5, <2>1 DEF ModbusError, Failed, Qualities
<1>6. CASE SnmpRead(g)
  <2> DEFINE r == ConvertValue(SnmpGet(Point(g)), "float", {}, Range[Point(g)])
  <2>1. plant[Point(g)] \in Values
    BY <1>0, <1>6, PointRead DEF PlantTypes, SnmpRead
  <2>2. r.value \in Values \cup {0} /\ r.quality \in Qualities
    BY <2>1, ConvertedIsTyped DEF SnmpGet
  <2>3. PlantTypes' /\ linked' \subseteq Devices
    BY <1>0, <1>6, PointRead DEF PlantTypes, ProcTypes, SnmpRead, envVars
  <2>4. Publish(Point(g), r.value, r.quality) /\ Reading(g) /\ Advance(g) /\ UNCHANGED life
    BY <1>6 DEF SnmpRead
  <2> HIDE DEF r
  <2> QED BY <1>2, <2>2, <2>3, <2>4
<1>7. CASE BacnetRead(g)
  <2> DEFINE r == ConvertValue(SafeRead(Point(g)), "float", {}, Range[Point(g)])
  <2>1. plant[Point(g)] \in Values
    BY <1>0, <1>7, PointRead DEF PlantTypes, BacnetRead
  <2>2. r.value \in Values \cup {0} /\ r.quality \in Qualities
    BY <2>1, ConvertedIsTyped DEF SafeRead
  <2>3. PlantTypes' /\ linked' \subseteq Devices
    BY <1>0, <1>7 DEF PlantTypes, ProcTypes, BacnetRead, envVars
  <2>4. Publish(Point(g), r.value, r.quality) /\ Reading(g) /\ Advance(g) /\ UNCHANGED life
    BY <1>7 DEF BacnetRead
  <2> HIDE DEF r
  <2> QED BY <1>2, <2>2, <2>3, <2>4
<1> QED BY <1>1, <1>3, <1>4, <1>5, <1>6, <1>7 DEF Poll, ModbusPoll, SnmpPoll, BacnetPoll

\* The devices, and what surrounds the adapters.
LEMMA ModbusUpKeeps == ASSUME FieldInv, ModbusUp
                       PROVE  /\ FieldInv'
                              /\ \A k \in Kinds : life'[k] = "down" <=> life[k] = "down"
<1>0. PlantTypes /\ ProcTypes /\ ReportTypes /\ HeldInv
  BY DEF FieldInv
<1>1. UNCHANGED <<alarmState, pubVars, envVars, at>>
  BY DEF ModbusUp, ModbusReady, ModbusConnect
<1>2. linked' \subseteq Devices
  BY <1>0 DEF ModbusUp, ModbusReady, ModbusConnect, ProcTypes, DevicesOf
<1>3. /\ life' \in [Kinds -> {"down", "starting", "polling", "stuck"}]
      /\ \A k \in Kinds : life'[k] = "down" <=> life[k] = "down"
  BY <1>0 DEF ModbusUp, ModbusReady, ModbusConnect, ProcTypes
<1>4. PlantTypes' /\ ProcTypes'
  BY <1>0, <1>1, <1>2, <1>3 DEF PlantTypes, ProcTypes, envVars
<1> QED BY <1>0, <1>1, <1>3, <1>4, ReportsIdle DEF FieldInv

LEMMA PlantKeeps ==
    ASSUME FieldInv, \/ \E d \in Devices : FallSilent(d) \/ AnswerAgain(d)
                     \/ \E p \in Points : Move(p)
    PROVE  FieldInv' /\ UNCHANGED life
<1>0. PlantTypes /\ ProcTypes /\ ReportTypes /\ HeldInv
  BY DEF FieldInv
<1>1. UNCHANGED <<alarmState, pubVars, life, linked, at>>
  BY DEF FallSilent, AnswerAgain, Move, procVars
<1>2. plant' \in [Points -> Values] /\ silent' \subseteq Devices
  BY <1>0 DEF PlantTypes, FallSilent, AnswerAgain, Move
<1>3. moves' \in 0..MaxMoves /\ failures' \in 0..MaxFailures /\ outages' \in 0..MaxOutages
  BY <1>0, FieldBoundsAssumption DEF PlantTypes, FallSilent, AnswerAgain, Move
<1>4. PlantTypes' /\ ProcTypes'
  BY <1>0, <1>1, <1>2, <1>3 DEF PlantTypes, ProcTypes
<1> QED BY <1>0, <1>1, <1>4, ReportsIdle DEF FieldInv

\* A process that starts finds its adapter's memory empty; one that ends leaves all as it is.
LEMMA BootKeeps == ASSUME FieldInv, NEW k \in Kinds, Boot(k)
                   PROVE  /\ FieldInv'
                          /\ life[k] = "down" /\ life'[k] # "down"
                          /\ \A j \in Kinds \ {k} : life'[j] = life[j]
<1>0. PlantTypes /\ ProcTypes /\ ReportTypes /\ HeldInv
  BY DEF FieldInv
<1>1. PICK state \in {"starting", "polling"} : Launch(k, state)
  BY DEF Boot, ModbusStart, SnmpStart, BacnetStart
<1>2. /\ life[k] = "down" /\ life' = [life EXCEPT ![k] = state]
      /\ UNCHANGED <<topic, event, plant, silent, moves, failures>>
  BY <1>1 DEF Launch
<1>3. life' \in [Kinds -> {"down", "starting", "polling", "stuck"}]
  BY <1>0, <1>2 DEF ProcTypes
<1>4. linked' \subseteq Devices
  BY <1>0, <1>1 DEF Launch, ProcTypes
<1>5. at' \in [Groups -> Nat] /\ \A g \in Groups : at'[g] <= Len(Schedule[g])
  BY <1>0, <1>1, Layout DEF Launch, ProcTypes
<1>6. /\ alarmState' = [p \in Points |-> IF p \in PointsOf(k) THEN NoPriority ELSE alarmState[p]]
      /\ queued' = [p \in Points |-> IF p \in PointsOf(k) THEN NoEvent ELSE queued[p]]
  BY <1>1 DEF Launch
<1>7. alarmState' \in [Points -> AlarmNames] /\ queued' \in [Points -> AlarmEvents]
  BY <1>0, <1>6 DEF ReportTypes, AlarmNames, AlarmEvents, NoEvent
<1>8. PICK s \in {"up", "lost", "never"} : session' = [session EXCEPT ![k] = s]
  BY <1>1 DEF Launch, BrokerConnect
<1>9. outages' \in 0..MaxOutages
  BY <1>0, <1>1, FieldBoundsAssumption DEF Launch, BrokerConnect, PlantTypes
<1>10. PlantTypes' /\ ProcTypes' /\ ReportTypes'
  BY <1>0, <1>2, <1>3, <1>4, <1>5, <1>7, <1>8, <1>9 DEF PlantTypes, ProcTypes, ReportTypes
<1>11. HeldInv'
  <2> SUFFICES ASSUME NEW p \in Points
               PROVE  /\ alarmState'[p] # NoPriority => Says(Latest(p)', alarmState'[p])
                      /\ Connected(p)' => queued'[p] = NoEvent
    BY DEF HeldInv, Says
  <2>1. CASE p \in PointsOf(k)
    BY <1>6, <2>1
  <2>2. CASE p \notin PointsOf(k)
    <3>1. AdapterOf(p) \in Kinds \ {k}
      BY <2>2, LayoutAssumption DEF PointsOf, AdapterOf
    <3>2. Connected(p)' <=> Connected(p)
      BY <1>0, <1>8, <3>1 DEF Connected, ReportTypes
    <3>3. alarmState'[p] = alarmState[p] /\ queued'[p] = queued[p] /\ event' = event
      BY <1>2, <1>6, <2>2
    <3> QED BY <1>0, <3>2, <3>3 DEF HeldInv, Latest
  <2> QED BY <2>1, <2>2
<1> QED BY <1>0, <1>2, <1>10, <1>11 DEF FieldInv, ProcTypes

\* A connection to the broker that is lost leaves every event where it is; one that is made
\* again delivers what is queued.
LEMMA SessionKeeps ==
    ASSUME FieldInv, NEW k \in Kinds, SessionLost(k) \/ SessionBack(k)
    PROVE  FieldInv' /\ UNCHANGED life
<1>0. PlantTypes /\ ProcTypes /\ ReportTypes /\ HeldInv
  BY DEF FieldInv
<1>1. UNCHANGED <<life, linked, at, alarmState, topic, plant, silent, moves, failures>>
  BY DEF SessionLost, SessionBack, procVars, envVars
<1>2. outages' \in 0..MaxOutages
  BY <1>0, FieldBoundsAssumption DEF SessionLost, SessionBack, envVars, PlantTypes
<1>3. PlantTypes' /\ ProcTypes'
  BY <1>0, <1>1, <1>2 DEF PlantTypes, ProcTypes
<1>4. CASE SessionLost(k)
  <2>1. session' = [session EXCEPT ![k] = "lost"] /\ UNCHANGED <<event, queued>>
    BY <1>4 DEF SessionLost
  <2>2. ReportTypes'
    BY <1>0, <1>1, <2>1 DEF ReportTypes
  <2>3. \A p \in Points : Connected(p)' => Connected(p)
    BY <1>0, <2>1, LayoutAssumption DEF Connected, ReportTypes, AdapterOf
  <2>4. HeldInv'
    BY <1>0, <1>1, <2>1, <2>3 DEF HeldInv, Latest
  <2> QED BY <1>1, <1>3, <2>2, <2>4 DEF FieldInv
<1>5. CASE SessionBack(k)
  <2>1. /\ session' = [session EXCEPT ![k] = "up"]
        /\ event' = [p \in Points |-> IF p \in PointsOf(k) /\ queued[p] # NoEvent
                                      THEN queued[p] ELSE event[p]]
        /\ queued' = [p \in Points |-> IF p \in PointsOf(k) THEN NoEvent ELSE queued[p]]
    BY <1>5 DEF SessionBack
  <2>2. NoEvent \in AlarmEvents
    BY DEF NoEvent, AlarmEvents, AlarmNames
  <2>3. ReportTypes'
    BY <1>0, <1>1, <2>1, <2>2 DEF ReportTypes
  <2>4. \A p \in Points : Connected(p)' => p \in PointsOf(k) \/ Connected(p)
    BY <1>0, <2>1, LayoutAssumption DEF Connected, ReportTypes, AdapterOf, PointsOf
  <2>5. \A p \in Points : Latest(p)' = Latest(p)
    BY <2>1 DEF Latest
  <2>6. HeldInv'
    <3> SUFFICES ASSUME NEW p \in Points
                 PROVE  /\ alarmState'[p] # NoPriority => Says(Latest(p)', alarmState'[p])
                        /\ Connected(p)' => queued'[p] = NoEvent
      BY DEF HeldInv, Says
    <3>1. alarmState[p] # NoPriority => Says(Latest(p), alarmState[p])
      BY <1>0 DEF HeldInv
    <3>2. Connected(p)' => queued'[p] = NoEvent
      BY <1>0, <2>1, <2>4 DEF HeldInv
    <3> QED BY <1>1, <2>5, <3>1, <3>2
  <2> QED BY <1>1, <1>3, <2>3, <2>6 DEF FieldInv
<1> QED BY <1>4, <1>5

\* A step that only moves processes between running, blocked and down.
LEMMA LifeKeeps ==
    ASSUME FieldInv, life' \in [Kinds -> {"down", "starting", "polling", "stuck"}],
           UNCHANGED <<linked, at, alarmState, pubVars, envVars>>
    PROVE  FieldInv'
BY ReportsIdle DEF FieldInv, PlantTypes, ProcTypes, envVars

LEMMA FieldStepKeeps == ASSUME FieldInv, FieldStep
                        PROVE  /\ FieldInv'
                               /\ \A k \in Kinds : life'[k] = "down" <=> life[k] = "down"
<1>1. CASE \E g \in Groups : Poll(g)
  BY <1>1, PollKeeps
<1>2. CASE ModbusUp
  BY <1>2, ModbusUpKeeps
<1>3. CASE \/ \E d \in Devices : FallSilent(d) \/ AnswerAgain(d)
           \/ \E p \in Points : Move(p)
  BY <1>3, PlantKeeps
<1>4. CASE \E k \in Kinds : SessionLost(k) \/ SessionBack(k)
  BY <1>4, SessionKeeps
<1> QED BY <1>1, <1>2, <1>3, <1>4 DEF FieldStep

-----------------------------------------------------------------------------
(* The supervisor.                                                          *)

\* Only a process somebody watches is alive, and only one that may be counted once more is
\* watched; once stop() has run none is left.
SupInv ==
    /\ SupTypeOK
    /\ \A n \in Adapters : /\ Alive(n) => sup[n] = "watch"
                           /\ sup[n] = "watch" => restarts[n] <= MaxRestarts
    /\ ~running => \A n \in Adapters : ~Alive(n)

LEMMA CountTyped ==
    ASSUME SupInv, NEW n \in Adapters, Count(n), restarts[n] <= MaxRestarts
    PROVE  /\ restarts' \in [Adapters -> 0..MaxRestarts + 1]
           /\ sup' \in [Adapters -> {"start", "watch", "wait", "done"}]
           /\ sup'[n] # "watch"
           /\ \A m \in Adapters \ {n} : sup'[m] = sup[m] /\ restarts'[m] = restarts[m]
BY SupervisorBoundsAssumption DEF SupInv, SupTypeOK, Count

LEMMA SpawnKeeps == ASSUME SupInv, NEW n \in Adapters, Spawn(n)
                    PROVE  SupInv' /\ running /\ proc' = [proc EXCEPT ![n] = "alive"]
BY DEF SupInv, SupTypeOK, Alive, Spawn

LEMMA SpawnFailsKeeps == ASSUME SupInv, NEW n \in Adapters, SpawnFails(n)
                         PROVE  SupInv' /\ UNCHANGED proc
<1>1. exits' \in 0..MaxExits /\ UNCHANGED <<running, proc>>
  BY SupervisorBoundsAssumption DEF SupInv, SupTypeOK, SpawnFails
<1>2. Count(n) /\ restarts[n] <= MaxRestarts /\ sup[n] = "start"
  BY DEF SpawnFails
<1> QED BY <1>1, <1>2, CountTyped DEF SupInv, SupTypeOK, Alive

LEMMA NoticeKeeps == ASSUME SupInv, NEW n \in Adapters, Notice(n)
                     PROVE  SupInv' /\ UNCHANGED proc
<1>1. /\ UNCHANGED <<running, proc, exits>> /\ Count(n) /\ ~Alive(n)
      /\ restarts[n] <= MaxRestarts
  BY DEF SupInv, Notice
<1> QED BY <1>1, CountTyped DEF SupInv, SupTypeOK, Alive

LEMMA WaitedKeeps == ASSUME SupInv, NEW n \in Adapters, Waited(n)
                     PROVE  SupInv' /\ UNCHANGED proc
BY DEF SupInv, SupTypeOK, Alive, Waited

\* A coroutine that ends has no process to end.
LEMMA FinishKeeps == ASSUME SupInv, NEW n \in Adapters, Finish(n)
                     PROVE  SupInv' /\ UNCHANGED proc
<1>1. proc[n] = "dead"
  BY DEF SupInv, SupTypeOK, Alive, Finish
<1>2. UNCHANGED proc
  BY <1>1 DEF SupInv, SupTypeOK, Finish
<1> QED BY <1>1, <1>2 DEF SupInv, SupTypeOK, Alive, Finish

LEMMA ExitKeeps == ASSUME SupInv, NEW n \in Adapters, Exit(n)
                   PROVE  SupInv' /\ proc' = [proc EXCEPT ![n] = "dead"]
<1>1. exits' \in 0..MaxExits
  BY SupervisorBoundsAssumption DEF SupInv, SupTypeOK, Exit
<1> QED BY <1>1 DEF SupInv, SupTypeOK, Alive, Exit

LEMMA StopKeeps == ASSUME SupInv, Stop PROVE SupInv' /\ \A n \in Adapters : ~Alive(n)'
BY DEF SupInv, SupTypeOK, Alive, Stop

LEMMA SupIdle == ASSUME SupInv, UNCHANGED supVars PROVE SupInv' /\ UNCHANGED proc
BY DEF SupInv, SupTypeOK, Alive, supVars

-----------------------------------------------------------------------------
(* The site.                                                                *)

\* An adapter run as a process has a life exactly while the process has.
LivesAgree == \A k \in Adapters : Alive(k) <=> life[k] # "down"

SiteInv == FieldInv /\ SupInv /\ LivesAgree

LEMMA SiteStarts == SiteInit => SiteInv
<1> SUFFICES ASSUME SiteInit PROVE SiteInv
  OBVIOUS
<1>1. PlantTypes
  BY ValuesAssumption, FieldBoundsAssumption DEF SiteInit, FieldInit, PlantTypes
<1>2. ProcTypes
  <2>1. life \in [Kinds -> {"down", "starting", "polling", "stuck"}]
    BY DEF SiteInit
  <2> QED BY <2>1, Layout DEF SiteInit, FieldInit, ProcTypes
<1>3. ReportTypes
  <2>1. NoReading \in Readings /\ NoEvent \in AlarmEvents /\ NoPriority \in AlarmNames
    BY DEF NoReading, NoEvent, Readings, AlarmEvents, Qualities, AlarmNames
  <2> QED BY <2>1 DEF SiteInit, FieldInit, ReportTypes
<1>4. HeldInv
  BY DEF SiteInit, FieldInit, HeldInv, Connected
<1>5. SupInv
  BY SupervisorBoundsAssumption DEF SiteInit, SupInit, SupInv, SupTypeOK, Alive
<1>6. LivesAgree
  BY SiteAssumption DEF SiteInit, SupInit, LivesAgree, Alive
<1> QED BY <1>1, <1>2, <1>3, <1>4, <1>5, <1>6 DEF SiteInv, FieldInv

LEMMA SiteStep == SiteInv /\ [SiteNext]_siteVars => SiteInv'
<1> SUFFICES ASSUME SiteInv, [SiteNext]_siteVars PROVE SiteInv'
  OBVIOUS
<1>0. FieldInv /\ SupInv /\ LivesAgree /\ Adapters \subseteq Kinds
  BY SiteAssumption DEF SiteInv
<1>1. CASE FieldStep /\ UNCHANGED supVars
  BY <1>0, <1>1, FieldStepKeeps, SupIdle DEF SiteInv, LivesAgree, Alive
<1>2. ASSUME UNCHANGED fieldVars PROVE FieldInv' /\ UNCHANGED life
  BY <1>0, <1>2, LifeKeeps DEF fieldVars, procVars, FieldInv, ProcTypes
<1>3. ASSUME NEW k \in Adapters, Supervise(k) PROVE SiteInv'
  <2>1. CASE Start(k)
    <3>1. FieldInv' /\ SupInv'
      BY <1>0, <2>1, BootKeeps, SpawnKeeps DEF Start
    <3>2. LivesAgree'
      BY <1>0, <2>1, BootKeeps, SpawnKeeps DEF Start, LivesAgree, Alive, SupInv, SupTypeOK
    <3> QED BY <3>1, <3>2 DEF SiteInv
  <2>2. CASE (Notice(k) \/ Waited(k) \/ Finish(k)) /\ UNCHANGED fieldVars
    BY <1>0, <1>2, <2>2, NoticeKeeps, WaitedKeeps, FinishKeeps DEF SiteInv, LivesAgree, Alive
  <2> QED BY <1>3, <2>1, <2>2 DEF Supervise
<1>4. ASSUME NEW k \in Adapters, CrashDown(k) PROVE SiteInv'
  <2>1. SupInv' /\ proc' = [proc EXCEPT ![k] = "dead"]
    BY <1>0, <1>4, ExitKeeps DEF CrashDown
  <2>2. /\ life' = [life EXCEPT ![k] = "down"]
        /\ UNCHANGED <<linked, at, alarmState, pubVars, envVars>>
    BY <1>4 DEF CrashDown, Down
  <2>3. FieldInv'
    BY <1>0, <2>2, LifeKeeps DEF FieldInv, ProcTypes
  <2>4. LivesAgree'
    BY <1>0, <2>1, <2>2 DEF LivesAgree, Alive, FieldInv, ProcTypes, SupInv, SupTypeOK
  <2> QED BY <2>1, <2>3, <2>4 DEF SiteInv
<1>5. ASSUME NEW k \in Adapters, Block(k) PROVE SiteInv'
  <2>1. /\ life' = [life EXCEPT ![k] = "stuck"] /\ Alive(k)
        /\ UNCHANGED <<linked, at, alarmState, pubVars, envVars>>
    BY <1>5 DEF Block
  <2>2. SupInv' /\ UNCHANGED proc
    BY <1>0, <1>5, SupIdle DEF Block
  <2>3. FieldInv'
    BY <1>0, <2>1, LifeKeeps DEF FieldInv, ProcTypes
  <2>4. LivesAgree'
    BY <1>0, <2>1, <2>2 DEF LivesAgree, Alive, FieldInv, ProcTypes
  <2> QED BY <2>2, <2>3, <2>4 DEF SiteInv
<1>6. ASSUME NEW k \in Adapters, SpawnFails(k) /\ UNCHANGED fieldVars PROVE SiteInv'
  BY <1>0, <1>2, <1>6, SpawnFailsKeeps DEF SiteInv, LivesAgree, Alive
<1>7. CASE Shutdown
  <2>1. SupInv' /\ \A n \in Adapters : ~Alive(n)'
    BY <1>0, <1>7, StopKeeps DEF Shutdown
  <2>2. /\ life' = [k \in Kinds |-> IF k \in Adapters THEN "down" ELSE life[k]]
        /\ UNCHANGED <<linked, at, alarmState, pubVars, envVars>>
    BY <1>7 DEF Shutdown
  <2>3. FieldInv'
    BY <1>0, <2>2, LifeKeeps DEF FieldInv, ProcTypes
  <2>4. LivesAgree'
    BY <1>0, <2>1, <2>2 DEF LivesAgree
  <2> QED BY <2>1, <2>3, <2>4 DEF SiteInv
<1>8. CASE UNCHANGED siteVars
  <2>1. UNCHANGED fieldVars /\ UNCHANGED supVars
    BY <1>8 DEF siteVars
  <2> QED BY <1>0, <1>2, <2>1, SupIdle DEF SiteInv, LivesAgree, Alive
<1> QED BY <1>1, <1>3, <1>4, <1>5, <1>6, <1>7, <1>8 DEF SiteNext

\* The inductive invariant, of every behaviour.
THEOREM SiteInvariant == SiteSpec => []SiteInv
<1> QED BY SiteStarts, SiteStep, PTL DEF SiteSpec

LEMMA SiteSafety == SiteInv => NothingOutlivesStop /\ HeldAlarmsAnnounced
<1> SUFFICES ASSUME SiteInv PROVE NothingOutlivesStop /\ HeldAlarmsAnnounced
  OBVIOUS
<1>1. NothingOutlivesStop
  BY FieldTypes DEF SiteInv, FieldInv, SupInv, LivesAgree, NothingOutlivesStop
<1>2. \A p \in Points : Connected(p) => Latest(p) = event[p]
  BY DEF SiteInv, FieldInv, HeldInv, Latest
<1>3. HeldAlarmsAnnounced
  BY <1>2 DEF SiteInv, FieldInv, HeldInv, HeldAlarmsAnnounced, Says
<1> QED BY <1>1, <1>3

\* Once stop() has run no adapter process is alive and none comes back, whichever await of a
\* supervising coroutine stop() met; and an adapter polls only while its process is there
\* (_start_adapter_process).
THEOREM StopIsFinal == SiteSpec => []NothingOutlivesStop
<1> QED BY SiteInvariant, SiteSafety, PTL

\* An alarm held by an adapter whose client is connected was announced with the priority it
\* holds, over reads that fail, connections to devices and to the broker that are lost, exits
\* and restarts: what is published without a connection is queued until there is one
\* (check_alarm_transition, publish_alarm, run_poll_group).
THEOREM HeldAlarmsWereAnnounced == SiteSpec => []HeldAlarmsAnnounced
<1> QED BY SiteInvariant, SiteSafety, PTL

=============================================================================
