---------------------------- MODULE FieldAdapters ----------------------------
(***************************************************************************)
(* The field adapters: edge/modbus_adapter.py, edge/snmp_adapter.py and    *)
(* edge/bacnet_adapter.py.  Each is a process with one coroutine for each  *)
(* polling group, which reads the group's points one after another, over   *)
(* all devices, and publishes a reading and, when the alarm of a point     *)
(* changes, an alarm event.                                                *)
(*                                                                         *)
(* A Modbus read needs a connection, and connect() retries for ever; an    *)
(* SNMP or a BACnet read of a device that does not answer ends after its   *)
(* time-outs.  The subscriptions of the BACnet adapter (COV) never deliver *)
(* a value: the call that registers the callback is commented out.         *)
(* One message per topic is retained by the local broker; the events of a  *)
(* point are delivered in order (QoS 1), and what counts is the last one.  *)
(* Without a connection paho drops what is published with QoS 0 and queues *)
(* what is published with QoS 1, in the memory of the process, until its   *)
(* loop has connected again; connect() starts no loop when the broker      *)
(* refuses the first connection.                                           *)
(***************************************************************************)
EXTENDS FieldReadings, FiniteSets

CONSTANTS
    Points,      \* sensor tags
    Devices,     \* field devices
    DeviceOf,    \* the device of each point
    Kind,        \* the adapter of each device: "modbus", "snmp" or "bacnet"
    Groups,      \* polling groups that have points
    Schedule,    \* the points of a group, in the order they are read
    Limits,      \* the alarm thresholds of each point
    Range,       \* range_min and range_max of each point
    Values,      \* what a point may measure
    Rest,        \* what it measures at first
    Moving,      \* bound: the points whose value changes
    Flaky,       \* bound: the devices that may fall silent
    MaxMoves,    \* bound: changes of what the points measure
    MaxOutages,  \* bound: connections to the local broker lost or not made
    MaxFailures  \* bound: devices that fall silent, reads that are answered with an error

Kinds == {"modbus", "snmp", "bacnet"}
\* A point belongs to the adapter whose configuration file lists it, under its device.
AdapterOf(p) == Kind[DeviceOf[p]]

ASSUME LayoutAssumption ==
    /\ DeviceOf \in [Points -> Devices]
    /\ Kind \in [Devices -> Kinds]
    /\ Schedule \in [Groups -> Seq(Points)]
    /\ \A g \in Groups :
         /\ Schedule[g] # <<>>
         /\ \A i, j \in 1..Len(Schedule[g]) : AdapterOf(Schedule[g][i]) = AdapterOf(Schedule[g][j])
ASSUME ValuesAssumption ==
    /\ Values \subseteq Int /\ Rest \in Values
    /\ Range \in [Points -> Int \X Int]
ASSUME FieldBoundsAssumption ==
    /\ Moving \subseteq Points /\ Flaky \subseteq Devices
    /\ MaxMoves \in Nat /\ MaxFailures \in Nat /\ MaxOutages \in Nat

VARIABLES
    plant,       \* what each point measures
    silent,      \* the devices that do not answer
    life,        \* where each adapter's process is
    linked,      \* the devices whose reader holds them for connected or online
    at,          \* the place of each group's coroutine; 0 while it sleeps
    alarmState,  \* _alarm_states
    topic,       \* the retained reading of each point
    event,       \* the last alarm event of each point at the broker
    queued,      \* the last one of each point that its adapter's client has not sent
    session,     \* each adapter's client: "up", "lost" while its loop reconnects, or "never"
    moves, failures, outages

procVars  == <<life, linked, at, alarmState>>
pubVars   == <<topic, event, queued, session>>
envVars   == <<plant, silent, moves, failures, outages>>
fieldVars == <<procVars, pubVars, envVars>>

NoEvent   == [action |-> "none", priority |-> NoPriority]
NoReading == [value |-> 0, quality |-> "none", alarm |-> NoPriority]

KindOf(g)   == AdapterOf(Schedule[g][1])
GroupsOf(k) == {g \in Groups : KindOf(g) = k}
PointsOf(k) == {p \in Points : AdapterOf(p) = k}
DevicesOf(k) == {d \in Devices : Kind[d] = k}

Reading(g) == at[g] # 0 /\ life[KindOf(g)] = "polling"
Point(g)   == Schedule[g][at[g]]
Device(g)  == DeviceOf[Point(g)]
Answers(d) == d \notin silent

-----------------------------------------------------------------------------
(* run_poll_group, after a read.                                           *)

\* check_alarm_transition.
Transition(prev, new) ==
    CASE prev = NoPriority /\ new # NoPriority -> "RAISED"
      [] prev # NoPriority /\ new = NoPriority -> "CLEARED"
      [] prev # NoPriority /\ new # NoPriority /\ prev # new -> "ESCALATED"
      [] OTHER -> "none"

Connected(p) == session[AdapterOf(p)] = "up"

\* publish_telemetry: the topic of a point retains the last message that got through.
PublishTelemetry(p, value, quality, alarm) ==
    topic' = IF Connected(p)
             THEN [topic EXCEPT ![p] = [value |-> value, quality |-> quality, alarm |-> alarm]]
             ELSE topic

\* The Modbus adapter looks up the alarm it has just overwritten for the priority of a
\* clear event, and finds none: it is P3 in all three.
Announcement(action, alarm) ==
    [action |-> action, priority |-> IF action = "CLEARED" THEN "P3" ELSE alarm]

\* publish_alarm.
PublishAlarm(p, action, alarm) ==
    /\ event' = IF action # "none" /\ Connected(p)
                THEN [event EXCEPT ![p] = Announcement(action, alarm)] ELSE event
    /\ queued' = IF action # "none" /\ ~Connected(p)
                 THEN [queued EXCEPT ![p] = Announcement(action, alarm)] ELSE queued

\* Mutant: an alarm whose priority changes is not announced again.
RaiseOnce(p, value, quality) ==
    LET alarm  == IF quality = Good THEN EvaluateAlarm(value, Limits[p]) ELSE NoPriority
        action == Transition(alarmState[p], alarm)
    IN  /\ PublishTelemetry(p, value, quality, alarm)
        /\ PublishAlarm(p, IF action = "ESCALATED" THEN "none" ELSE action, alarm)
        /\ alarmState' = [alarmState EXCEPT ![p] = alarm]
        /\ UNCHANGED session

\* Only a good value has an alarm, so that a read that fails clears the alarm of its
\* point.  The alarm is what it is whether or not its event got through.
Publish(p, value, quality) ==
    LET alarm == IF quality = Good THEN EvaluateAlarm(value, Limits[p]) ELSE NoPriority IN
    /\ PublishTelemetry(p, value, quality, alarm)
    /\ PublishAlarm(p, Transition(alarmState[p], alarm), alarm)
    /\ alarmState' = [alarmState EXCEPT ![p] = alarm]
    /\ UNCHANGED session

Advance(g) == at' = [at EXCEPT ![g] = IF @ = Len(Schedule[g]) THEN 0 ELSE @ + 1]

Measured(g) ==
    LET p == Point(g) IN
    /\ Publish(p, plant[p], QualityOf(plant[p], Range[p]))
    /\ Advance(g)

Failed(g) ==
    /\ Publish(Point(g), 0, Bad)
    /\ Advance(g)

NextCycle(g) ==
    /\ at[g] = 0 /\ life[KindOf(g)] = "polling"
    /\ at' = [at EXCEPT ![g] = 1]
    /\ UNCHANGED <<life, linked, alarmState, pubVars, envVars>>

-----------------------------------------------------------------------------
(* ModbusDeviceReader.                                                     *)

\* Mutant: a device that is lost is not connected again.
ConnectOnce(d) ==
    /\ d \notin linked
    /\ life["modbus"] = "starting"
    /\ Answers(d)
    /\ linked' = linked \cup {d}
    /\ UNCHANGED <<life, at, alarmState, pubVars, envVars>>

\* connect(): by start() for every device, and by a read of one that is lost.
ModbusConnect(d) ==
    /\ d \notin linked
    /\ \/ life["modbus"] = "starting"
       \/ \E g \in GroupsOf("modbus") : Reading(g) /\ Device(g) = d
    /\ Answers(d)
    /\ linked' = linked \cup {d}
    /\ UNCHANGED <<life, at, alarmState, pubVars, envVars>>

\* start() polls when all devices are connected.
ModbusReady ==
    /\ life["modbus"] = "starting"
    /\ DevicesOf("modbus") \subseteq linked
    /\ life' = [life EXCEPT !["modbus"] = "polling"]
    /\ UNCHANGED <<linked, at, alarmState, pubVars, envVars>>

ModbusRead(g) ==
    /\ KindOf(g) = "modbus" /\ Reading(g)
    /\ Device(g) \in linked /\ Answers(Device(g))
    /\ Measured(g)
    /\ UNCHANGED <<life, linked, envVars>>

\* ConnectionException.
ModbusLost(g) ==
    /\ KindOf(g) = "modbus" /\ Reading(g)
    /\ Device(g) \in linked /\ ~Answers(Device(g))
    /\ linked' = linked \ {Device(g)}
    /\ Failed(g)
    /\ UNCHANGED <<life, envVars>>

\* An answer with an error code, or another exception.
ModbusError(g) ==
    /\ KindOf(g) = "modbus" /\ Reading(g)
    /\ Device(g) \in linked
    /\ failures < MaxFailures /\ failures' = failures + 1
    /\ Failed(g)
    /\ UNCHANGED <<life, linked, plant, silent, moves, outages>>

-----------------------------------------------------------------------------
(* SNMPDeviceReader.read_oid and BACnetDeviceReader.read_object.           *)

\* snmp_get: the value, or an error.
SnmpGet(p) == IF Answers(DeviceOf[p]) THEN <<plant[p]>> ELSE <<>>

SnmpRead(g) ==
    /\ KindOf(g) = "snmp" /\ Reading(g)
    /\ LET p == Point(g)
           r == ConvertValue(SnmpGet(p), "float", {}, Range[p])
       IN  Publish(p, r.value, r.quality)
    /\ Advance(g)
    /\ linked' = IF Answers(Device(g)) THEN linked \cup {Device(g)} ELSE linked \ {Device(g)}
    /\ UNCHANGED <<life, envVars>>

\* _safe_read: nothing, when the device does not answer or BAC0 is not there.
SafeRead(p) == IF Answers(DeviceOf[p]) THEN <<plant[p]>> ELSE <<>>

\* No notification of a change of value ever arrives: subscribe_cov only notes the
\* subscription, and every read falls back to polling.
BacnetRead(g) ==
    /\ KindOf(g) = "bacnet" /\ Reading(g)
    /\ LET p == Point(g)
           r == ConvertValue(SafeRead(p), "float", {}, Range[p])
       IN  Publish(p, r.value, r.quality)
    /\ Advance(g)
    /\ UNCHANGED <<life, linked, envVars>>

-----------------------------------------------------------------------------
(* The processes and the plant.                                            *)

\* MQTTPublisher.connect: the client connects, or the broker is slow to answer and the loop
\* goes on trying, or it refuses and no loop is started.
BrokerConnect(k) ==
    \/ session' = [session EXCEPT ![k] = "up"] /\ UNCHANGED outages
    \/ /\ outages < MaxOutages /\ outages' = outages + 1
       /\ \E s \in {"lost", "never"} : session' = [session EXCEPT ![k] = s]

\* A process starts with nothing in memory.
Launch(k, state) ==
    /\ life[k] = "down"
    /\ life' = [life EXCEPT ![k] = state]
    /\ linked' = linked \ DevicesOf(k)
    /\ at' = [g \in Groups |-> IF g \in GroupsOf(k) THEN 0 ELSE at[g]]
    /\ alarmState' = [p \in Points |-> IF p \in PointsOf(k) THEN NoPriority ELSE alarmState[p]]
    /\ queued' = [p \in Points |-> IF p \in PointsOf(k) THEN NoEvent ELSE queued[p]]
    /\ BrokerConnect(k)
    /\ UNCHANGED <<topic, event, plant, silent, moves, failures>>

ModbusStart == Launch("modbus", "starting")
SnmpStart   == Launch("snmp", "polling")
BacnetStart == Launch("bacnet", "polling")

Boot(k) ==
    \/ k = "modbus" /\ ModbusStart
    \/ k = "snmp" /\ SnmpStart
    \/ k = "bacnet" /\ BacnetStart

Down(k) ==
    /\ life[k] # "down"
    /\ life' = [life EXCEPT ![k] = "down"]
    /\ UNCHANGED <<linked, at, alarmState, pubVars, envVars>>

Move(p) ==
    /\ p \in Moving /\ moves < MaxMoves /\ moves' = moves + 1
    /\ \E v \in Values \ {plant[p]} : plant' = [plant EXCEPT ![p] = v]
    /\ UNCHANGED <<silent, failures, outages, procVars, pubVars>>

FallSilent(d) ==
    /\ d \in Flaky /\ Answers(d)
    /\ failures < MaxFailures /\ failures' = failures + 1
    /\ silent' = silent \cup {d}
    /\ UNCHANGED <<plant, moves, outages, procVars, pubVars>>

AnswerAgain(d) ==
    /\ ~Answers(d)
    /\ silent' = silent \ {d}
    /\ UNCHANGED <<plant, moves, failures, outages, procVars, pubVars>>

\* The connection to the broker is lost, and the client's loop makes it again and sends
\* what it has queued.
SessionLost(k) ==
    /\ life[k] # "down" /\ session[k] = "up"
    /\ outages < MaxOutages /\ outages' = outages + 1
    /\ session' = [session EXCEPT ![k] = "lost"]
    /\ UNCHANGED <<procVars, topic, event, queued, plant, silent, moves, failures>>

SessionBack(k) ==
    /\ life[k] # "down" /\ session[k] = "lost"
    /\ session' = [session EXCEPT ![k] = "up"]
    /\ event' = [p \in Points |-> IF p \in PointsOf(k) /\ queued[p] # NoEvent
                                  THEN queued[p] ELSE event[p]]
    /\ queued' = [p \in Points |-> IF p \in PointsOf(k) THEN NoEvent ELSE queued[p]]
    /\ UNCHANGED <<procVars, topic, envVars>>

\* Which adapters run at first is for the module that starts them to say.
FieldInit ==
    /\ plant = [p \in Points |-> Rest] /\ silent = {}
    /\ linked = {}
    /\ at = [g \in Groups |-> 0]
    /\ alarmState = [p \in Points |-> NoPriority]
    /\ topic = [p \in Points |-> NoReading]
    /\ event = [p \in Points |-> NoEvent]
    /\ queued = [p \in Points |-> NoEvent]
    /\ session = [k \in Kinds |-> "up"]
    /\ moves = 0 /\ failures = 0 /\ outages = 0

\* run_poll_group of the three adapters: a cycle begins, or the next point is read.
ModbusPoll(g) == ModbusRead(g) \/ ModbusLost(g) \/ ModbusError(g)
SnmpPoll(g)   == SnmpRead(g)
BacnetPoll(g) == BacnetRead(g)

Poll(g) == NextCycle(g) \/ ModbusPoll(g) \/ SnmpPoll(g) \/ BacnetPoll(g)

ModbusUp == ModbusReady \/ \E d \in DevicesOf("modbus") : ModbusConnect(d)

FieldStep ==
    \/ \E g \in Groups : Poll(g)
    \/ ModbusUp
    \/ \E d \in Devices : FallSilent(d) \/ AnswerAgain(d)
    \/ \E p \in Points : Move(p)
    \/ \E k \in Kinds : SessionLost(k) \/ SessionBack(k)

-----------------------------------------------------------------------------
\* Every variable keeps its type.
FieldTypeOK ==
    /\ plant \in [Points -> Values] /\ silent \subseteq Devices
    /\ life \in [Kinds -> {"down", "starting", "polling", "stuck"}]
    /\ linked \subseteq Devices
    /\ at \in [Groups -> Nat] /\ \A g \in Groups : at[g] <= Len(Schedule[g])
    /\ alarmState \in [Points -> {"P0", "P1", "P2", "P3", NoPriority}]
    /\ topic \in [Points -> [value : Values \cup {0}, quality : {"none", Good, Uncertain, Bad},
                             alarm : {"P0", "P1", "P2", "P3", NoPriority}]]
    /\ {event, queued} \subseteq
          [Points -> [action : {"none", "RAISED", "ESCALATED", "CLEARED"},
                      priority : {"P0", "P1", "P2", "P3", NoPriority}]]
    /\ session \in [Kinds -> {"up", "lost", "never"}]
    /\ moves \in 0..MaxMoves /\ failures \in 0..MaxFailures /\ outages \in 0..MaxOutages

\* An alarm an adapter holds was announced to the broker with the priority it holds, as long
\* as its client is connected: whoever follows the events, across restarts of the adapter and
\* lost connections, knows of it (check_alarm_transition and the events run_poll_group makes
\* of it).  An adapter without a connection may hold an alarm nobody was told of.
HeldAlarmsAnnounced ==
    \A p \in Points : alarmState[p] # NoPriority /\ Connected(p) =>
        /\ event[p].action \in {"RAISED", "ESCALATED"}
        /\ event[p].priority = alarmState[p]

=============================================================================
