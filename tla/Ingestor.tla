------------------------------ MODULE Ingestor ------------------------------
(***************************************************************************)
(* The ingestor's path of one MQTT message (platform/ingestion/            *)
(* ingestor.py) with the sensor cache, the dead letter queue and the alarm *)
(* detector it awaits, and the registry, Redis and the alarm engine around *)
(* it.  Messages are handled one at a time; every await is a step, and in  *)
(* front of each one a sensor may be registered anew or removed, or Redis  *)
(* may fail.                                                               *)
(* The batch writer behind enqueue and stop() are BatchWriter's.           *)
(*                                                                         *)
(* A row's id says whose it is: <<k, n>> is the n-th registration of k.    *)
(***************************************************************************)
EXTENDS Naturals, FiniteSets

CONSTANTS
    Keys,        \* sensors: site, block, subsystem and tag of a topic
    ActiveKeys,  \* those of sites with status 'active'
    Seeded,      \* those registered from the start
    Traffic,     \* the messages that arrive, a key and a body each
    Changing,    \* bound: the sensors entered or removed while it runs
    MaxRegs,     \* bound: registrations of a sensor
    MaxFaults    \* bound: failures of Redis, the database, the broker, and crashes

\* What may arrive: a reading, without and with an alarm; a topic or a payload outside the
\* contract; a payload whose validation raises (a list as quality); a priority nobody knows.
Bodies == {"reading", "alarm", "malformed", "raises", "priority"}

ASSUME KeysAssumption == ActiveKeys \cup Seeded \subseteq Keys /\ Traffic \subseteq Keys \X Bodies
\* To be registered from the start counts as a registration.
ASSUME IngestBoundsAssumption ==
    MaxRegs \in Nat /\ MaxFaults \in Nat /\ (Seeded # {} => MaxRegs >= 1)

None == <<>>
Ids  == Keys \X (1..MaxRegs)

VARIABLES
    registry,   \* table sensors: the id of each key, or None
    entered,    \* how often each key has been registered
    redis,      \* the keys in Redis
    redisUp,
    local,      \* _local
    link,       \* the process and its connection: "down", "warming", "offline", "online"
    msg,        \* the message in hand, a key and a body, or None
    at,         \* the await it is in
    id,         \* sensor_id, once resolved
    fate,       \* what was done with it: "filed", "shown", "raised", "dead"
    engineUp,   \* the alarm engine is subscribed
    unheard,    \* keys whose alarm arrived since the engine last heard of it
    moved,      \* the keys registered or removed since the cache was warmed
    faults

cacheVars == <<registry, entered, redis, local, moved>>
msgVars   == <<msg, at, id, fate>>
outVars   == <<redisUp, engineUp, faults>>
ingestVars == <<cacheVars, link, msgVars, unheard, outVars>>

Put(f, k, v) == [f EXCEPT ![k] = v]

-----------------------------------------------------------------------------
(* start and _consume.                                                     *)

\* Mutant: warm() leaves the in-process tier to be filled on demand, from Redis first.
WarmNothing ==
    /\ link = "down" /\ redisUp
    /\ link' = "warming"
    /\ moved' = {}
    /\ UNCHANGED <<registry, entered, redis, local, msgVars, unheard, outVars>>

\* cache.connect pings Redis: without it the process exits, and is started again.
WarmLocal ==
    /\ link = "down" /\ redisUp
    /\ link' = "warming"
    /\ local' = [k \in Keys |-> IF k \in ActiveKeys THEN registry[k] ELSE None]
    /\ moved' = {}
    /\ UNCHANGED <<registry, entered, redis, msgVars, unheard, outVars>>

\* The pipeline of SETs at the end of warm().
WarmRedis ==
    /\ link = "warming"
    /\ IF redisUp
       THEN /\ redis' = [k \in Keys |-> IF local[k] # None THEN local[k] ELSE redis[k]]
            /\ link' = "offline"
            /\ UNCHANGED local
       ELSE /\ link' = "down"
            /\ local' = [k \in Keys |-> None]
            /\ UNCHANGED redis
    /\ UNCHANGED <<registry, entered, moved, msgVars, unheard, outVars>>

Connect ==
    /\ link = "offline"
    /\ link' = "online"
    /\ UNCHANGED <<cacheVars, msgVars, unheard, outVars>>

\* The message in hand is given up; the broker, whose QoS 1 it answered, sends it no more.
Abandon ==
    /\ msg' = None /\ at' = "idle" /\ id' = None /\ fate' = {}

\* Mutant: an exception that is no MqttError ends _consume.
RaiseForGood ==
    /\ Abandon
    /\ link' = "ended"
    /\ UNCHANGED <<cacheVars, unheard, outVars>>

\* An exception leaves the loop behind before metrics_task.cancel().
Raise ==
    /\ Abandon
    /\ link' = "offline"
    /\ UNCHANGED <<cacheVars, unheard, outVars>>

\* A lost connection is noticed while waiting for a message.
Disconnect ==
    /\ link = "online" /\ at = "idle" /\ faults < MaxFaults
    /\ faults' = faults + 1
    /\ link' = "offline"
    /\ UNCHANGED <<cacheVars, msgVars, unheard, redisUp, engineUp>>

Crash ==
    /\ link # "down" /\ faults < MaxFaults
    /\ faults' = faults + 1
    /\ link' = "down"
    /\ local' = [k \in Keys |-> None]
    /\ Abandon
    /\ UNCHANGED <<registry, entered, redis, moved, unheard, redisUp, engineUp>>

-----------------------------------------------------------------------------
(* _handle_message.                                                        *)

Idle == link = "online" /\ at = "idle"

\* parse_topic and parse_payload, and the first tier of resolve, await nothing.
Receive(k, body) ==
    /\ Idle
    /\ msg' = <<k, body>>
    /\ unheard' = IF body = "alarm" THEN unheard \cup {k} ELSE unheard
    /\ at' = CASE body = "malformed" -> "dlq"
               [] body = "raises" -> "raise"
               [] OTHER -> IF local[k] # None THEN "file" ELSE "redis"
    /\ id' = IF body \in {"malformed", "raises"} THEN None ELSE local[k]
    /\ fate' = {}
    /\ UNCHANGED <<cacheVars, link, outVars>>

\* The second tier; a failing GET raises.
GetRedis ==
    /\ at = "redis"
    /\ IF ~redisUp THEN Raise
       ELSE /\ id' = redis[msg[1]]
            /\ at' = IF redis[msg[1]] = None THEN "db" ELSE "file"
            /\ local' = Put(local, msg[1], redis[msg[1]])
            /\ UNCHANGED <<registry, entered, redis, moved, link, msg, fate, unheard, outVars>>

\* The third, which also knows the sensors of sites that are not active.
Query ==
    /\ at = "db"
    /\ id' = registry[msg[1]]
    /\ at' = IF registry[msg[1]] = None THEN "dlq" ELSE "set"
    /\ local' = Put(local, msg[1], registry[msg[1]])
    /\ UNCHANGED <<registry, entered, redis, moved, link, msg, fate, unheard, outVars>>

QueryFails ==
    /\ at = "db" /\ faults < MaxFaults
    /\ faults' = faults + 1
    /\ Abandon /\ link' = "offline"
    /\ UNCHANGED <<cacheVars, unheard, redisUp, engineUp>>

SetRedis ==
    /\ at = "set"
    /\ IF ~redisUp THEN Raise
       ELSE /\ redis' = Put(redis, msg[1], id)
            /\ at' = "file"
            /\ UNCHANGED <<registry, entered, local, moved, link, msg, id, fate, unheard, outVars>>

\* Mutant: the return after the dead letter is missing.
SendAndGoOn ==
    /\ at = "dlq"
    /\ fate' = fate \cup {"dead"}
    /\ at' = "file"
    /\ UNCHANGED <<cacheVars, link, msg, id, unheard, outVars>>

\* A dead letter that cannot be written is logged, and the message is over all the same.
SendDeadLetter ==
    /\ at = "dlq"
    /\ fate' = fate \cup {"dead"}
    /\ at' = "done"
    /\ UNCHANGED <<cacheVars, link, msg, id, unheard, outVars>>

DeadLetterFails ==
    /\ at = "dlq" /\ faults < MaxFaults
    /\ faults' = faults + 1
    /\ at' = "done"
    /\ UNCHANGED <<cacheVars, link, msg, id, fate, unheard, redisUp, engineUp>>

Enqueue ==
    /\ at = "file"
    /\ fate' = fate \cup {"filed"}
    /\ at' = "show"
    /\ UNCHANGED <<cacheVars, link, msg, id, unheard, outVars>>

\* A failing PUBLISH of the telemetry is passed over.
Publish ==
    /\ at = "show"
    /\ fate' = IF redisUp THEN fate \cup {"shown"} ELSE fate
    /\ at' = IF msg[2] \in {"alarm", "priority"} THEN "alarm" ELSE "done"
    /\ UNCHANGED <<cacheVars, link, msg, id, unheard, outVars>>

\* check_and_publish: Redis hands the signal to who is subscribed, and keeps nothing.
Signal ==
    /\ at = "alarm"
    /\ fate' = IF redisUp /\ msg[2] = "alarm" THEN fate \cup {"raised"} ELSE fate
    /\ unheard' = IF redisUp /\ engineUp /\ msg[2] = "alarm" THEN unheard \ {msg[1]} ELSE unheard
    /\ at' = "done"
    /\ UNCHANGED <<cacheVars, link, msg, id, outVars>>

Done ==
    /\ at = "done"
    /\ Abandon
    /\ UNCHANGED <<cacheVars, link, unheard, outVars>>

\* The next step of the message in hand.
Handle ==
    \/ GetRedis \/ Query \/ SetRedis
    \/ SendDeadLetter \/ Enqueue \/ Publish \/ Signal \/ Done
    \/ at = "raise" /\ Raise

-----------------------------------------------------------------------------
(* The registry, Redis and the engine.                                     *)

\* A sensor is entered, or entered again: its row has a new id.
Register(k) ==
    /\ k \in Changing /\ entered[k] < MaxRegs
    /\ entered' = [entered EXCEPT ![k] = @ + 1]
    /\ registry' = Put(registry, k, <<k, entered[k] + 1>>)
    /\ moved' = moved \cup {k}
    /\ UNCHANGED <<redis, local, link, msgVars, unheard, outVars>>

Unregister(k) ==
    /\ k \in Changing /\ registry[k] # None
    /\ registry' = Put(registry, k, None)
    /\ moved' = moved \cup {k}
    /\ UNCHANGED <<entered, redis, local, link, msgVars, unheard, outVars>>

\* SENSOR_CACHE_TTL ran out.
Expire(k) ==
    /\ redis[k] # None
    /\ redis' = Put(redis, k, None)
    /\ UNCHANGED <<registry, entered, local, moved, link, msgVars, unheard, outVars>>

\* The engine's subscription ends with Redis, and its process with the subscription.
RedisDown ==
    /\ redisUp /\ faults < MaxFaults
    /\ faults' = faults + 1
    /\ redisUp' = FALSE /\ engineUp' = FALSE
    /\ redis' \in {redis, [k \in Keys |-> None]}
    /\ UNCHANGED <<registry, entered, local, moved, link, msgVars, unheard>>

RedisBack ==
    /\ ~redisUp /\ redisUp' = TRUE
    /\ UNCHANGED <<cacheVars, link, msgVars, unheard, engineUp, faults>>

EngineDown ==
    /\ engineUp /\ faults < MaxFaults
    /\ faults' = faults + 1
    /\ engineUp' = FALSE
    /\ UNCHANGED <<cacheVars, link, msgVars, unheard, redisUp>>

EngineBack ==
    /\ redisUp /\ ~engineUp /\ engineUp' = TRUE
    /\ UNCHANGED <<cacheVars, link, msgVars, unheard, redisUp, faults>>

-----------------------------------------------------------------------------

IngestInit ==
    /\ registry = [k \in Keys |-> IF k \in Seeded THEN <<k, 1>> ELSE None]
    /\ entered = [k \in Keys |-> IF k \in Seeded THEN 1 ELSE 0]
    /\ redis = [k \in Keys |-> None] /\ local = [k \in Keys |-> None]
    /\ redisUp = TRUE /\ engineUp = TRUE
    /\ link = "down"
    /\ msg = None /\ at = "idle" /\ id = None /\ fate = {}
    /\ unheard = {} /\ moved = {} /\ faults = 0

Recover == WarmLocal \/ WarmRedis \/ Connect

Arrive == \E m \in Traffic : Receive(m[1], m[2])

Environment ==
    \/ \E k \in Keys : Register(k) \/ Unregister(k) \/ Expire(k)
    \/ RedisDown \/ RedisBack \/ EngineDown \/ EngineBack
    \/ Disconnect \/ Crash \/ QueryFails \/ DeadLetterFails

IngestNext == Recover \/ Arrive \/ Handle \/ Environment

=============================================================================
