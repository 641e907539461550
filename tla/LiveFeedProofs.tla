---------------------------- MODULE LiveFeedProofs ----------------------------
(***************************************************************************)
(* Theorems about LiveFeed: what becomes of a message and what the sensor  *)
(* cache answers, for every set of sensors and sockets, any traffic and    *)
(* any number of registrations and failures.                               *)
(***************************************************************************)
EXTENDS LiveFeed, TLAPS

Links  == {"down", "warming", "offline", "online"}
Awaits == {"idle", "redis", "db", "set", "file", "show", "alarm", "dlq", "raise", "done"}

\* No row and no message is None.
LEMMA NothingIsNone ==
    /\ None \notin Ids
    /\ None \notin Keys \X Bodies
    /\ \A k, v : <<k, v>> # None
BY DEF None, Ids, Bodies

-----------------------------------------------------------------------------
(* The inductive invariant, in parts.                                      *)

StoreTypes ==
    /\ registry \in [Keys -> Ids \cup {None}] /\ entered \in [Keys -> 0..MaxRegs]
    /\ redis \in [Keys -> Ids \cup {None}] /\ local \in [Keys -> Ids \cup {None}]
    /\ redisUp \in BOOLEAN /\ engineUp \in BOOLEAN /\ moved \subseteq Keys
    /\ unheard \subseteq Keys /\ faults \in 0..MaxFaults

MessageTypes ==
    /\ link \in Links /\ at \in Awaits
    /\ msg \in (Keys \X Bodies) \cup {None}
    /\ id \in Ids \cup {None}
    /\ (msg = None) = (at = "idle")
    /\ at # "idle" => link = "online"

\* v is no other sensor's id, and nobody has an id that was never given out.
OwnId(k, v) == v # None => v[1] = k /\ v[2] <= entered[k]

EveryIdIsOwn == \A k \in Keys : OwnId(k, registry[k]) /\ OwnId(k, redis[k]) /\ OwnId(k, local[k])

\* The row of a registered sensor is the last one it was given.
RowIsLatest == \A k \in Keys : registry[k] # None => registry[k] = <<k, entered[k]>>

\* Where the message is tells what was done with it so far.
FateOfPlace ==
    /\ at \in {"idle", "redis", "db", "set", "file", "dlq", "raise"} => fate = {}
    /\ at = "show" => fate = {"filed"}
    /\ at = "alarm" => "filed" \in fate /\ fate \subseteq {"filed", "shown"}
    /\ at = "done" => \/ fate \subseteq {"dead"}
                      \/ "filed" \in fate /\ fate \subseteq {"filed", "shown", "raised"}

\* From the moment an id is known it is one of the message's own sensor.
IdOfPlace ==
    at \in {"set", "file", "show", "alarm"} \/ "filed" \in fate
        => id \in Ids /\ OwnId(msg[1], id)

\* Only a sensor the process does not know is looked up elsewhere.
LookedUp == at \in {"redis", "db"} => local[msg[1]] = None

\* A warm cache holds the rows of the registry but for those somebody changed since.
WarmMeansEqual ==
    link \in {"warming", "offline", "online"}
        => \A k \in ActiveKeys : k \notin moved /\ registry[k] # None => local[k] = registry[k]

FeedInv == /\ StoreTypes /\ MessageTypes /\ EveryIdIsOwn /\ RowIsLatest
           /\ FateOfPlace /\ IdOfPlace /\ LookedUp /\ WarmMeansEqual

-----------------------------------------------------------------------------
(* The steps of the ingestor: starting, and a message on its way.          *)

LEMMA WarmLocalKeeps == ASSUME FeedInv, WarmLocal PROVE FeedInv'
BY NothingIsNone, KeysAssumption, IngestBoundsAssumption
   DEF FeedInv, StoreTypes, MessageTypes, EveryIdIsOwn, OwnId, RowIsLatest, FateOfPlace, IdOfPlace, LookedUp,
      WarmMeansEqual, Links, Awaits,
      WarmLocal, Abandon, Put, cacheVars, msgVars, outVars

LEMMA WarmRedisKeeps == ASSUME FeedInv, WarmRedis PROVE FeedInv'
BY NothingIsNone, KeysAssumption, IngestBoundsAssumption
   DEF FeedInv, StoreTypes, MessageTypes, EveryIdIsOwn, OwnId, RowIsLatest, FateOfPlace, IdOfPlace, LookedUp,
      WarmMeansEqual, Links, Awaits,
      WarmRedis, Abandon, Put, cacheVars, msgVars, outVars

LEMMA ConnectKeeps == ASSUME FeedInv, Connect PROVE FeedInv'
BY NothingIsNone, KeysAssumption, IngestBoundsAssumption
   DEF FeedInv, StoreTypes, MessageTypes, EveryIdIsOwn, OwnId, RowIsLatest, FateOfPlace, IdOfPlace, LookedUp,
      WarmMeansEqual, Links, Awaits,
      Connect, Abandon, Put, cacheVars, msgVars, outVars

LEMMA RaiseKeeps == ASSUME FeedInv, at = "raise" /\ Raise PROVE FeedInv'
BY NothingIsNone, KeysAssumption, IngestBoundsAssumption
   DEF FeedInv, StoreTypes, MessageTypes, EveryIdIsOwn, OwnId, RowIsLatest, FateOfPlace, IdOfPlace, LookedUp,
      WarmMeansEqual, Links, Awaits,
      Raise, Abandon, Put, cacheVars, msgVars, outVars

LEMMA GetRedisKeeps == ASSUME FeedInv, GetRedis PROVE FeedInv'
BY NothingIsNone, KeysAssumption, IngestBoundsAssumption
   DEF FeedInv, StoreTypes, MessageTypes, EveryIdIsOwn, OwnId, RowIsLatest, FateOfPlace, IdOfPlace, LookedUp,
      WarmMeansEqual, Links, Awaits,
      GetRedis, Raise, Abandon, Put, cacheVars, msgVars, outVars

LEMMA QueryKeeps == ASSUME FeedInv, Query PROVE FeedInv'
BY NothingIsNone, KeysAssumption, IngestBoundsAssumption
   DEF FeedInv, StoreTypes, MessageTypes, EveryIdIsOwn, OwnId, RowIsLatest, FateOfPlace, IdOfPlace, LookedUp,
      WarmMeansEqual, Links, Awaits,
      Query, Abandon, Put, cacheVars, msgVars, outVars

LEMMA QueryFailsKeeps == ASSUME FeedInv, QueryFails PROVE FeedInv'
BY NothingIsNone, KeysAssumption, IngestBoundsAssumption
   DEF FeedInv, StoreTypes, MessageTypes, EveryIdIsOwn, OwnId, RowIsLatest, FateOfPlace, IdOfPlace, LookedUp,
      WarmMeansEqual, Links, Awaits,
      QueryFails, Abandon, Put, cacheVars, msgVars, outVars

LEMMA SetRedisKeeps == ASSUME FeedInv, SetRedis PROVE FeedInv'
BY NothingIsNone, KeysAssumption, IngestBoundsAssumption
   DEF FeedInv, StoreTypes, MessageTypes, EveryIdIsOwn, OwnId, RowIsLatest, FateOfPlace, IdOfPlace, LookedUp,
      WarmMeansEqual, Links, Awaits,
      SetRedis, Raise, Abandon, Put, cacheVars, msgVars, outVars

LEMMA SendDeadLetterKeeps == ASSUME FeedInv, SendDeadLetter PROVE FeedInv'
BY NothingIsNone, KeysAssumption, IngestBoundsAssumption
   DEF FeedInv, StoreTypes, MessageTypes, EveryIdIsOwn, OwnId, RowIsLatest, FateOfPlace, IdOfPlace, LookedUp,
      WarmMeansEqual, Links, Awaits,
      SendDeadLetter, Abandon, Put, cacheVars, msgVars, outVars

LEMMA DeadLetterFailsKeeps == ASSUME FeedInv, DeadLetterFails PROVE FeedInv'
BY NothingIsNone, KeysAssumption, IngestBoundsAssumption
   DEF FeedInv, StoreTypes, MessageTypes, EveryIdIsOwn, OwnId, RowIsLatest, FateOfPlace, IdOfPlace, LookedUp,
      WarmMeansEqual, Links, Awaits,
      DeadLetterFails, Abandon, Put, cacheVars, msgVars, outVars

LEMMA EnqueueKeeps == ASSUME FeedInv, Enqueue PROVE FeedInv'
BY NothingIsNone, KeysAssumption, IngestBoundsAssumption
   DEF FeedInv, StoreTypes, MessageTypes, EveryIdIsOwn, OwnId, RowIsLatest, FateOfPlace, IdOfPlace, LookedUp,
      WarmMeansEqual, Links, Awaits,
      Enqueue, Abandon, Put, cacheVars, msgVars, outVars

LEMMA PublishKeeps == ASSUME FeedInv, Publish PROVE FeedInv'
BY NothingIsNone, KeysAssumption, IngestBoundsAssumption
   DEF FeedInv, StoreTypes, MessageTypes, EveryIdIsOwn, OwnId, RowIsLatest, FateOfPlace, IdOfPlace, LookedUp,
      WarmMeansEqual, Links, Awaits,
      Publish, Abandon, Put, cacheVars, msgVars, outVars

LEMMA SignalKeeps == ASSUME FeedInv, Signal PROVE FeedInv'
BY NothingIsNone, KeysAssumption, IngestBoundsAssumption
   DEF FeedInv, StoreTypes, MessageTypes, EveryIdIsOwn, OwnId, RowIsLatest, FateOfPlace, IdOfPlace, LookedUp,
      WarmMeansEqual, Links, Awaits,
      Signal, Abandon, Put, cacheVars, msgVars, outVars

LEMMA DoneKeeps == ASSUME FeedInv, Done PROVE FeedInv'
BY NothingIsNone, KeysAssumption, IngestBoundsAssumption
   DEF FeedInv, StoreTypes, MessageTypes, EveryIdIsOwn, OwnId, RowIsLatest, FateOfPlace, IdOfPlace, LookedUp,
      WarmMeansEqual, Links, Awaits,
      Done, Abandon, Put, cacheVars, msgVars, outVars

LEMMA DisconnectKeeps == ASSUME FeedInv, Disconnect PROVE FeedInv'
BY NothingIsNone, KeysAssumption, IngestBoundsAssumption
   DEF FeedInv, StoreTypes, MessageTypes, EveryIdIsOwn, OwnId, RowIsLatest, FateOfPlace, IdOfPlace, LookedUp,
      WarmMeansEqual, Links, Awaits,
      Disconnect, Abandon, Put, cacheVars, msgVars, outVars

LEMMA CrashKeeps == ASSUME FeedInv, Crash PROVE FeedInv'
BY NothingIsNone, KeysAssumption, IngestBoundsAssumption
   DEF FeedInv, StoreTypes, MessageTypes, EveryIdIsOwn, OwnId, RowIsLatest, FateOfPlace, IdOfPlace, LookedUp,
      WarmMeansEqual, Links, Awaits,
      Crash, Abandon, Put, cacheVars, msgVars, outVars

LEMMA ReceiveKeeps == ASSUME FeedInv, NEW m \in Traffic, Receive(m[1], m[2]) PROVE FeedInv'
BY NothingIsNone, KeysAssumption, IngestBoundsAssumption
   DEF FeedInv, StoreTypes, MessageTypes, EveryIdIsOwn, OwnId, RowIsLatest, FateOfPlace, IdOfPlace, LookedUp,
      WarmMeansEqual, Links, Awaits,
      Receive, Idle, Abandon, Put, cacheVars, msgVars, outVars

-----------------------------------------------------------------------------
(* Redis, the engine and the registry.                                      *)

LEMMA RedisDownKeeps == ASSUME FeedInv, RedisDown PROVE FeedInv'
<1>1. /\ redisUp' = FALSE /\ engineUp' = FALSE /\ faults' \in 0..MaxFaults
      /\ UNCHANGED <<registry, entered, local, moved, link, msg, at, id, fate, unheard>>
  BY IngestBoundsAssumption DEF FeedInv, StoreTypes, RedisDown, msgVars
<1>2. redis' \in [Keys -> Ids \cup {None}] /\ \A k \in Keys : redis'[k] \in {redis[k], None}
  BY DEF FeedInv, StoreTypes, RedisDown
<1>3. StoreTypes' /\ EveryIdIsOwn'
  BY <1>1, <1>2 DEF FeedInv, StoreTypes, EveryIdIsOwn, OwnId
<1> QED BY <1>1, <1>3 DEF FeedInv, MessageTypes, OwnId, RowIsLatest, FateOfPlace, IdOfPlace,
                          LookedUp, WarmMeansEqual

LEMMA RedisBackKeeps == ASSUME FeedInv, RedisBack PROVE FeedInv'
BY NothingIsNone, KeysAssumption, IngestBoundsAssumption
   DEF FeedInv, StoreTypes, MessageTypes, EveryIdIsOwn, OwnId, RowIsLatest, FateOfPlace, IdOfPlace, LookedUp,
      WarmMeansEqual, Links, Awaits,
      RedisBack, Abandon, Put, cacheVars, msgVars, outVars

LEMMA EngineDownKeeps == ASSUME FeedInv, EngineDown PROVE FeedInv'
<1>1. /\ engineUp' = FALSE /\ faults' \in 0..MaxFaults
      /\ UNCHANGED <<registry, entered, redis, redisUp, local, moved, link, msg, at, id, fate, unheard>>
  BY IngestBoundsAssumption DEF FeedInv, StoreTypes, EngineDown, cacheVars, msgVars
<1> QED BY <1>1 DEF FeedInv, StoreTypes, MessageTypes, EveryIdIsOwn, OwnId, RowIsLatest, FateOfPlace, IdOfPlace,
                    LookedUp, WarmMeansEqual

LEMMA EngineBackKeeps == ASSUME FeedInv, EngineBack PROVE FeedInv'
BY NothingIsNone, KeysAssumption, IngestBoundsAssumption
   DEF FeedInv, StoreTypes, MessageTypes, EveryIdIsOwn, OwnId, RowIsLatest, FateOfPlace, IdOfPlace, LookedUp,
      WarmMeansEqual, Links, Awaits,
      EngineBack, Abandon, Put, cacheVars, msgVars, outVars

LEMMA RegisterKeeps == ASSUME FeedInv, NEW k \in Keys, Register(k) PROVE FeedInv'
<1> DEFINE n == entered[k] + 1
<1>1. n \in 1..MaxRegs /\ entered[k] \in Nat /\ n > entered[k]
  BY IngestBoundsAssumption DEF FeedInv, StoreTypes, Register
<1>2. /\ registry' = [registry EXCEPT ![k] = <<k, n>>] /\ entered' = [entered EXCEPT ![k] = n]
      /\ moved' = moved \cup {k}
      /\ UNCHANGED <<redis, redisUp, engineUp, local, link, msg, at, id, fate, unheard, faults>>
  BY DEF Register, Put, msgVars, outVars
<1> HIDE DEF n
<1>3. <<k, n>> \in Ids /\ <<k, n>> # None
  BY <1>1, NothingIsNone DEF Ids
<1>4. StoreTypes' /\ MessageTypes' /\ FateOfPlace' /\ LookedUp'
  BY <1>1, <1>2, <1>3 DEF FeedInv, StoreTypes, MessageTypes, FateOfPlace, LookedUp
<1>5. RowIsLatest' /\ WarmMeansEqual'
  BY <1>1, <1>2, KeysAssumption DEF FeedInv, StoreTypes, RowIsLatest, WarmMeansEqual
<1>6. \A j \in Keys : entered[j] \in Nat /\ entered'[j] \in Nat /\ entered[j] <= entered'[j]
  BY <1>1, <1>2 DEF FeedInv, StoreTypes
<1>7. \A v \in Ids \cup {None} : v # None => v[2] \in Nat
  BY DEF Ids
<1>8. ASSUME NEW j \in Keys, NEW v \in Ids \cup {None}, v # None => v[1] = j /\ v[2] <= entered[j]
      PROVE  v # None => v[1] = j /\ v[2] <= entered'[j]
  BY <1>6, <1>7, <1>8
<1>9. EveryIdIsOwn'
  <2> SUFFICES ASSUME NEW j \in Keys
               PROVE  OwnId(j, registry[j])' /\ OwnId(j, redis[j])' /\ OwnId(j, local[j])'
    BY DEF EveryIdIsOwn
  <2>1. OwnId(j, redis[j])' /\ OwnId(j, local[j])'
    BY <1>2, <1>8 DEF FeedInv, StoreTypes, EveryIdIsOwn, OwnId
  <2>2. CASE j = k
    BY <1>1, <1>2, <2>1, <2>2 DEF OwnId, FeedInv, StoreTypes
  <2>3. CASE j # k
    BY <1>2, <1>8, <2>1, <2>3 DEF FeedInv, StoreTypes, EveryIdIsOwn, OwnId
  <2> QED BY <2>2, <2>3
<1>10. IdOfPlace'
  <2>1. at \in {"set", "file", "show", "alarm"} \/ "filed" \in fate => msg[1] \in Keys
    BY DEF FeedInv, FateOfPlace, MessageTypes
  <2> QED BY <1>2, <1>8, <2>1 DEF FeedInv, IdOfPlace, OwnId
<1> QED BY <1>4, <1>5, <1>9, <1>10 DEF FeedInv

LEMMA UnregisterKeeps == ASSUME FeedInv, NEW k \in Keys, Unregister(k) PROVE FeedInv'
<1>1. /\ registry' = [registry EXCEPT ![k] = None] /\ moved' = moved \cup {k}
      /\ UNCHANGED <<entered, redis, redisUp, engineUp, local, link, msg, at, id, fate, unheard, faults>>
  BY DEF Unregister, Put, msgVars, outVars
<1>2. StoreTypes' /\ MessageTypes' /\ FateOfPlace' /\ LookedUp'
  BY <1>1 DEF FeedInv, StoreTypes, MessageTypes, FateOfPlace, LookedUp
<1>3. EveryIdIsOwn' /\ RowIsLatest' /\ WarmMeansEqual' /\ IdOfPlace'
  BY <1>1, KeysAssumption
     DEF FeedInv, StoreTypes, EveryIdIsOwn, OwnId, RowIsLatest, WarmMeansEqual, IdOfPlace
<1> QED BY <1>2, <1>3 DEF FeedInv

LEMMA ExpireKeeps == ASSUME FeedInv, NEW k \in Keys, Expire(k) PROVE FeedInv'
BY NothingIsNone, KeysAssumption, IngestBoundsAssumption
   DEF FeedInv, StoreTypes, MessageTypes, EveryIdIsOwn, OwnId, RowIsLatest, FateOfPlace, IdOfPlace, LookedUp,
      WarmMeansEqual, Links, Awaits,
      Expire, Idle, Abandon, Put, cacheVars, msgVars, outVars

-----------------------------------------------------------------------------
(* The sockets: their coroutines touch nothing of the ingestor.             *)

LEMMA OpenTyped == ASSUME RelayTypeOK, NEW c \in Clients, Open(c) PROVE RelayTypeOK'
BY RelayAssumption DEF RelayTypeOK, Open

LEMMA LeaveTyped == ASSUME RelayTypeOK, NEW c \in Clients, Leave(c) PROVE RelayTypeOK'
BY RelayAssumption DEF RelayTypeOK, Leave

LEMMA ForwardTyped == ASSUME RelayTypeOK, NEW c \in Clients, Forward(c) PROVE RelayTypeOK'
<1>1. inbox[c] \in SUBSET Events /\ seen[c] \in SUBSET Events
  BY DEF RelayTypeOK
<1>2. /\ inbox' = [inbox EXCEPT ![c] = {}] /\ relay' \in {relay, [relay EXCEPT ![c] = FALSE]}
      /\ seen' \in {seen, [seen EXCEPT ![c] = @ \cup (inbox[c] \cap Wanted[c])]}
      /\ UNCHANGED <<open, sessions>>
  BY DEF Forward, Unsubscribe
<1>3. inbox' \in [Clients -> SUBSET Events] /\ relay' \in [Clients -> BOOLEAN]
  BY <1>2 DEF RelayTypeOK
<1>4. seen' \in [Clients -> SUBSET Events]
  BY <1>1, <1>2 DEF RelayTypeOK
<1> QED BY <1>2, <1>3, <1>4 DEF RelayTypeOK

LEMMA DeliverTyped == ASSUME RelayTypeOK, NEW e \in Events, Deliver(e) PROVE RelayTypeOK'
BY RelayAssumption DEF RelayTypeOK, Deliver

LEMMA SeverTyped == ASSUME RelayTypeOK, Sever PROVE RelayTypeOK'
BY RelayAssumption DEF RelayTypeOK, Sever

LEMMA RelaysIdle == ASSUME RelayTypeOK, UNCHANGED relayVars PROVE RelayTypeOK'
BY DEF RelayTypeOK, relayVars

LEMMA IngestorIdle == ASSUME FeedInv, UNCHANGED ingestVars PROVE FeedInv'
BY DEF FeedInv, StoreTypes, MessageTypes, EveryIdIsOwn, OwnId, RowIsLatest, FateOfPlace, IdOfPlace, LookedUp,
       WarmMeansEqual, ingestVars, cacheVars, msgVars, outVars

-----------------------------------------------------------------------------
(* The specification.                                                       *)

LEMMA FeedStarts == FeedInit => FeedInv /\ RelayTypeOK
<1> SUFFICES ASSUME FeedInit PROVE FeedInv /\ RelayTypeOK
  OBVIOUS
<1>1. \A k \in Keys : /\ registry[k] \in Ids \cup {None} /\ OwnId(k, registry[k])
                      /\ entered[k] \in 0..MaxRegs
                      /\ registry[k] # None => registry[k] = <<k, entered[k]>>
  <2> SUFFICES ASSUME NEW k \in Keys
               PROVE  /\ registry[k] \in Ids \cup {None} /\ OwnId(k, registry[k])
                      /\ entered[k] \in 0..MaxRegs
                      /\ registry[k] # None => registry[k] = <<k, entered[k]>>
    OBVIOUS
  <2>1. CASE k \in Seeded
    <3>1. registry[k] = <<k, 1>> /\ entered[k] = 1 /\ 1 \in 1..MaxRegs
      BY <2>1, IngestBoundsAssumption DEF FeedInit, IngestInit
    <3> QED BY <3>1, NothingIsNone DEF OwnId, Ids
  <2>2. CASE k \notin Seeded
    BY <2>2, IngestBoundsAssumption DEF FeedInit, IngestInit, OwnId
  <2> QED BY <2>1, <2>2
<1>2. StoreTypes /\ EveryIdIsOwn /\ RowIsLatest
  <2>1. registry \in [Keys -> Ids \cup {None}] /\ entered \in [Keys -> 0..MaxRegs]
    BY <1>1 DEF FeedInit, IngestInit
  <2>2. redis = [k \in Keys |-> None] /\ local = [k \in Keys |-> None]
    BY DEF FeedInit, IngestInit
  <2>3. redisUp = TRUE /\ engineUp = TRUE /\ moved = {} /\ unheard = {} /\ faults = 0
    BY DEF FeedInit, IngestInit
  <2>4. StoreTypes
    <3>1. redis \in [Keys -> Ids \cup {None}] /\ local \in [Keys -> Ids \cup {None}]
      BY <2>2
    <3>2. /\ redisUp \in BOOLEAN /\ engineUp \in BOOLEAN /\ moved \subseteq Keys
          /\ unheard \subseteq Keys
      BY <2>3
    <3>3. faults \in 0..MaxFaults
      BY <2>3, IngestBoundsAssumption
    <3> QED BY <2>1, <3>1, <3>2, <3>3 DEF StoreTypes
  <2>5. \A k \in Keys : redis[k] = None /\ local[k] = None
    BY <2>2
  <2> QED BY <1>1, <2>4, <2>5 DEF EveryIdIsOwn, OwnId, RowIsLatest
<1>3. MessageTypes /\ FateOfPlace /\ IdOfPlace /\ LookedUp /\ WarmMeansEqual
  BY DEF FeedInit, IngestInit, MessageTypes, FateOfPlace, IdOfPlace, LookedUp, WarmMeansEqual,
         Links, Awaits
<1>4. RelayTypeOK
  BY RelayAssumption DEF FeedInit, RelayInit, RelayTypeOK
<1> QED BY <1>2, <1>3, <1>4 DEF FeedInv

LEMMA FeedStep == FeedInv /\ RelayTypeOK /\ [FeedNext]_feedVars => FeedInv' /\ RelayTypeOK'
<1> SUFFICES ASSUME FeedInv, RelayTypeOK, [FeedNext]_feedVars PROVE FeedInv' /\ RelayTypeOK'
  OBVIOUS
<1>1. CASE Pass /\ UNCHANGED relayVars
  <2>1. FeedInv'
    BY <1>1, WarmLocalKeeps, WarmRedisKeeps, ConnectKeeps, GetRedisKeeps, QueryKeeps, SetRedisKeeps,
       SendDeadLetterKeeps, EnqueueKeeps, SignalKeeps, DoneKeeps, RaiseKeeps DEF Pass, Recover
  <2> QED BY <1>1, <2>1, RelaysIdle
<1>2. CASE Arrive /\ UNCHANGED relayVars
  BY <1>2, ReceiveKeeps, RelaysIdle DEF Arrive
<1>3. CASE World /\ UNCHANGED relayVars
  <2>1. FeedInv'
    BY <1>3, RegisterKeeps, UnregisterKeeps, ExpireKeeps, RedisBackKeeps, EngineDownKeeps, EngineBackKeeps,
       DisconnectKeeps, CrashKeeps, QueryFailsKeeps, DeadLetterFailsKeeps DEF World
  <2> QED BY <1>3, <2>1, RelaysIdle
<1>4. CASE Show
  <2>1. FeedInv'
    BY <1>4, PublishKeeps DEF Show
  <2>2. msg[1] \in Events
    BY <1>4, FeedAssumption DEF Show, Publish, FeedInv, MessageTypes
  <2> QED BY <1>4, <2>1, <2>2, DeliverTyped, RelaysIdle DEF Show
<1>5. CASE RedisLost
  BY <1>5, RedisDownKeeps, SeverTyped DEF RedisLost
<1>6. CASE \E c \in Clients : (Open(c) \/ Leave(c) \/ Forward(c)) /\ UNCHANGED ingestVars
  BY <1>6, OpenTyped, LeaveTyped, ForwardTyped, IngestorIdle
<1>7. CASE UNCHANGED feedVars
  BY <1>7, RelaysIdle, IngestorIdle DEF feedVars
<1> QED BY <1>1, <1>2, <1>3, <1>4, <1>5, <1>6, <1>7 DEF FeedNext

\* The inductive invariant, of every behaviour.
THEOREM FeedInvariant == FeedSpec => [](FeedInv /\ RelayTypeOK)
<1> QED BY FeedStarts, FeedStep, PTL DEF FeedSpec

LEMMA FateFollows == FeedInv /\ RelayTypeOK => OneFate
<1> SUFFICES ASSUME FeedInv, RelayTypeOK PROVE OneFate
  OBVIOUS
<1>1. FeedTypeOK
  BY DEF FeedInv, StoreTypes, MessageTypes, FeedTypeOK, Links
<1>2. "filed" \in fate => /\ fate \subseteq {"filed", "shown", "raised"}
                          /\ id \in Ids /\ id[1] = msg[1] /\ id[2] <= entered[msg[1]]
  BY NothingIsNone DEF FeedInv, MessageTypes, FateOfPlace, IdOfPlace, OwnId, Awaits
<1>3. "filed" \notin fate => fate \subseteq {"dead"}
  BY DEF FeedInv, MessageTypes, FateOfPlace, Awaits
<1> QED BY <1>1, <1>2, <1>3 DEF OneFate

LEMMA AnswersFollow == FeedInv => CacheAgreesWithRegistry
<1> SUFFICES ASSUME FeedInv, link \in {"offline", "online"}, NEW k \in ActiveKeys,
                    registry[k] # None, k \notin moved \/ entered[k] = 1
             PROVE  Answer(k) = registry[k]
  BY DEF CacheAgreesWithRegistry
<1>1. k \in Keys
  BY KeysAssumption
<1>2. CASE k \notin moved
  <2>1. local[k] = registry[k]
    BY <1>2 DEF FeedInv, WarmMeansEqual
  <2> QED BY <2>1 DEF Answer
<1>3. CASE entered[k] = 1
  <2>1. ASSUME NEW v \in Ids \cup {None}, OwnId(k, v), v # None PROVE v = <<k, 1>>
    <3>1. v = <<v[1], v[2]>> /\ v[2] \in 1..MaxRegs
      BY <2>1 DEF Ids
    <3>2. v[1] = k /\ v[2] = 1
      BY <1>3, <2>1, <3>1, IngestBoundsAssumption DEF OwnId
    <3> QED BY <3>1, <3>2
  <2>2. registry[k] = <<k, 1>>
    BY <1>1, <2>1 DEF FeedInv, StoreTypes, EveryIdIsOwn
  <2>3. local[k] # None => local[k] = <<k, 1>>
    BY <1>1, <2>1 DEF FeedInv, StoreTypes, EveryIdIsOwn
  <2>4. redis[k] # None => redis[k] = <<k, 1>>
    BY <1>1, <2>1 DEF FeedInv, StoreTypes, EveryIdIsOwn
  <2> QED BY <2>2, <2>3, <2>4 DEF Answer
<1> QED BY <1>2, <1>3

\* A message is either dead-lettered or filed, never both; what is shown live or raised was
\* filed before, and under an id its own sensor has or has had, whatever Redis kept, whoever
\* registered a sensor anew or removed one and wherever the ingestor was interrupted (ingestor.py:226).
THEOREM MessagesHaveOneFate == FeedSpec => []OneFate
<1> QED BY FeedInvariant, FateFollows, PTL

\* A registered sensor of an active site is resolved to its row, whatever Redis has kept of an
\* earlier one and whatever happened to it and to the others before: once the ingestor was
\* warmed after its last registration, and from its first one on (cache.py:49, 114).
THEOREM CacheNeverStrays == FeedSpec => []CacheAgreesWithRegistry
<1> QED BY FeedInvariant, AnswersFollow, PTL

=============================================================================
