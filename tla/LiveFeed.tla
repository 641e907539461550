------------------------------- MODULE LiveFeed -------------------------------
(***************************************************************************)
(* Readings on their way to the alarm engine and to the dashboards: the    *)
(* ingestor publishes to Redis, the API's sockets relay what Redis hands   *)
(* them.  Sensor k's events are on the channel of its block.               *)
(***************************************************************************)
EXTENDS Ingestor, LiveRelay

ASSUME FeedAssumption == Events = Keys

\* Every device reports its reading, with its alarm, again and again.
Reports == {m \in Traffic : m[2] = "alarm"}

feedVars == <<ingestVars, relayVars>>

\* The telemetry reaches the relays when Redis takes it.
Show ==
    /\ Publish
    /\ IF redisUp THEN Deliver(msg[1]) ELSE UNCHANGED relayVars

RedisLost == RedisDown /\ Sever

Pass == \/ Recover
        \/ GetRedis \/ Query \/ SetRedis
        \/ SendDeadLetter \/ Enqueue \/ Signal \/ Done
        \/ at = "raise" /\ Raise

World ==
    \/ \E k \in Keys : Register(k) \/ Unregister(k) \/ Expire(k)
    \/ RedisBack \/ EngineDown \/ EngineBack
    \/ Disconnect \/ Crash \/ QueryFails \/ DeadLetterFails

FeedInit == IngestInit /\ RelayInit

FeedNext ==
    \/ (Pass \/ Arrive \/ World) /\ UNCHANGED relayVars
    \/ Show
    \/ RedisLost
    \/ \E c \in Clients : (Open(c) \/ Leave(c) \/ Forward(c)) /\ UNCHANGED ingestVars

\* Each coroutine gets its turn, what failed is restarted (restart: unless-stopped), and
\* the devices go on reporting.  Nobody has to register a sensor, to open a socket or to
\* leave it.
FeedSpec ==
    /\ FeedInit /\ [][FeedNext]_feedVars
    /\ WF_feedVars((Pass /\ UNCHANGED relayVars) \/ Show)
    /\ WF_feedVars((RedisBack \/ EngineBack) /\ UNCHANGED relayVars)
    /\ \A m \in Reports : SF_feedVars(Receive(m[1], m[2]) /\ UNCHANGED relayVars)
    /\ \A c \in Clients : WF_feedVars(Forward(c) /\ UNCHANGED ingestVars)

-----------------------------------------------------------------------------

\* Types; a message is in hand only while the ingestor is connected.
FeedTypeOK ==
    /\ registry \in [Keys -> Ids \cup {None}] /\ entered \in [Keys -> 0..MaxRegs]
    /\ redis \in [Keys -> Ids \cup {None}] /\ local \in [Keys -> Ids \cup {None}]
    /\ link \in {"down", "warming", "offline", "online"}
    /\ msg \in (Keys \X Bodies) \cup {None}
    /\ (msg = None) = (at = "idle")
    /\ at # "idle" => link = "online"
    /\ id \in Ids \cup {None}
    /\ unheard \subseteq Keys /\ moved \subseteq Keys /\ faults \in 0..MaxFaults
    /\ RelayTypeOK

\* What resolve answers now.
Answer(k) == IF local[k] # None THEN local[k] ELSE IF redis[k] # None THEN redis[k] ELSE registry[k]

\* A registered sensor of an active site is resolved to its row, whatever Redis has kept of
\* an earlier one, once the cache was warmed after its last registration (cache.py:49, 114);
\* and without a restart, too, when it was registered for the first time.  A sensor entered
\* anew answers with its old row until the ingestor restarts.  One that was removed may do so
\* even after it, as long as Redis keeps its id: the warming writes over what is registered
\* and takes nothing away, whatever cache.py:60 says ("Returns None if the sensor is not
\* registered").
CacheAgreesWithRegistry ==
    link \in {"offline", "online"} =>
        \A k \in ActiveKeys : registry[k] # None /\ (k \notin moved \/ entered[k] = 1) =>
            Answer(k) = registry[k]

\* A message is either dead-lettered or filed, never both; what is shown live or raised as
\* an alarm was filed before, under an id its own sensor has or has had (ingestor.py:226).
\* Checked with the types.
OneFate ==
    /\ FeedTypeOK
    /\ "dead" \in fate => fate = {"dead"}
    /\ fate \cap {"shown", "raised"} # {} => "filed" \in fate
    /\ "filed" \in fate => id \in Ids /\ id[1] = msg[1] /\ id[2] <= entered[msg[1]]

\* The alarm of a sensor that stays registered, repeated with every reading, reaches the
\* engine in the end, though Redis keeps nothing for it and an exception costs the message
\* in hand.
AlarmsGetThrough ==
    \A k \in Keys :
        (k \in unheard /\ registry[k] # None) ~> (k \notin unheard \/ registry[k] = None)

\* Who stays sees the readings of every sensor that stays registered and was asked for, and
\* the coroutine of a client that left ends as long as readings its filter lets through come.
WatchersSee ==
    \A c \in Clients : \A k \in Wanted[c] \cap Subscribed[c] :
        /\ (relay[c] /\ open[c] /\ registry[k] # None) ~>
               (~relay[c] \/ ~open[c] \/ k \in seen[c] \/ registry[k] = None)
        /\ (relay[c] /\ ~open[c] /\ registry[k] # None) ~>
               (~(relay[c] /\ ~open[c]) \/ registry[k] = None)

=============================================================================
