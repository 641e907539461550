--------------------------- MODULE StoreAndForward ---------------------------
(***************************************************************************)
(* The store-and-forward buffer of the edge orchestrator                   *)
(* (edge/edge_orchestrator.py): the interceptor's MQTT thread forwards a   *)
(* message of the adapters when the cloud bridge is connected and stores   *)
(* it in a SQLite table when it is not; a coroutine of the main thread     *)
(* replays the table when the connection is back; the cloud client's       *)
(* thread keeps the connection and its flag.  The threads share one        *)
(* database connection and the counter _depth.                             *)
(*                                                                         *)
(* A thread of CPython 3.12 gives way only where it calls, so that each    *)
(* step is the code from one database call, publish or await to the next.  *)
(* Messages are numbered in the order of arrival, as the table's           *)
(* AUTOINCREMENT key numbers the stored ones: a table is a set of numbers. *)
(***************************************************************************)
EXTENDS Naturals, FiniteSets

CONSTANTS
    MaxMessages,   \* max_messages
    ReplayBatch,   \* _replay_batch_size
    CommitEvery,   \* store commits when the depth is a multiple of it
    MaxArrivals,   \* bound: messages of the adapters
    MaxConnects,   \* bound: connections to the cloud broker
    MaxRestarts,   \* bound: ends of the process
    MaxFaults      \* bound: statements of the database that fail

\* The defaults are 5 000 000, 500 and 1000.
ASSUME CapacityAssumption ==
    MaxMessages \in Nat \ {0} /\ ReplayBatch \in Nat \ {0} /\ CommitEvery \in Nat \ {0}
ASSUME ForwardBoundsAssumption ==
    /\ MaxArrivals \in Nat /\ MaxConnects \in Nat
    /\ MaxRestarts \in Nat /\ MaxFaults \in Nat

VARIABLES
    arrived,    \* messages the interceptor has received
    buffer,     \* table buffer as the one database connection sees it
    durable,    \* the table as last committed
    depth,      \* _depth
    storing,    \* where the interceptor's thread is in store
    excess,     \* the LIMIT of the eviction under way
    replay,     \* where the replay coroutine is
    batch,      \* rows fetched and not yet published
    done,       \* ids_to_delete
    counted,    \* COUNT(*) read by _update_stats and not yet assigned
    sent,       \* messages this process has published since the table was last torn
    torn,       \* a failed statement left published rows in the table, or brought rows
                \* back, and the replay has not read it since
    missed,     \* a row was inserted between the last COUNT(*) and its assignment
    link,       \* of the cloud client: the flag "connected" is link # "down"
    phase,      \* of the process
    connects, restarts, faults

storeVars  == <<storing, excess>>
replayVars == <<replay, batch, done, counted, sent>>
ghosts     == <<torn, missed>>
bounds     == <<connects, restarts, faults>>
vars == <<arrived, buffer, durable, depth, storeVars, replayVars, ghosts, link, phase, bounds>>

Oldest(S, n) == {m \in S : Cardinality({k \in S : k < m}) < n}

\* stop() closes the database connection first, unless its commit fails.
Open == phase \in {"running", "stopping", "unclosed"}

\* A statement or a commit fails: the transaction stays open with the table as b, or
\* SQLite rolls it back (it may when the disk is full).
Fault(b, tears) ==
    /\ faults < MaxFaults /\ faults' = faults + 1
    /\ \/ buffer' = b /\ torn' = tears
       \/ buffer' = durable /\ torn' = TRUE
    /\ UNCHANGED <<durable, connects, restarts>>

-----------------------------------------------------------------------------
(* The interceptor's thread: _on_message and store.                        *)

\* The flag says connected, whether the connection still carries or not.
Forward ==
    /\ phase # "down" /\ storing = "no" /\ link # "down"
    /\ arrived < MaxArrivals
    /\ arrived' = arrived + 1
    /\ UNCHANGED <<buffer, durable, depth, storeVars, replayVars, ghosts, link, phase, bounds>>

Intercept ==
    /\ phase # "down" /\ storing = "no" /\ link = "down"
    /\ arrived < MaxArrivals
    /\ arrived' = arrived + 1
    /\ storing' = "insert"
    /\ UNCHANGED <<buffer, durable, depth, excess, replayVars, ghosts, link, phase, bounds>>

Insert ==
    /\ storing = "insert" /\ Open
    /\ buffer' = buffer \cup {arrived}
    /\ storing' = "count"
    /\ missed' = (missed \/ replay = "assign")
    /\ UNCHANGED <<arrived, durable, depth, excess, replayVars, torn, link, phase, bounds>>

\* The counter grows; below capacity a multiple of CommitEvery commits.
CountBelow ==
    /\ storing = "count" /\ Open
    /\ depth < MaxMessages
    /\ depth' = depth + 1
    /\ durable' = IF depth' % CommitEvery = 0 THEN buffer ELSE durable
    /\ storing' = "no"
    /\ UNCHANGED <<arrived, buffer, excess, replayVars, ghosts, link, phase, bounds>>

\* At capacity the rows beyond it, by the counter, are to be evicted.
CountFull ==
    /\ storing = "count" /\ Open
    /\ depth >= MaxMessages
    /\ depth' = depth + 1
    /\ excess' = depth' - MaxMessages
    /\ storing' = "evict"
    /\ UNCHANGED <<arrived, buffer, durable, replayVars, ghosts, link, phase, bounds>>

Evict ==
    /\ storing = "evict" /\ Open
    /\ buffer' = buffer \ Oldest(buffer, excess)
    /\ storing' = "cap"
    /\ UNCHANGED <<arrived, durable, depth, excess, replayVars, ghosts, link, phase, bounds>>

Cap ==
    /\ storing = "cap" /\ Open
    /\ depth' = MaxMessages
    /\ durable' = IF MaxMessages % CommitEvery = 0 THEN buffer ELSE durable
    /\ storing' = "no"
    /\ excess' = 0
    /\ UNCHANGED <<arrived, buffer, replayVars, ghosts, link, phase, bounds>>

\* sqlite3 refuses a closed connection, and store swallows the error.
StoreRefused ==
    /\ storing # "no" /\ phase = "closed"
    /\ storing' = "no"
    /\ excess' = 0
    /\ UNCHANGED <<arrived, buffer, durable, depth, replayVars, ghosts, link, phase, bounds>>

\* The INSERT, the DELETE of the eviction or the commit fails, and what store has made
\* of the counter by then stays: uncounted, beyond the capacity, or counted.
StoreError ==
    /\ Open
    /\ \/ storing \in {"insert", "evict"} /\ UNCHANGED depth
       \/ storing = "count" /\ depth < MaxMessages /\ (depth + 1) % CommitEvery = 0
          /\ depth' = depth + 1
       \/ storing = "cap" /\ MaxMessages % CommitEvery = 0
          /\ depth' = MaxMessages
    /\ Fault(buffer, torn)
    /\ storing' = "no"
    /\ excess' = 0
    /\ UNCHANGED <<arrived, replayVars, missed, link, phase>>

-----------------------------------------------------------------------------
(* The main thread: _replay_loop and replay.                               *)

ReplayStart ==
    /\ phase = "running" /\ replay = "idle"
    /\ link # "down" /\ depth > 0
    /\ replay' = "fetch"
    /\ UNCHANGED <<arrived, buffer, durable, depth, storeVars, batch, done, counted, sent,
                   ghosts, link, phase, bounds>>

Fetch ==
    /\ replay = "fetch"
    /\ IF link = "down" \/ buffer = {}
       THEN replay' = "stats" /\ UNCHANGED batch
       ELSE replay' = "send" /\ batch' = Oldest(buffer, ReplayBatch)
    /\ torn' = (torn /\ replay' = "stats")
    /\ sent' = IF torn /\ ~torn' THEN {} ELSE sent
    /\ UNCHANGED <<arrived, buffer, durable, depth, storeVars, done, counted, missed,
                   link, phase, bounds>>

\* publish succeeds as long as the client has a socket, and an await follows.
Publish(m) ==
    /\ replay = "send" /\ phase = "running"
    /\ m \in Oldest(batch, 1)
    /\ link \in {"up", "broken"}
    /\ batch' = batch \ {m}
    /\ done' = done \cup {m}
    /\ sent' = sent \cup {m}
    /\ UNCHANGED <<arrived, buffer, durable, depth, storeVars, replay, counted,
                   ghosts, link, phase, bounds>>

\* All published, not connected any more, or MQTT_ERR_NO_CONN.
EndOfBatch ==
    /\ replay = "send" /\ phase = "running"
    /\ batch = {} \/ link \in {"closed", "down"}
    /\ replay' = "delete"
    /\ UNCHANGED <<arrived, buffer, durable, depth, storeVars, batch, done, counted, sent,
                   ghosts, link, phase, bounds>>

AfterDelete == IF Cardinality(batch \cup done) < ReplayBatch THEN "stats" ELSE "fetch"

\* Mutant: the whole batch is deleted, whether it was published or not.
DeleteBatch ==
    /\ replay = "delete"
    /\ buffer' = buffer \ (batch \cup done)
    /\ durable' = buffer'
    /\ replay' = AfterDelete
    /\ batch' = {} /\ done' = {}
    /\ UNCHANGED <<arrived, depth, storeVars, counted, sent,
                   ghosts, link, phase, bounds>>

\* Mutant: the published rows stay in the table.
KeepPublished ==
    /\ replay = "delete"
    /\ replay' = AfterDelete
    /\ batch' = {} /\ done' = {}
    /\ UNCHANGED <<arrived, buffer, durable, depth, storeVars, counted, sent,
                   ghosts, link, phase, bounds>>

\* The published rows are deleted and committed, with all that was stored meanwhile.
Delete ==
    /\ replay = "delete"
    /\ buffer' = buffer \ done
    /\ durable' = IF done = {} THEN durable ELSE buffer'
    /\ replay' = AfterDelete
    /\ batch' = {} /\ done' = {}
    /\ UNCHANGED <<arrived, depth, storeVars, counted, sent,
                   ghosts, link, phase, bounds>>

\* _update_stats: the table is counted, and the count assigned.
CountRows ==
    /\ replay = "stats"
    /\ counted' = Cardinality(buffer)
    /\ replay' = "assign"
    /\ missed' = FALSE
    /\ UNCHANGED <<arrived, buffer, durable, depth, storeVars, batch, done, sent, torn,
                   link, phase, bounds>>

\* Mutant: the counter is left as store has counted.
AssignNothing ==
    /\ replay = "assign"
    /\ replay' = "idle"
    /\ UNCHANGED <<arrived, buffer, durable, depth, storeVars, batch, done, counted, sent,
                   ghosts, link, phase, bounds>>

Assign ==
    /\ replay = "assign"
    /\ depth' = counted
    /\ replay' = "idle"
    /\ UNCHANGED <<arrived, buffer, durable, storeVars, batch, done, counted, sent,
                   ghosts, link, phase, bounds>>

\* replay swallows the error of its SELECT, its DELETE or its commit: what it has
\* published of the batch stays in the table, or is deleted and not committed.
ReplayError ==
    /\ \/ replay = "fetch" /\ link # "down" /\ Fault(buffer, torn)
       \/ replay = "delete" /\ done # {} /\ (Fault(buffer, TRUE) \/ Fault(buffer \ done, torn))
    /\ replay' = "stats"
    /\ batch' = {} /\ done' = {}
    /\ UNCHANGED <<arrived, depth, storeVars, counted, sent, missed, link, phase>>

\* The count fails where nothing catches it: gather raises, and start ends in stop().
CountError ==
    /\ replay = "stats"
    /\ Fault(buffer, torn)
    /\ replay' = "over"
    /\ UNCHANGED <<arrived, depth, storeVars, batch, done, counted, sent, missed, link, phase>>

\* After stop() the replay loop ends, and deletes nothing any more.
ReplayOver ==
    /\ replay = "send" /\ phase \in {"closed", "unclosed"}
    /\ replay' = "over"
    /\ batch' = {} /\ done' = {}
    /\ torn' = TRUE
    /\ UNCHANGED <<arrived, buffer, durable, depth, storeVars, counted, sent, missed,
                   link, phase, bounds>>

-----------------------------------------------------------------------------
(* The cloud client's thread.                                              *)

LinkStep(from, to) ==
    /\ phase # "down"
    /\ link \in from
    /\ link' = to
    /\ UNCHANGED <<arrived, buffer, durable, depth, storeVars, replayVars, ghosts, phase,
                   restarts, faults>>

Connect == LinkStep({"down"}, "up") /\ connects < MaxConnects /\ connects' = connects + 1

\* The network stops carrying, the client notices and closes its socket, and then
\* calls _on_disconnect.
LinkLost     == LinkStep({"up"}, "broken") /\ UNCHANGED connects
SocketClosed == LinkStep({"up", "broken"}, "closed") /\ UNCHANGED connects
OnDisconnect == LinkStep({"closed"}, "down") /\ UNCHANGED connects

-----------------------------------------------------------------------------
(* Start, stop and end of the process.                                     *)

\* Mutant: the coroutine is stopped wherever it is.
StopAnywhere ==
    /\ phase = "running"
    /\ phase' = "stopping"
    /\ durable' = buffer
    /\ UNCHANGED <<arrived, buffer, depth, storeVars, replayVars, ghosts, link, bounds>>

\* stop() runs when the replay coroutine is in an await or has failed, and commits first.
Stopping ==
    /\ phase = "running"
    /\ replay \in {"idle", "over"} \/ (replay = "send" /\ done # {})
    /\ UNCHANGED <<arrived, depth, storeVars, replayVars, missed, link>>

Stop ==
    /\ Stopping
    /\ phase' = "stopping"
    /\ durable' = buffer
    /\ UNCHANGED <<buffer, torn, bounds>>

\* flush_commit swallows the error; so does close, which then leaves the connection open.
StopError ==
    /\ Stopping
    /\ phase' = "unclosed"
    /\ Fault(buffer, torn)

\* Closing the connection rolls back what was stored since.
Close ==
    /\ phase = "stopping"
    /\ phase' = "closed"
    /\ buffer' = durable
    /\ UNCHANGED <<arrived, durable, depth, storeVars, replayVars, ghosts, link, bounds>>

\* The process exits, or is killed at any instant.
End ==
    /\ phase # "down"
    /\ restarts < MaxRestarts
    /\ phase' = "down"
    /\ restarts' = restarts + 1
    /\ buffer' = durable
    /\ link' = "down"
    /\ storing' = "no" /\ excess' = 0
    /\ replay' = "idle" /\ batch' = {} /\ done' = {} /\ counted' = 0 /\ sent' = {}
    /\ torn' = FALSE /\ missed' = FALSE
    /\ UNCHANGED <<arrived, durable, depth, connects, faults>>

Start ==
    /\ phase = "down"
    /\ phase' = "running"
    /\ depth' = Cardinality(buffer)
    /\ UNCHANGED <<arrived, buffer, durable, storeVars, replayVars, ghosts, link, bounds>>

-----------------------------------------------------------------------------
Init ==
    /\ arrived = 0
    /\ buffer = {} /\ durable = {}
    /\ depth = 0
    /\ storing = "no" /\ excess = 0
    /\ replay = "idle" /\ batch = {} /\ done = {} /\ counted = 0 /\ sent = {}
    /\ link = "down"
    /\ phase = "running"
    /\ torn = FALSE /\ missed = FALSE
    /\ connects = 0 /\ restarts = 0 /\ faults = 0

StoreStep == Insert \/ CountBelow \/ CountFull \/ Evict \/ Cap \/ StoreRefused \/ StoreError

ReplayStep ==
    \/ ReplayStart \/ Fetch
    \/ \E m \in batch : Publish(m)
    \/ EndOfBatch \/ Delete \/ CountRows \/ Assign \/ ReplayError \/ CountError \/ ReplayOver

Next ==
    \/ Forward \/ Intercept \/ StoreStep
    \/ ReplayStep
    \/ Connect \/ LinkLost \/ SocketClosed \/ OnDisconnect
    \/ Stop \/ StopError \/ Close \/ End \/ Start

Spec == Init /\ [][Next]_vars

\* The threads run, _replay_loop wakes up every ten seconds, and start ends in stop()
\* when the replay has raised.  Nothing forces a message, a connection or its loss.
FairSpec ==
    /\ Spec
    /\ WF_vars(StoreStep) /\ WF_vars(ReplayStep)
    /\ WF_vars(replay = "over" /\ (Stop \/ StopError))

-----------------------------------------------------------------------------
\* Every variable keeps its type; a step of the replay that has no await before it
\* is never taken by a process that stops.
TypeOK ==
    /\ arrived \in 0..MaxArrivals
    /\ buffer \subseteq 1..arrived /\ durable \subseteq 1..arrived
    /\ depth \in Nat /\ excess \in Nat /\ counted \in Nat
    /\ storing \in {"no", "insert", "count", "evict", "cap"}
    /\ replay \in {"idle", "fetch", "send", "delete", "stats", "assign", "over"}
    /\ batch \subseteq 1..arrived /\ done \subseteq sent /\ sent \subseteq 1..arrived
    /\ link \in {"down", "up", "broken", "closed"}
    /\ phase \in {"running", "stopping", "unclosed", "closed", "down"}
    /\ torn \in BOOLEAN /\ missed \in BOOLEAN
    /\ connects \in 0..MaxConnects /\ restarts \in 0..MaxRestarts /\ faults \in 0..MaxFaults
    /\ replay \in {"fetch", "delete", "stats", "assign"} => phase = "running"

\* What the buffer still has to send: the rows in the table or in the replay's hand
\* that it has not published, and nothing once it is closed or while it is torn.
Pending == IF Open /\ ~torn THEN (buffer \cup batch) \ done ELSE {}

Promise == INSTANCE Outbox WITH last <- arrived, pending <- Pending,
                                sent <- IF torn THEN {} ELSE sent

\* The buffer is an outbox: through disconnects, evictions, a racing replay and a
\* stop it sends each message at most once and in order (the class comment's
\* "replayed in order"), until the process ends or the table is torn.  A DELETE or commit
\* that fails after the publishes leaves the rows to be published again: what was sent
\* before it is forgotten, and the promise begins anew when the replay next reads the table.
IsAnOutbox == Promise!Spec

\* A row leaves the table only published, evicted at capacity, with the process, or with
\* a transaction SQLite rolls back: a publish that fails, a connection that breaks in the
\* middle of a batch, or a failed statement of the replay costs no message that was committed
\* (replay deletes ids_to_delete and not the rows it fetched).
OnlyPublishedIsDeleted ==
    [][\A m \in buffer \ buffer' : \/ m \in sent \/ Evict \/ phase' # phase
                                   \/ m \notin durable /\ faults' # faults]_vars

\* While the connection stands the table is emptied (_replay_loop), and the counter says so,
\* with two exceptions: a row stored between the last COUNT(*) and its assignment may stay,
\* and so may rows that a rolled back transaction brought back.
BacklogIsReplayed ==
    <>[](phase = "running" /\ link = "up") => <>[](depth = 0 /\ (buffer = {} \/ missed \/ torn))

=============================================================================
