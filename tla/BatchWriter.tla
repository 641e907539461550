----------------------------- MODULE BatchWriter -----------------------------
(***************************************************************************)
(* The batch writer of the ingestor (platform/ingestion/batch_writer.py)   *)
(* and the part of the ingestor that feeds and stops it                    *)
(* (platform/ingestion/ingestor.py): one asyncio process that collects     *)
(* telemetry rows in a buffer and inserts them into TimescaleDB in bulk.   *)
(*                                                                         *)
(* Flushes run side by side: the timer's, one per task that a full batch   *)
(* starts, and the final one of stop().  The writer's lock is never held   *)
(* across an await, so each of its sections is one step; a flush suspends  *)
(* only in the INSERT.  A row is its number in the order of arrival.       *)
(***************************************************************************)
EXTENDS Naturals, Sequences, FiniteSets

CONSTANTS
    BatchSize,    \* BATCH_SIZE
    MaxPending,   \* BATCH_MAX_PENDING
    Workers,      \* bound: flush tasks started by full batches at a time
    MaxRows,      \* bound: rows
    MaxErrors     \* bound: failed INSERTs

\* The defaults are 2000 and 50000.
ASSUME SizesAssumption ==
    /\ BatchSize \in Nat \ {0} /\ MaxPending \in Nat /\ BatchSize <= MaxPending
ASSUME WorkersAssumption == "timer" \notin Workers /\ "final" \notin Workers
ASSUME WriterBoundsAssumption == MaxRows \in Nat /\ MaxErrors \in Nat

VARIABLES
    buffer,     \* _buffer
    batch,      \* the batch each flush took
    stage,      \* where each flush is
    phase,      \* of stop(): what it has done so far
    consumer,   \* _consume: waits for a message, is inside one, or has returned
    offered,    \* rows enqueue was called with
    dropped,    \* the rows stats.rows_dropped counts
    written,    \* the rows stats.rows_written counts
    table,      \* how often each row is in table telemetry
    errors,     \* failed INSERTs
    lostAcks    \* those of them the database had committed

rowVars    == <<offered, dropped, written, table>>
dbCounters == <<errors, lostAcks>>
vars == <<buffer, batch, stage, phase, consumer, rowVars, dbCounters>>

Flushes == {"timer", "final"} \cup Workers
Rows    == 1..MaxRows
Elems(q) == {q[i] : i \in DOMAIN q}

-----------------------------------------------------------------------------
(* enqueue, called by the consumer inside a message.                       *)

Receive ==
    /\ consumer = "waiting"
    /\ phase = "running"
    /\ offered < MaxRows
    /\ consumer' = "handling"
    /\ UNCHANGED <<buffer, batch, stage, phase, rowVars, dbCounters>>

Offer ==
    /\ consumer = "handling"
    /\ consumer' = "waiting"
    /\ offered' = offered + 1
    /\ UNCHANGED <<batch, phase, written, table, dbCounters>>

\* Backpressure: a full buffer takes no row.
Reject ==
    /\ Offer
    /\ Len(buffer) >= MaxPending
    /\ dropped' = dropped \cup {offered + 1}
    /\ UNCHANGED <<buffer, stage>>

Admit ==
    /\ Offer
    /\ Len(buffer) < MaxPending
    /\ buffer' = Append(buffer, offered + 1)
    /\ UNCHANGED dropped

Accept == Admit /\ Len(buffer') < BatchSize /\ UNCHANGED stage

\* A full batch starts a flush, whatever flushes are under way.
AcceptAndFlush(w) ==
    /\ Admit
    /\ Len(buffer') >= BatchSize
    /\ stage[w] = "idle"
    /\ stage' = [stage EXCEPT ![w] = "spawned"]

-----------------------------------------------------------------------------
(* _flush.                                                                 *)

\* Mutant: the buffer is copied and not cleared.
CopyBatch(f) ==
    /\ buffer # <<>>
    /\ batch' = [batch EXCEPT ![f] = buffer]
    /\ stage' = [stage EXCEPT ![f] = "insert"]
    /\ UNCHANGED <<buffer, consumer, rowVars, dbCounters>>

TakeBatch(f) ==
    /\ buffer # <<>>
    /\ batch' = [batch EXCEPT ![f] = buffer]
    /\ buffer' = <<>>
    /\ stage' = [stage EXCEPT ![f] = "insert"]
    /\ UNCHANGED <<consumer, rowVars, dbCounters>>

\* Mutant: the timer waits for a full batch as well.
TimerFlushFull ==
    /\ phase = "running"
    /\ stage["timer"] = "idle"
    /\ Len(buffer) >= BatchSize
    /\ TakeBatch("timer")
    /\ UNCHANGED phase

\* The timer wakes up with rows to write.
TimerFlush ==
    /\ phase = "running"
    /\ stage["timer"] = "idle"
    /\ TakeBatch("timer")
    /\ UNCHANGED phase

WorkerFlush(w) ==
    /\ stage[w] = "spawned"
    /\ TakeBatch(w)
    /\ UNCHANGED phase

\* Another flush was faster.
NothingToFlush(w) ==
    /\ stage[w] = "spawned"
    /\ buffer = <<>>
    /\ stage' = [stage EXCEPT ![w] = "idle"]
    /\ UNCHANGED <<buffer, batch, phase, consumer, rowVars, dbCounters>>

\* The end of an INSERT that was not cancelled.
EndOfInsert(f) ==
    /\ stage[f] = "insert"
    /\ f = "timer" => phase = "running"
    /\ stage' = [stage EXCEPT ![f] = "idle"]
    /\ batch' = [batch EXCEPT ![f] = <<>>]
    /\ phase' = IF f = "final" THEN "stopped" ELSE phase
    /\ UNCHANGED <<consumer, offered>>

\* What the table holds once the batches of the flushes in "done" are committed.
Stored(done) ==
    [r \in Rows |-> IF \E f \in done : r \in Elems(batch[f]) THEN table[r] + 1 ELSE table[r]]

Store(f) ==
    /\ EndOfInsert(f)
    /\ table' = Stored({f})
    /\ written' = written \cup Elems(batch[f])
    /\ UNCHANGED <<buffer, dropped, dbCounters>>

\* Mutants: the rows put back are not cut to the limit, are cut but counted wrongly,
\* or replace what has arrived in the meantime.
PutBackAll(q) == buffer' = q \o buffer /\ UNCHANGED dropped

PutBackCountingKept(q) ==
    LET all == q \o buffer
    IN  IF Len(all) <= MaxPending
        THEN buffer' = all /\ UNCHANGED dropped
        ELSE /\ buffer' = SubSeq(all, 1, MaxPending)
             /\ dropped' = dropped \cup Elems(SubSeq(all, MaxPending, Len(all)))

PutBackOnly(q) == buffer' = q /\ UNCHANGED dropped

\* The rows of a failed INSERT go back to the front of the buffer; what exceeds the
\* limit is cut off at the end.
PutBack(q) ==
    LET all == q \o buffer
    IN  IF Len(all) <= MaxPending
        THEN buffer' = all /\ UNCHANGED dropped
        ELSE /\ buffer' = SubSeq(all, 1, MaxPending)
             /\ dropped' = dropped \cup Elems(SubSeq(all, MaxPending + 1, Len(all)))

\* "committed": the connection broke after the database had committed.
Fail(f, committed) ==
    /\ EndOfInsert(f)
    /\ errors < MaxErrors
    /\ errors' = errors + 1
    /\ lostAcks' = IF committed THEN lostAcks + 1 ELSE lostAcks
    /\ table' = IF committed THEN Stored({f}) ELSE table
    /\ PutBack(batch[f])
    /\ UNCHANGED written

-----------------------------------------------------------------------------
(* stop, on SIGTERM or SIGINT, and the end of the process.                 *)

\* _running is reset and the timer's task is cancelled.
BeginStop ==
    /\ phase = "running"
    /\ phase' = "cancelling"
    /\ UNCHANGED <<buffer, batch, stage, consumer, rowVars, dbCounters>>

\* CancelledError is no Exception: the timer's batch does not go back to the
\* buffer.  The database may have committed it by then.
TimerCancelled(committed) ==
    /\ phase = "cancelling"
    /\ phase' = "cancelled"
    /\ committed => stage["timer"] = "insert"
    /\ table' = IF committed THEN Stored({"timer"}) ELSE table
    /\ stage' = [stage EXCEPT !["timer"] = "idle"]
    /\ batch' = [batch EXCEPT !["timer"] = <<>>]
    /\ UNCHANGED <<buffer, consumer, offered, dropped, written, dbCounters>>

FinalFlush ==
    /\ phase = "cancelled"
    /\ phase' = "flushing"
    /\ TakeBatch("final")

NothingLeft ==
    /\ phase = "cancelled"
    /\ buffer = <<>>
    /\ phase' = "stopped"
    /\ UNCHANGED <<buffer, batch, stage, consumer, rowVars, dbCounters>>

\* The next message ends _consume and with it main: asyncio.run cancels every task.
\* stop() takes a cancellation of its wait for the timer for the timer's own, and
\* goes on; later it is cancelled with the rest.
Exit(committed) ==
    /\ consumer = "waiting"
    /\ phase # "running"
    /\ consumer' = "gone"
    /\ committed \subseteq {f \in Flushes : stage[f] = "insert"}
    /\ table' = Stored(committed)
    /\ stage' = [f \in Flushes |-> "idle"]
    /\ batch' = [f \in Flushes |-> <<>>]
    /\ phase' = IF phase \in {"cancelling", "cancelled"} THEN "cancelled" ELSE "stopped"
    /\ UNCHANGED <<buffer, offered, dropped, written, dbCounters>>

-----------------------------------------------------------------------------
Init ==
    /\ buffer = <<>>
    /\ batch = [f \in Flushes |-> <<>>]
    /\ stage = [f \in Flushes |-> "idle"]
    /\ phase = "running"
    /\ consumer = "waiting"
    /\ offered = 0
    /\ dropped = {}
    /\ written = {}
    /\ table = [r \in Rows |-> 0]
    /\ errors = 0
    /\ lostAcks = 0

Next ==
    \/ Receive \/ Reject \/ Accept
    \/ \E w \in Workers : AcceptAndFlush(w) \/ WorkerFlush(w) \/ NothingToFlush(w)
    \/ TimerFlush
    \/ \E f \in Flushes : Store(f)
    \/ \E f \in Flushes, committed \in BOOLEAN : Fail(f, committed)
    \/ BeginStop
    \/ \E committed \in BOOLEAN : TimerCancelled(committed)
    \/ FinalFlush \/ NothingLeft
    \/ \E committed \in SUBSET Flushes : Exit(committed)

Spec == Init /\ [][Next]_vars

\* The timer keeps waking up, tasks that can run are run, and an INSERT returns.
\* Messages and signals need not come.
Fairness ==
    /\ WF_vars(TimerFlush)
    /\ \A w \in Workers : WF_vars(WorkerFlush(w) \/ NothingToFlush(w))
    /\ \A f \in Flushes : WF_vars(Store(f) \/ \E committed \in BOOLEAN : Fail(f, committed))

FairSpec == Spec /\ Fairness

-----------------------------------------------------------------------------
Injective(q) == \A i, j \in DOMAIN q : q[i] = q[j] => i = j

\* Every variable keeps its type.
TypeOK ==
    /\ buffer \in Seq(Rows)
    /\ batch \in [Flushes -> Seq(Rows)]
    /\ stage \in [Flushes -> {"idle", "spawned", "insert"}]
    /\ phase \in {"running", "cancelling", "cancelled", "flushing", "stopped"}
    /\ consumer \in {"waiting", "handling", "gone"}
    /\ offered \in 0..MaxRows
    /\ dropped \subseteq Rows
    /\ written \subseteq Rows
    /\ table \in [Rows -> Nat]
    /\ errors \in 0..MaxErrors
    /\ lostAcks \in 0..errors

\* The buffer never exceeds BATCH_MAX_PENDING, however many batches fail and come
\* back to it while new rows arrive.
BufferBounded == Len(buffer) <= MaxPending

\* A row is in one place only: no flush takes a row that another flush, the buffer
\* or a counter of the statistics has.
EachRowOnce ==
    /\ Injective(buffer)
    /\ \A f \in Flushes :
         /\ Injective(batch[f])
         /\ Elems(batch[f]) \cap (Elems(buffer) \cup written \cup dropped) = {}
         /\ \A g \in Flushes \ {f} : Elems(batch[f]) \cap Elems(batch[g]) = {}
    /\ Elems(buffer) \cap (written \cup dropped) = {}
    /\ written \cap dropped = {}

\* No row gets lost: until stop() is called, every row offered is in the buffer, in
\* a flush, written or counted as dropped, through failures and concurrent flushes.
NoRowForgotten ==
    phase = "running" =>
        \A r \in 1..offered :
            \/ r \in Elems(buffer) \cup written \cup dropped
            \/ \E f \in Flushes : r \in Elems(batch[f])

\* A row counted as written is in the table; it is there twice only if the
\* database committed an INSERT whose answer was lost.
StoredOnce ==
    /\ \A r \in written : table[r] > 0
    /\ lostAcks = 0 => \A r \in Rows : table[r] <= 1

\* A row does not stay in memory: unless the writer is stopped, it is written or
\* dropped (the flush triggers of batch_writer.py:9-12).
EventuallySettled ==
    \A r \in Rows :
        r \in Elems(buffer) ~> (r \in written \cup dropped \/ phase # "running")

=============================================================================
