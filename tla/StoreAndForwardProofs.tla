------------------------ MODULE StoreAndForwardProofs ------------------------
(***************************************************************************)
(* Theorems about StoreAndForward, for every capacity, batch size and      *)
(* commit interval.                                                        *)
(***************************************************************************)
EXTENDS StoreAndForward, FiniteSetTheorems, TLAPS

-----------------------------------------------------------------------------
(* The inductive invariant.                                                *)

\* The replay has a batch only while it publishes and deletes it, and it works
\* only in a process that runs, or is in an await of one that stops.
Stages ==
    /\ replay \notin {"send", "delete"} => batch = {} /\ done = {}
    /\ replay \in {"fetch", "delete", "stats", "assign"} => phase = "running"
    /\ phase = "down" => replay = "idle" /\ storing = "no" /\ sent = {} /\ ~torn
    /\ storing = "insert" => arrived > 0
    /\ batch \cap done = {}

\* Everything published is older than what is not; a batch is older than the rest
\* of the table; and the message to be stored is newer than all.
InOrder ==
    /\ Open /\ ~torn =>
               /\ \A s \in sent : \A k \in (buffer \cup batch) \ done : s < k
               /\ \A b \in batch : \A k \in buffer \ (batch \cup done) : b < k
    /\ storing = "insert" =>
          \A k \in buffer \cup durable \cup batch \cup sent : k < arrived

IInv == TypeOK /\ Stages /\ InOrder

-----------------------------------------------------------------------------
(* The oldest rows of a table.                                             *)

LEMMA TableIsFinite ==
    ASSUME NEW a \in Nat, NEW S \in SUBSET (1..a)
    PROVE  IsFiniteSet(S) /\ Cardinality(S) \in Nat
<1>1. IsFiniteSet(1..a)
  <2>1. 1 \in Int /\ a \in Int
    OBVIOUS
  <2> QED BY <2>1, FS_Interval
<1>2. IsFiniteSet(S)
  BY <1>1, FS_Subset
<1> QED BY <1>2, FS_CardinalityType

\* Oldest(S, n) is closed downwards in S.
LEMMA OldestFirst ==
    ASSUME NEW a \in Nat, NEW S \in SUBSET (1..a), NEW n \in Nat
    PROVE  /\ Oldest(S, n) \subseteq S
           /\ \A m \in Oldest(S, n), k \in S \ Oldest(S, n) : m < k
<1>1. IsFiniteSet(S)
  BY TableIsFinite
<1>2. ASSUME NEW m \in Oldest(S, n), NEW k \in S \ Oldest(S, n) PROVE m < k
  <2> DEFINE below(x) == {j \in S : j < x}
  <2>1. below(m) \subseteq S /\ below(k) \subseteq S /\ m \in S
    BY DEF Oldest
  <2>2. IsFiniteSet(below(m)) /\ IsFiniteSet(below(k))
    BY <1>1, <2>1, FS_Subset
  <2>3. Cardinality(below(m)) < n /\ ~(Cardinality(below(k)) < n)
    BY DEF Oldest
  <2>4. Cardinality(below(m)) \in Nat /\ Cardinality(below(k)) \in Nat
    BY <2>2, FS_CardinalityType
  <2>5. ASSUME k < m PROVE FALSE
    <3>1. \A j \in S : j < k => j < m
      <4>1. S \subseteq Nat /\ k \in S /\ m \in S
        BY <2>1
      <4> QED BY <4>1, <2>5
    <3>2. below(k) \subseteq below(m)
      BY <3>1
    <3>3. Cardinality(below(k)) <= Cardinality(below(m))
      BY <3>2, <2>2, FS_Subset
    <3> QED BY <3>3, <2>3, <2>4
  <2>6. m # k /\ m \in Nat /\ k \in Nat
    BY <2>1
  <2> QED BY <2>5, <2>6
<1> QED BY <1>2 DEF Oldest

\* The one row publish takes is older than the rest of the batch.
LEMMA FirstIsLeast ==
    ASSUME NEW a \in Nat, NEW S \in SUBSET (1..a), NEW m \in Oldest(S, 1)
    PROVE  m \in S /\ \A k \in S \ {m} : m < k
<1>1. IsFiniteSet(S) /\ m \in S /\ S \subseteq Nat
  <2>1. IsFiniteSet(S)
    BY TableIsFinite
  <2> QED BY <2>1 DEF Oldest
<1> DEFINE below == {j \in S : j < m}
<1>2. IsFiniteSet(below)
  BY <1>1, FS_Subset
<1>3. Cardinality(below) < 1
  BY DEF Oldest
<1>4. Cardinality(below) = 0
  BY <1>2, <1>3, FS_CardinalityType
<1>5. below = {}
  BY <1>2, <1>4, FS_EmptySet
<1> QED BY <1>1, <1>5

-----------------------------------------------------------------------------
(* Every step keeps the invariant.                                         *)

LEMMA InitIInv == Init => IInv
<1> SUFFICES ASSUME Init PROVE IInv
  OBVIOUS
<1>1. torn = FALSE /\ missed = FALSE
  BY DEF Init
<1>2. TypeOK
  <2>1. torn \in BOOLEAN /\ missed \in BOOLEAN
    BY <1>1
  <2> QED BY <2>1, ForwardBoundsAssumption DEF Init, TypeOK
<1>3. Stages /\ InOrder
  BY <1>1 DEF Init, Stages, InOrder, Open
<1> QED BY <1>2, <1>3 DEF IInv

\* What a failed statement leaves: the table as it was, or as it was committed and torn.
LEMMA FaultKeeps ==
    ASSUME IInv, NEW b \in SUBSET (1..arrived), NEW t \in BOOLEAN, Fault(b, t)
    PROVE  /\ faults' \in 0..MaxFaults /\ faults' # faults /\ torn' \in BOOLEAN
           /\ buffer' \in {b, durable} /\ buffer' \subseteq 1..arrived
           /\ ~torn' => buffer' = b /\ ~t
           /\ UNCHANGED <<durable, connects, restarts>>
<1>1. faults' \in 0..MaxFaults /\ faults' # faults
  BY ForwardBoundsAssumption DEF IInv, TypeOK, Fault
<1>2. durable \subseteq 1..arrived /\ UNCHANGED <<durable, connects, restarts>>
  BY DEF IInv, TypeOK, Fault
<1>3. \/ buffer' = b /\ torn' = t
      \/ buffer' = durable /\ torn' = TRUE
  BY DEF Fault
<1>4. CASE buffer' = b /\ torn' = t
  BY <1>1, <1>2, <1>4
<1>5. CASE buffer' = durable /\ torn' = TRUE
  BY <1>1, <1>2, <1>5
<1> QED BY <1>3, <1>4, <1>5

\* The tables a failed statement may leave.
LEMMA FaultTables ==
    ASSUME IInv
    PROVE  /\ buffer \in SUBSET (1..arrived) /\ buffer \ done \in SUBSET (1..arrived)
           /\ torn \in BOOLEAN
BY DEF IInv, TypeOK

LEMMA StoreErrorKeeps ==
    ASSUME IInv, StoreError
    PROVE  /\ depth' \in Nat /\ storing' = "no" /\ excess' = 0
           /\ faults' \in 0..MaxFaults /\ faults' # faults /\ torn' \in BOOLEAN
           /\ buffer' \in {buffer, durable} /\ buffer' \subseteq 1..arrived
           /\ ~torn' => buffer' = buffer /\ ~torn
           /\ UNCHANGED <<arrived, replayVars, missed, link, phase, durable, connects, restarts>>
<1>1. Fault(buffer, torn)
  BY DEF StoreError
<1>2. depth' \in Nat
  BY CapacityAssumption DEF IInv, TypeOK, StoreError
<1>3. /\ storing' = "no" /\ excess' = 0
      /\ UNCHANGED <<arrived, replayVars, missed, link, phase>>
  BY DEF StoreError
<1> QED BY <1>1, <1>2, <1>3, FaultTables, FaultKeeps

LEMMA ReplayErrorKeeps ==
    ASSUME IInv, ReplayError
    PROVE  /\ replay' = "stats" /\ batch' = {} /\ done' = {} /\ phase = "running"
           /\ faults' \in 0..MaxFaults /\ faults' # faults /\ torn' \in BOOLEAN
           /\ buffer' \in {buffer, buffer \ done, durable} /\ buffer' \subseteq 1..arrived
           /\ ~torn' => ~torn /\ buffer' = buffer \ done
           /\ UNCHANGED <<arrived, depth, storeVars, counted, sent, missed, link, phase, durable,
                          connects, restarts>>
<1>1. /\ replay' = "stats" /\ batch' = {} /\ done' = {}
      /\ UNCHANGED <<arrived, depth, storeVars, counted, sent, missed, link, phase>>
  BY DEF ReplayError
<1>2. phase = "running" /\ batch \cap done = {}
  BY DEF IInv, TypeOK, Stages, ReplayError
<1>3. \/ replay = "fetch" /\ Fault(buffer, torn)
      \/ Fault(buffer, TRUE)
      \/ Fault(buffer \ done, torn)
  BY DEF ReplayError
<1>4. CASE replay = "fetch" /\ Fault(buffer, torn)
  <2>1. done = {}
    BY <1>4 DEF IInv, Stages
  <2> QED BY <1>1, <1>2, <1>4, <2>1, FaultTables, FaultKeeps
<1>5. CASE Fault(buffer, TRUE)
  BY <1>1, <1>2, <1>5, FaultTables, FaultKeeps
<1>6. CASE Fault(buffer \ done, torn)
  BY <1>1, <1>2, <1>6, FaultTables, FaultKeeps
<1> QED BY <1>3, <1>4, <1>5, <1>6

LEMMA CountErrorKeeps ==
    ASSUME IInv, CountError
    PROVE  /\ replay = "stats" /\ replay' = "over" /\ phase = "running" /\ batch = {} /\ done = {}
           /\ faults' \in 0..MaxFaults /\ faults' # faults /\ torn' \in BOOLEAN
           /\ buffer' \in {buffer, durable} /\ buffer' \subseteq 1..arrived
           /\ ~torn' => buffer' = buffer /\ ~torn
           /\ UNCHANGED <<arrived, depth, storeVars, batch, done, counted, sent, missed, link, phase,
                          durable, connects, restarts>>
<1>1. Fault(buffer, torn)
  BY DEF CountError
<1>2. /\ replay = "stats" /\ replay' = "over"
      /\ UNCHANGED <<arrived, depth, storeVars, batch, done, counted, sent, missed, link, phase>>
  BY DEF CountError
<1>3. phase = "running" /\ batch = {} /\ done = {}
  BY <1>2 DEF IInv, TypeOK, Stages
<1> QED BY <1>1, <1>2, <1>3, FaultTables, FaultKeeps

LEMMA StopErrorKeeps ==
    ASSUME IInv, StopError
    PROVE  /\ phase = "running" /\ phase' = "unclosed" /\ replay \in {"idle", "over", "send"}
           /\ faults' \in 0..MaxFaults /\ torn' \in BOOLEAN
           /\ buffer' \in {buffer, durable} /\ buffer' \subseteq 1..arrived
           /\ ~torn' => buffer' = buffer /\ ~torn
           /\ UNCHANGED <<arrived, depth, storeVars, replayVars, missed, link, durable, connects,
                          restarts>>
<1>1. Fault(buffer, torn)
  BY DEF StopError
<1>2. /\ phase = "running" /\ phase' = "unclosed" /\ replay \in {"idle", "over", "send"}
      /\ UNCHANGED <<arrived, depth, storeVars, replayVars, missed, link>>
  BY DEF StopError, Stopping
<1> QED BY <1>1, <1>2, FaultTables, FaultKeeps

LEMMA TypeStep == ASSUME IInv, [Next]_vars PROVE TypeOK'
<1> USE CapacityAssumption, ForwardBoundsAssumption
    DEF IInv, TypeOK, Stages, Fault, storeVars, replayVars, ghosts, bounds
<1>1. CASE Forward
  <2>1. arrived' \in 0..MaxArrivals /\ 1..arrived \subseteq 1..arrived'
    BY <1>1 DEF Forward
  <2> QED BY <1>1, <2>1 DEF Forward
<1>2. CASE Intercept
  <2>1. arrived' \in 0..MaxArrivals /\ 1..arrived \subseteq 1..arrived'
    BY <1>2 DEF Intercept
  <2> QED BY <1>2, <2>1 DEF Intercept
<1>3. CASE Insert
  <2>1. arrived \in 1..arrived
    BY <1>3 DEF Insert
  <2> QED BY <1>3, <2>1 DEF Insert
<1>4. CASE CountBelow
  BY <1>4 DEF CountBelow
<1>5. CASE CountFull
  BY <1>5 DEF CountFull
<1>6. CASE Evict
  BY <1>6 DEF Evict
<1>7. CASE Cap
  BY <1>7 DEF Cap
<1>8. CASE StoreRefused
  BY <1>8 DEF StoreRefused
<1>26. CASE StoreError
  <2>1. torn' \in BOOLEAN /\ missed' \in BOOLEAN
    BY <1>26, StoreErrorKeeps
  <2>2. /\ arrived' \in 0..MaxArrivals /\ buffer' \subseteq 1..arrived'
        /\ durable' \subseteq 1..arrived'
    BY <1>26, StoreErrorKeeps
  <2>3. depth' \in Nat /\ excess' \in Nat /\ storing' = "no" /\ faults' \in 0..MaxFaults
    BY <1>26, StoreErrorKeeps
  <2>4. UNCHANGED <<arrived, replay, batch, done, counted, sent, link, phase, connects, restarts>>
    BY <1>26, StoreErrorKeeps
  <2> HIDE DEF Fault
  <2> QED BY <2>1, <2>2, <2>3, <2>4
<1>9. CASE ReplayStart
  BY <1>9 DEF ReplayStart
<1>10. CASE Fetch
  <2>1. arrived \in Nat /\ buffer \in SUBSET (1..arrived)
    OBVIOUS
  <2>2. Oldest(buffer, ReplayBatch) \subseteq buffer
    BY <2>1, OldestFirst
  <2> QED BY <1>10, <2>2 DEF Fetch
<1>11. ASSUME NEW m \in batch, Publish(m) PROVE TypeOK'
  BY <1>11 DEF Publish
<1>12. CASE EndOfBatch
  BY <1>12 DEF EndOfBatch
<1>13. CASE Delete
  BY <1>13 DEF Delete, AfterDelete
<1>14. CASE CountRows
  <2>1. arrived \in Nat /\ buffer \in SUBSET (1..arrived)
    OBVIOUS
  <2>2. Cardinality(buffer) \in Nat
    BY <2>1, TableIsFinite
  <2> QED BY <1>14, <2>2 DEF CountRows
<1>15. CASE Assign
  BY <1>15 DEF Assign
<1>16. CASE ReplayError
  BY <1>16, ReplayErrorKeeps
<1>27. CASE CountError
  BY <1>27, CountErrorKeeps
<1>28. CASE ReplayOver
  BY <1>28 DEF ReplayOver
<1>17. CASE Connect
  BY <1>17 DEF Connect, LinkStep
<1>18. CASE LinkLost
  BY <1>18 DEF LinkLost, LinkStep
<1>19. CASE SocketClosed
  BY <1>19 DEF SocketClosed, LinkStep
<1>20. CASE OnDisconnect
  BY <1>20 DEF OnDisconnect, LinkStep
<1>21. CASE Stop
  BY <1>21 DEF Stop, Stopping
<1>29. CASE StopError
  BY <1>29, StopErrorKeeps
<1>22. CASE Close
  BY <1>22 DEF Close
<1>23. CASE End
  <2>1. torn' \in BOOLEAN /\ missed' \in BOOLEAN
    BY <1>23 DEF End
  <2> QED BY <1>23, <2>1 DEF End
<1>24. CASE Start
  <2>1. arrived \in Nat /\ buffer \in SUBSET (1..arrived)
    OBVIOUS
  <2>2. Cardinality(buffer) \in Nat
    BY <2>1, TableIsFinite
  <2> QED BY <1>24, <2>2 DEF Start
<1>25. CASE UNCHANGED vars
  BY <1>25 DEF vars
<1> QED
  BY <1>1, <1>2, <1>3, <1>4, <1>5, <1>6, <1>7, <1>8, <1>9, <1>10, <1>11, <1>12, <1>13, <1>14,
     <1>15, <1>16, <1>17, <1>18, <1>19, <1>20, <1>21, <1>22, <1>23, <1>24, <1>25, <1>26, <1>27, <1>28,
     <1>29
     DEF Next, StoreStep, ReplayStep

LEMMA StagesStep == ASSUME IInv, [Next]_vars PROVE Stages'
<1> USE ForwardBoundsAssumption DEF IInv, TypeOK, Stages, Fault, storeVars, replayVars, ghosts, bounds
<1>1. CASE Forward \/ Intercept
  <2>1. arrived \in Nat /\ arrived' = arrived + 1
    BY <1>1 DEF Forward, Intercept
  <2>2. CASE Forward
    BY <2>2 DEF Forward
  <2>3. CASE Intercept
    BY <2>1, <2>3 DEF Intercept
  <2> QED BY <1>1, <2>2, <2>3
<1>2. CASE StoreStep
  BY <1>2 DEF StoreStep, Insert, CountBelow, CountFull, Evict, Cap, StoreRefused, StoreError, Open
<1>3. CASE ReplayStep
  BY <1>3 DEF ReplayStep, ReplayStart, Fetch, Publish, EndOfBatch, Delete, AfterDelete, CountRows,
              Assign, ReplayError, CountError, ReplayOver
<1>4. CASE Connect \/ LinkLost \/ SocketClosed \/ OnDisconnect
  BY <1>4 DEF Connect, LinkLost, SocketClosed, OnDisconnect, LinkStep
<1>5. CASE Stop \/ StopError \/ Close \/ End \/ Start
  BY <1>5 DEF Stop, StopError, Stopping, Close, End, Start
<1>6. CASE UNCHANGED vars
  BY <1>6 DEF vars
<1> QED BY <1>1, <1>2, <1>3, <1>4, <1>5, <1>6 DEF Next

\* The rows a batch is cut from, and the row of it that publish takes.
LEMMA FetchedFirst ==
    ASSUME IInv, Fetch, buffer # {}, link # "down"
    PROVE  /\ batch' \subseteq buffer
           /\ \A m \in batch', k \in buffer \ batch' : m < k
<1>1. arrived \in Nat /\ buffer \in SUBSET (1..arrived)
  BY ForwardBoundsAssumption DEF IInv, TypeOK
<1>2. batch' = Oldest(buffer, ReplayBatch) /\ ReplayBatch \in Nat
  BY CapacityAssumption DEF Fetch
<1> QED BY <1>1, <1>2, OldestFirst

LEMMA PublishedFirst ==
    ASSUME IInv, NEW m \in batch, Publish(m)
    PROVE  \A k \in batch \ {m} : m < k
<1>1. arrived \in Nat /\ batch \in SUBSET (1..arrived)
  BY ForwardBoundsAssumption DEF IInv, TypeOK
<1>2. m \in Oldest(batch, 1)
  BY DEF Publish
<1> QED BY <1>1, <1>2, FirstIsLeast

LEMMA InOrderStep == ASSUME IInv, [Next]_vars PROVE InOrder'
<1> USE ForwardBoundsAssumption DEF IInv, TypeOK, Stages, InOrder, Open, Fault, storeVars, replayVars, ghosts, bounds
<1>1. CASE Forward \/ Intercept
  <2>1. arrived \in Nat /\ arrived' = arrived + 1
    BY <1>1 DEF Forward, Intercept
  <2>2. \A k \in buffer \cup durable \cup batch \cup sent : k < arrived'
    BY <2>1
  <2>3. CASE Forward
    BY <2>3 DEF Forward
  <2>4. CASE Intercept
    BY <2>2, <2>4 DEF Intercept
  <2> QED BY <1>1, <2>3, <2>4
<1>2. CASE Insert
  BY <1>2 DEF Insert
<1>3. CASE CountBelow \/ CountFull \/ Evict \/ Cap \/ StoreRefused
  BY <1>3 DEF CountBelow, CountFull, Evict, Cap, StoreRefused
<1>11. CASE StoreError
  BY <1>11, StoreErrorKeeps
<1>4. CASE ReplayStart \/ EndOfBatch \/ CountRows \/ Assign \/ ReplayOver
  BY <1>4 DEF ReplayStart, EndOfBatch, CountRows, Assign, ReplayOver
<1>12. CASE ReplayError
  BY <1>12, ReplayErrorKeeps
<1>13. CASE CountError
  BY <1>13, CountErrorKeeps
<1>5. CASE Fetch
  <2>1. CASE link = "down" \/ buffer = {}
    BY <1>5, <2>1 DEF Fetch
  <2>2. CASE ~(link = "down" \/ buffer = {})
    <3>1. batch' = Oldest(buffer, ReplayBatch) /\ done' = {} /\ done = {} /\ batch = {}
          /\ sent' = (IF torn THEN {} ELSE sent) /\ ~torn'
          /\ UNCHANGED <<arrived, buffer, durable, storing, phase>>
      BY <1>5, <2>2 DEF Fetch
    <3>2. /\ batch' \subseteq buffer
          /\ \A m \in batch', k \in buffer \ batch' : m < k
      BY <1>5, <2>2, FetchedFirst
    <3> QED BY <3>1, <3>2
  <2> QED BY <2>1, <2>2
<1>6. ASSUME NEW m \in batch, Publish(m) PROVE InOrder'
  <2>1. m \in batch /\ \A k \in batch \ {m} : m < k
    BY <1>6, PublishedFirst
  <2>2. /\ batch' = batch \ {m} /\ done' = done \cup {m} /\ sent' = sent \cup {m}
        /\ UNCHANGED <<arrived, buffer, durable, storing, phase, torn>>
        /\ Open
    BY <1>6 DEF Publish
  <2>3. ~torn => \A s \in sent' : \A k \in (buffer' \cup batch') \ done' : s < k
    <3> SUFFICES ASSUME ~torn, NEW s \in sent', NEW k \in (buffer' \cup batch') \ done' PROVE s < k
      OBVIOUS
    <3>1. k \in (buffer \cup batch) \ done /\ k # m
      BY <2>2
    <3>2. m < k
      BY <3>1, <2>1, <2>2
    <3> QED BY <3>1, <3>2, <2>2
  <2>4. ~torn => \A b \in batch' : \A k \in buffer' \ (batch' \cup done') : b < k
    BY <2>2
  <2>5. storing' = "insert" =>
          \A k \in buffer' \cup durable' \cup batch' \cup sent' : k < arrived'
    BY <2>2
  <2>6. (~torn)' <=> ~torn
    BY <2>2
  <2> QED BY <2>3, <2>4, <2>5, <2>6
<1>7. CASE Delete
  BY <1>7 DEF Delete
<1>8. CASE Connect \/ LinkLost \/ SocketClosed \/ OnDisconnect
  BY <1>8 DEF Connect, LinkLost, SocketClosed, OnDisconnect, LinkStep
<1>9. CASE Stop \/ Close \/ End \/ Start
  BY <1>9 DEF Stop, Stopping, Close, End, Start
<1>14. CASE StopError
  BY <1>14, StopErrorKeeps
<1>10. CASE UNCHANGED vars
  BY <1>10 DEF vars
<1> QED
  BY <1>1, <1>2, <1>3, <1>4, <1>5, <1>6, <1>7, <1>8, <1>9, <1>10, <1>11, <1>12, <1>13, <1>14
     DEF Next, StoreStep, ReplayStep

LEMMA Invariant == Spec => []IInv
<1>1. IInv /\ [Next]_vars => IInv'
  BY TypeStep, StagesStep, InOrderStep DEF IInv
<1> QED BY InitIInv, <1>1, PTL DEF Spec

-----------------------------------------------------------------------------
(* Every step is a step of the outbox, or none.                            *)

LEMMA OutboxStep == ASSUME IInv, [Next]_vars PROVE [Promise!Next]_(Promise!outbox)
<1> USE ForwardBoundsAssumption
    DEF IInv, TypeOK, Stages, InOrder, Open, Pending, Fault, storeVars, replayVars, ghosts, bounds,
        Promise!Next, Promise!outbox
<1>1. CASE Forward \/ Intercept
  BY <1>1 DEF Forward, Intercept, Promise!Offer
<1>2. CASE Insert
  BY <1>2 DEF Insert, Promise!Put
<1>3. CASE Evict
  BY <1>3 DEF Evict, Promise!Drop
<1>4. CASE CountBelow \/ CountFull \/ Cap \/ StoreRefused
  <2>1. UNCHANGED <<arrived, buffer, batch, done, sent, torn, phase>>
    BY <1>4 DEF CountBelow, CountFull, Cap, StoreRefused
  <2> QED BY <2>1
<1>13. CASE StoreError
  BY <1>13, StoreErrorKeeps DEF Promise!Recover
<1>5. CASE ReplayStart \/ EndOfBatch \/ CountRows \/ Assign \/ ReplayOver
  BY <1>5 DEF ReplayStart, EndOfBatch, CountRows, Assign, ReplayOver, Promise!Recover
<1>14. CASE ReplayError
  <2>1. CASE torn'
    BY <1>14, <2>1, ReplayErrorKeeps DEF Promise!Recover
  <2>2. CASE ~torn'
    <3>1. /\ ~torn /\ buffer' = buffer \ done /\ batch' = {} /\ done' = {}
          /\ UNCHANGED <<arrived, sent, phase>>
      BY <1>14, <2>2, ReplayErrorKeeps
    <3>2. Pending' \subseteq Pending
      BY <2>2, <3>1
    <3> QED BY <2>2, <3>1, <3>2 DEF Promise!Drop
  <2> QED BY <2>1, <2>2
<1>15. CASE CountError
  BY <1>15, CountErrorKeeps DEF Promise!Recover
<1>6. CASE Fetch
  <2>1. CASE link = "down" \/ buffer = {}
    BY <1>6, <2>1 DEF Fetch
  <2>2. CASE ~(link = "down" \/ buffer = {})
    <3>1. batch' \subseteq buffer
      BY <1>6, <2>2, FetchedFirst
    <3> QED BY <1>6, <2>2, <3>1 DEF Fetch, Promise!Recover
  <2> QED BY <2>1, <2>2
<1>16. ASSUME NEW m \in batch, Publish(m), torn PROVE UNCHANGED Promise!outbox
  BY <1>16 DEF Publish
<1>7. ASSUME NEW m \in batch, Publish(m), ~torn PROVE Promise!Send
  <2>1. m \in batch /\ \A k \in batch \ {m} : m < k
    BY <1>7, PublishedFirst
  <2>2. /\ batch' = batch \ {m} /\ done' = done \cup {m} /\ sent' = sent \cup {m}
        /\ UNCHANGED <<arrived, buffer, phase, torn>>
        /\ Open /\ ~torn
    BY <1>7 DEF Publish
  <2>3. m \notin done
    BY <2>1, <2>2
  <2>4. m \in Pending /\ \A k \in sent : k < m
    BY <2>1, <2>2, <2>3
  <2>5. \A k \in Pending : m <= k
    BY <2>1, <2>2
  <2>6. Pending' = Pending \ {m}
    BY <2>2
  <2> QED BY <2>2, <2>4, <2>5, <2>6 DEF Promise!Send
<1>8. CASE Delete
  BY <1>8 DEF Delete, Promise!Drop
<1>9. CASE Connect \/ LinkLost \/ SocketClosed \/ OnDisconnect
  BY <1>9 DEF Connect, LinkLost, SocketClosed, OnDisconnect, LinkStep
<1>10. CASE Stop \/ Close
  BY <1>10 DEF Stop, Stopping, Close, Promise!Drop
<1>17. CASE StopError
  BY <1>17, StopErrorKeeps DEF Promise!Recover
<1>11. CASE End \/ Start
  BY <1>11 DEF End, Start, Promise!Recover
<1>12. CASE UNCHANGED vars
  BY <1>12 DEF vars
<1> QED
  BY <1>1, <1>2, <1>3, <1>4, <1>5, <1>6, <1>7, <1>8, <1>9, <1>10, <1>11, <1>12, <1>13, <1>14,
     <1>15, <1>16, <1>17 DEF Next, StoreStep, ReplayStep

-----------------------------------------------------------------------------
(* The theorems.                                                           *)

\* Every variable of the buffer keeps its type, and the replay does nothing but
\* wait in a process that stops.
THEOREM ForwardTypeCorrect == Spec => []TypeOK
<1>1. IInv => TypeOK
  BY DEF IInv
<1> QED BY Invariant, <1>1, PTL

\* The store-and-forward buffer implements the outbox: what replay publishes
\* is in order and without repetition, whatever the eviction, the connection and stop() do
\* meanwhile, from a start of the process or the first reading of a torn table to the next
\* end of the process or failed statement that tears it.
THEOREM BufferIsAnOutbox == Spec => IsAnOutbox
<1>1. Init => Promise!Init
  BY DEF Init, Promise!Init, Pending, Open
<1>2. IInv /\ [Next]_vars => [Promise!Next]_(Promise!outbox)
  BY OutboxStep
<1> QED BY Invariant, <1>1, <1>2, PTL DEF Spec, IsAnOutbox, Promise!Spec

\* A row leaves the table only published, evicted at capacity, with the process, or
\* uncommitted with a transaction that is rolled back.
THEOREM OnlyPublishedLeaves == Spec => OnlyPublishedIsDeleted
<1>1. ASSUME IInv, Next
      PROVE  \A m \in buffer \ buffer' : \/ m \in sent \/ Evict \/ phase' # phase
                                         \/ m \notin durable /\ faults' # faults
  <2> USE <1>1, ForwardBoundsAssumption
      DEF IInv, TypeOK, Fault, storeVars, replayVars, ghosts, bounds
  <2>1. CASE Delete
    BY <2>1 DEF Delete
  <2>2. CASE Close \/ End
    BY <2>2 DEF Close, End
  <2>3. CASE Evict
    BY <2>3
  <2>4. CASE Insert
    BY <2>4 DEF Insert
  <2>6. CASE StoreError
    BY <2>6, StoreErrorKeeps
  <2>7. CASE ReplayError
    BY <2>7, ReplayErrorKeeps
  <2>8. CASE CountError
    BY <2>8, CountErrorKeeps
  <2>9. CASE StopError
    BY <2>9, StopErrorKeeps
  <2>5. CASE ~(Delete \/ Close \/ End \/ Evict \/ Insert \/ StoreError \/ ReplayError \/ CountError
               \/ StopError)
    <3>1. buffer' = buffer
      BY <2>5 DEF Next, StoreStep, ReplayStep, Forward, Intercept, CountBelow, CountFull, Cap,
                  StoreRefused, ReplayStart, Fetch, Publish, EndOfBatch, CountRows, Assign,
                  ReplayOver, Connect, LinkLost, SocketClosed, OnDisconnect, LinkStep, Stop, Start
    <3> QED BY <3>1
  <2> QED BY <2>1, <2>2, <2>3, <2>4, <2>5, <2>6, <2>7, <2>8, <2>9
<1>2. IInv /\ [Next]_vars =>
        [\A m \in buffer \ buffer' : \/ m \in sent \/ Evict \/ phase' # phase
                                     \/ m \notin durable /\ faults' # faults]_vars
  BY <1>1
<1> QED BY Invariant, <1>2, PTL DEF Spec, OnlyPublishedIsDeleted

=============================================================================
