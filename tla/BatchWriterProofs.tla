-------------------------- MODULE BatchWriterProofs --------------------------
(***************************************************************************)
(* Theorems about BatchWriter, for every batch size, limit and number of   *)
(* concurrent flushes.                                                     *)
(***************************************************************************)
EXTENDS BatchWriter, TLAPS

-----------------------------------------------------------------------------
(* The sequences of the writer, seen as the sets of their rows.            *)

LEMMA EmptyElems == Elems(<<>>) = {} /\ Injective(<<>>)
BY DEF Elems, Injective

LEMMA AppendElems ==
    ASSUME NEW q \in Seq(Rows), NEW r \in Rows, Injective(q), r \notin Elems(q)
    PROVE  /\ Append(q, r) \in Seq(Rows)
           /\ Len(Append(q, r)) = Len(q) + 1
           /\ Elems(Append(q, r)) = Elems(q) \cup {r}
           /\ Injective(Append(q, r))
<1>1. /\ Append(q, r) \in Seq(Rows) /\ Len(Append(q, r)) = Len(q) + 1
      /\ DOMAIN q = 1..Len(q) /\ DOMAIN Append(q, r) = 1..Len(q) + 1 /\ Len(q) \in Nat
      /\ \A i \in 1..Len(q) : Append(q, r)[i] = q[i]
      /\ Append(q, r)[Len(q) + 1] = r
  OBVIOUS
<1>2. Elems(Append(q, r)) = Elems(q) \cup {r}
  BY <1>1 DEF Elems
<1>3. Injective(Append(q, r))
  BY <1>1 DEF Injective, Elems
<1> QED BY <1>1, <1>2, <1>3

LEMMA ConcatElems ==
    ASSUME NEW p \in Seq(Rows), NEW q \in Seq(Rows), Injective(p), Injective(q),
           Elems(p) \cap Elems(q) = {}
    PROVE  /\ p \o q \in Seq(Rows)
           /\ Elems(p \o q) = Elems(p) \cup Elems(q)
           /\ Injective(p \o q)
<1> DEFINE all == p \o q
           m   == Len(p)
           n   == Len(q)
<1>1. /\ all \in Seq(Rows) /\ m \in Nat /\ n \in Nat
      /\ DOMAIN p = 1..m /\ DOMAIN q = 1..n /\ DOMAIN all = 1..m + n
      /\ \A i \in 1..m : all[i] = p[i]
      /\ \A i \in 1..n : all[m + i] = q[i]
  OBVIOUS
<1>2. \A i \in DOMAIN all : \/ i \in 1..m /\ all[i] = p[i]
                            \/ \E j \in 1..n : i = m + j /\ all[i] = q[j]
  <2> SUFFICES ASSUME NEW i \in 1..m + n, i \notin 1..m
               PROVE  \E j \in 1..n : i = m + j /\ all[i] = q[j]
    BY <1>1
  <2>1. i - m \in 1..n /\ i = m + (i - m)
    BY <1>1
  <2>2. all[i] = q[i - m]
    BY <1>1, <2>1
  <2> QED BY <2>1, <2>2
<1> HIDE DEF all, m, n
<1>3. Elems(all) = Elems(p) \cup Elems(q)
  <2>1. Elems(all) \subseteq Elems(p) \cup Elems(q)
    <3> SUFFICES ASSUME NEW i \in DOMAIN all PROVE all[i] \in Elems(p) \cup Elems(q)
      BY DEF Elems
    <3>1. CASE i \in 1..m /\ all[i] = p[i]
      BY <3>1, <1>1 DEF Elems
    <3>2. CASE \E j \in 1..n : i = m + j /\ all[i] = q[j]
      BY <3>2, <1>1 DEF Elems
    <3> QED BY <1>2, <3>1, <3>2
  <2>2. Elems(p) \subseteq Elems(all)
    BY <1>1 DEF Elems
  <2>3. Elems(q) \subseteq Elems(all)
    <3> SUFFICES ASSUME NEW i \in 1..n PROVE q[i] \in Elems(all)
      BY <1>1 DEF Elems
    <3>1. m + i \in 1..m + n
      BY <1>1
    <3> QED BY <1>1, <3>1 DEF Elems
  <2> QED BY <2>1, <2>2, <2>3
<1>4. Injective(all)
  <2> SUFFICES ASSUME NEW i \in DOMAIN all, NEW j \in DOMAIN all, all[i] = all[j]
               PROVE  i = j
    BY DEF Injective
  <2> DEFINE InP(x) == x \in 1..m /\ all[x] = p[x]
             InQ(x) == \E y \in 1..n : x = m + y /\ all[x] = q[y]
  <2>1. CASE InP(i) /\ InP(j)
    BY <2>1, <1>1 DEF Injective
  <2>2. CASE InP(i) /\ InQ(j)
    BY <2>2, <1>1 DEF Elems
  <2>3. CASE InQ(i) /\ InP(j)
    BY <2>3, <1>1 DEF Elems
  <2>4. CASE InQ(i) /\ InQ(j)
    <3>1. PICK x \in 1..n : i = m + x /\ all[i] = q[x]
      BY <2>4
    <3>2. PICK y \in 1..n : j = m + y /\ all[j] = q[y]
      BY <2>4
    <3>3. x = y
      BY <3>1, <3>2, <1>1 DEF Injective
    <3> QED BY <3>1, <3>2, <3>3
  <2>5. (InP(i) \/ InQ(i)) /\ (InP(j) \/ InQ(j))
    BY <1>2
  <2> HIDE DEF InP, InQ
  <2> QED BY <2>1, <2>2, <2>3, <2>4, <2>5
<1> QED BY <1>1, <1>3, <1>4 DEF all

LEMMA CutElems ==
    ASSUME NEW q \in Seq(Rows), NEW k \in Nat, k < Len(q), Injective(q)
    PROVE  LET keep == SubSeq(q, 1, k)
               cut  == SubSeq(q, k + 1, Len(q))
           IN  /\ keep \in Seq(Rows) /\ Len(keep) = k /\ Injective(keep)
               /\ Elems(keep) \cap Elems(cut) = {}
               /\ Elems(keep) \cup Elems(cut) = Elems(q)
<1> DEFINE keep == SubSeq(q, 1, k)
           cut  == SubSeq(q, k + 1, Len(q))
           n    == Len(q)
<1>1. /\ n \in Nat /\ DOMAIN q = 1..n /\ k < n
      /\ \A i \in 1..n : q[i] \in Rows
  OBVIOUS
<1>2. /\ keep \in Seq(Rows) /\ Len(keep) = k /\ DOMAIN keep = 1..k
      /\ \A i \in 1..k : keep[i] = q[i]
  BY <1>1
<1>3. /\ DOMAIN cut = 1..n - k
      /\ \A i \in 1..n - k : cut[i] = q[k + i]
  BY <1>1
<1>4. \A i \in DOMAIN q : \/ i \in 1..k /\ q[i] = keep[i]
                          \/ \E j \in 1..n - k : q[i] = cut[j]
  <2> SUFFICES ASSUME NEW i \in 1..n, i \notin 1..k
               PROVE  \E j \in 1..n - k : q[i] = cut[j]
    BY <1>1, <1>2
  <2>1. i - k \in 1..n - k /\ i = k + (i - k)
    BY <1>1
  <2>2. cut[i - k] = q[k + (i - k)]
    BY <1>3, <2>1
  <2> QED BY <2>1, <2>2
<1>5. \A j \in 1..n - k : \E i \in 1..n : cut[j] = q[i] /\ i \notin 1..k
  <2> SUFFICES ASSUME NEW j \in 1..n - k
               PROVE  \E i \in 1..n : cut[j] = q[i] /\ i \notin 1..k
    OBVIOUS
  <2>1. k + j \in 1..n /\ k + j \notin 1..k
    BY <1>1
  <2> QED BY <1>3, <2>1
<1>6. \A i \in 1..k : i \in 1..n
  BY <1>1
<1> HIDE DEF keep, cut, n
<1>7. Injective(keep)
  BY <1>1, <1>2, <1>6 DEF Injective
<1>8. Elems(keep) \cap Elems(cut) = {}
  <2> SUFFICES ASSUME NEW i \in 1..k, NEW j \in 1..n - k, keep[i] = cut[j] PROVE FALSE
    BY <1>2, <1>3 DEF Elems
  <2>1. PICK x \in 1..n : cut[j] = q[x] /\ x \notin 1..k
    BY <1>5
  <2>2. q[i] = q[x] /\ i \in DOMAIN q /\ x \in DOMAIN q
    BY <1>1, <1>2, <1>6, <2>1
  <2>3. i = x
    BY <2>2 DEF Injective
  <2> QED BY <2>1, <2>3
<1>9. Elems(keep) \cup Elems(cut) = Elems(q)
  <2>1. ASSUME NEW i \in 1..n PROVE q[i] \in Elems(keep) \cup Elems(cut)
    <3>1. CASE i \in 1..k
      <4>1. keep[i] = q[i] /\ i \in DOMAIN keep
        BY <1>2, <3>1
      <4> QED BY <4>1 DEF Elems
    <3>2. CASE \E j \in 1..n - k : q[i] = cut[j]
      <4>1. PICK j \in 1..n - k : q[i] = cut[j]
        BY <3>2
      <4>2. j \in DOMAIN cut
        BY <1>3
      <4> QED BY <4>1, <4>2 DEF Elems
    <3>3. i \in DOMAIN q
      BY <1>1
    <3> QED BY <1>4, <3>1, <3>2, <3>3
  <2>2. ASSUME NEW i \in 1..k PROVE keep[i] \in Elems(q)
    <3>1. keep[i] = q[i] /\ i \in DOMAIN q
      BY <1>1, <1>2, <1>6
    <3> QED BY <3>1 DEF Elems
  <2>3. ASSUME NEW j \in 1..n - k PROVE cut[j] \in Elems(q)
    <3>1. PICK i \in 1..n : cut[j] = q[i]
      BY <1>5
    <3>2. i \in DOMAIN q
      BY <1>1
    <3> QED BY <3>1, <3>2 DEF Elems
  <2>4. DOMAIN q = 1..n /\ DOMAIN keep = 1..k /\ DOMAIN cut = 1..n - k
    BY <1>1, <1>2, <1>3
  <2> QED BY <2>1, <2>2, <2>3, <2>4 DEF Elems
<1> QED BY <1>2, <1>7, <1>8, <1>9 DEF keep, cut, n

\* What is put back and what is cut off are together what was there before.
LEMMA PutBackElems ==
    ASSUME NEW q \in Seq(Rows), buffer \in Seq(Rows), Injective(q), Injective(buffer),
           Elems(q) \cap Elems(buffer) = {}, PutBack(q)
    PROVE  /\ buffer' \in Seq(Rows) /\ Injective(buffer') /\ Len(buffer') <= MaxPending
           /\ \E cut \in SUBSET Rows :
                /\ dropped' = dropped \cup cut
                /\ Elems(buffer') \cap cut = {}
                /\ Elems(buffer') \cup cut = Elems(q) \cup Elems(buffer)
<1> DEFINE all == q \o buffer
<1>1. all \in Seq(Rows) /\ Injective(all) /\ Elems(all) = Elems(q) \cup Elems(buffer)
  BY ConcatElems
<1>2. Elems(all) \subseteq Rows
  BY <1>1 DEF Elems
<1>3. CASE Len(all) <= MaxPending
  <2>1. buffer' = all /\ dropped' = dropped \cup {}
    BY <1>3 DEF PutBack
  <2> QED BY <1>1, <1>3, <2>1
<1>4. CASE ~(Len(all) <= MaxPending)
  <2> DEFINE cut == Elems(SubSeq(all, MaxPending + 1, Len(all)))
  <2>1. buffer' = SubSeq(all, 1, MaxPending) /\ dropped' = dropped \cup cut
    BY <1>4 DEF PutBack
  <2>2. MaxPending \in Nat /\ MaxPending < Len(all)
    BY <1>1, <1>4, SizesAssumption
  <2> HIDE DEF all
  <2>3. /\ buffer' \in Seq(Rows) /\ Len(buffer') = MaxPending /\ Injective(buffer')
        /\ Elems(buffer') \cap cut = {} /\ Elems(buffer') \cup cut = Elems(all)
    <3>1. Injective(all) /\ all \in Seq(Rows)
      BY <1>1
    <3>2. /\ SubSeq(all, 1, MaxPending) \in Seq(Rows)
          /\ Len(SubSeq(all, 1, MaxPending)) = MaxPending
          /\ Injective(SubSeq(all, 1, MaxPending))
          /\ Elems(SubSeq(all, 1, MaxPending)) \cap cut = {}
          /\ Elems(SubSeq(all, 1, MaxPending)) \cup cut = Elems(all)
      BY <3>1, <2>2, CutElems
    <3> QED BY <2>1, <3>2
  <2>4. cut \in SUBSET Rows
    BY <1>2, <2>3
  <2>5. /\ dropped' = dropped \cup cut
        /\ Elems(buffer') \cap cut = {}
        /\ Elems(buffer') \cup cut = Elems(q) \cup Elems(buffer)
    BY <1>1, <2>1, <2>3 DEF all
  <2>6. Len(buffer') <= MaxPending
    BY <2>2, <2>3
  <2> HIDE DEF cut
  <2> QED BY <2>3, <2>4, <2>5, <2>6
<1> QED BY <1>3, <1>4

-----------------------------------------------------------------------------
(* The inductive invariant.                                                *)

Typed == TypeOK /\ BufferBounded

\* A flush outside its INSERT holds no batch, and the final flush has one only while
\* stop() waits for it.
Shape ==
    /\ consumer = "handling" => offered < MaxRows
    /\ \A f \in Flushes : stage[f] # "insert" => batch[f] = <<>>
    /\ phase # "flushing" => stage["final"] # "insert"

\* A row that was not offered yet is nowhere.
Unseen ==
    \A r \in Rows : r > offered =>
        /\ r \notin Elems(buffer) \cup written \cup dropped
        /\ \A f \in Flushes : r \notin Elems(batch[f])
        /\ table[r] = 0

\* While no answer was lost, a row still to be written is not in the table.
Unwritten ==
    lostAcks = 0 =>
        \A r \in Rows :
            (r \in Elems(buffer) \/ \E f \in Flushes : r \in Elems(batch[f]))
            => table[r] = 0

IInv == Typed /\ Shape /\ EachRowOnce /\ NoRowForgotten /\ StoredOnce /\ Unseen /\ Unwritten

LEMMA ElemsAreRows == ASSUME NEW q \in Seq(Rows) PROVE Elems(q) \subseteq Rows
BY DEF Elems

LEMMA StoredType ==
    ASSUME NEW done, table \in [Rows -> Nat]
    PROVE  Stored(done) \in [Rows -> Nat]
BY DEF Stored

LEMMA InitIInv == Init => IInv
<1> SUFFICES ASSUME Init PROVE IInv
  OBVIOUS
<1> USE EmptyElems DEF Init
<1>1. Typed
  BY SizesAssumption, WriterBoundsAssumption DEF Typed, TypeOK, BufferBounded
<1>2. Shape
  BY DEF Shape, Flushes
<1>3. EachRowOnce
  BY DEF EachRowOnce
<1>4. NoRowForgotten
  BY DEF NoRowForgotten
<1>5. StoredOnce
  BY DEF StoredOnce
<1>6. Unseen
  BY DEF Unseen
<1>7. Unwritten
  BY DEF Unwritten
<1> QED BY <1>1, <1>2, <1>3, <1>4, <1>5, <1>6, <1>7 DEF IInv

-----------------------------------------------------------------------------
(* The shapes of a step: what it does to the rows.                         *)

\* No row moves.
Quiet == UNCHANGED <<buffer, batch, rowVars, dbCounters>>

Takes(f) ==
    /\ stage[f] # "insert"
    /\ batch' = [batch EXCEPT ![f] = buffer]
    /\ buffer' = <<>>
    /\ UNCHANGED <<rowVars, dbCounters>>

\* The flushes in gone lose their batches, some of them committed.
Loses(gone, done) ==
    /\ done \subseteq gone
    /\ phase' # "running"
    /\ batch' = [f \in Flushes |-> IF f \in gone THEN <<>> ELSE batch[f]]
    /\ table' = Stored(done)
    /\ UNCHANGED <<buffer, offered, dropped, written, dbCounters>>

LEMMA StepShape ==
    ASSUME IInv, [Next]_vars
    PROVE  /\ phase' = "running" => phase = "running"
           /\ \/ Quiet
              \/ Reject
              \/ Admit
              \/ \E f \in Flushes : Takes(f)
              \/ \E f \in Flushes : Store(f)
              \/ \E f \in Flushes, committed \in BOOLEAN : Fail(f, committed)
              \/ \E gone, done \in SUBSET Flushes : Loses(gone, done)
<1> USE DEF IInv, Typed, TypeOK, Flushes
<1>1. CASE Receive
  BY <1>1 DEF Receive, Quiet
<1>2. CASE Reject
  BY <1>2 DEF Reject, Offer
<1>3. CASE Accept
  BY <1>3 DEF Accept, Admit, Offer
<1>4. ASSUME NEW w \in Workers, AcceptAndFlush(w)
      PROVE  Admit /\ phase' = phase
  BY <1>4 DEF AcceptAndFlush, Admit, Offer
<1>5. ASSUME NEW w \in Workers, WorkerFlush(w)
      PROVE  Takes(w) /\ w \in Flushes /\ phase' = phase
  BY <1>5 DEF WorkerFlush, TakeBatch, Takes
<1>6. ASSUME NEW w \in Workers, NothingToFlush(w)
      PROVE  Quiet /\ phase' = phase
  BY <1>6 DEF NothingToFlush, Quiet
<1>7. ASSUME TimerFlush PROVE Takes("timer") /\ phase' = phase
  BY <1>7 DEF TimerFlush, TakeBatch, Takes
<1>8. ASSUME NEW f \in Flushes, Store(f)
      PROVE  phase' = "running" => phase = "running"
  BY <1>8 DEF Store, EndOfInsert
<1>9. ASSUME NEW f \in Flushes, NEW committed \in BOOLEAN, Fail(f, committed)
      PROVE  phase' = "running" => phase = "running"
  BY <1>9 DEF Fail, EndOfInsert
<1>10. CASE BeginStop
  BY <1>10 DEF BeginStop, Quiet
<1>11. ASSUME NEW committed \in BOOLEAN, TimerCancelled(committed)
       PROVE  /\ phase' # "running"
              /\ \E gone, done \in SUBSET Flushes : Loses(gone, done)
  <2> DEFINE done == IF committed THEN {"timer"} ELSE {}
  <2>1. table' = Stored(done)
    <3>1. Stored({}) = table
      BY DEF Stored
    <3> QED BY <1>11, <3>1 DEF TimerCancelled
  <2>2. batch' = [f \in Flushes |-> IF f \in {"timer"} THEN <<>> ELSE batch[f]]
    BY <1>11 DEF TimerCancelled
  <2>3. Loses({"timer"}, done)
    BY <1>11, <2>1, <2>2 DEF TimerCancelled, Loses
  <2>4. {"timer"} \in SUBSET Flushes /\ done \in SUBSET Flushes
    OBVIOUS
  <2> HIDE DEF done
  <2>5. \E gone, dn \in SUBSET Flushes : Loses(gone, dn)
    BY <2>3, <2>4
  <2> QED BY <1>11, <2>5 DEF TimerCancelled
<1>12. ASSUME FinalFlush PROVE Takes("final") /\ phase' # "running"
  BY <1>12 DEF FinalFlush, TakeBatch, Takes, Shape
<1>13. CASE NothingLeft
  BY <1>13 DEF NothingLeft, Quiet
<1>14. ASSUME NEW committed \in SUBSET Flushes, Exit(committed)
       PROVE  Loses(Flushes, committed)
  BY <1>14 DEF Exit, Loses
<1>15. CASE UNCHANGED vars
  BY <1>15 DEF vars, rowVars, dbCounters, Quiet
<1> QED
  BY <1>1, <1>2, <1>3, <1>4, <1>5, <1>6, <1>7, <1>8, <1>9, <1>10, <1>11, <1>12, <1>13,
     <1>14, <1>15 DEF Next, Loses

-----------------------------------------------------------------------------
(* Every shape of step keeps the rows accounted for.                       *)

RowsInv == EachRowOnce /\ NoRowForgotten /\ StoredOnce /\ Unseen /\ Unwritten

LEMMA QuietRows ==
    ASSUME IInv, Quiet, phase' = "running" => phase = "running"
    PROVE  RowsInv'
<1> USE DEF IInv, Quiet, rowVars, dbCounters
<1>1. EachRowOnce'
  BY DEF EachRowOnce
<1>2. NoRowForgotten'
  BY DEF NoRowForgotten
<1>3. StoredOnce'
  BY DEF StoredOnce
<1>4. Unseen'
  BY DEF Unseen
<1>5. Unwritten'
  BY DEF Unwritten
<1> QED BY <1>1, <1>2, <1>3, <1>4, <1>5 DEF RowsInv

LEMMA RejectRows ==
    ASSUME IInv, Reject
    PROVE  RowsInv'
<1>1. /\ offered \in Nat /\ offered' = offered + 1 /\ offered + 1 \in Rows
      /\ dropped' = dropped \cup {offered + 1}
      /\ UNCHANGED <<buffer, batch, phase, written, table, lostAcks>>
  BY WriterBoundsAssumption
     DEF IInv, Typed, TypeOK, Shape, Reject, Offer, Rows, dbCounters
<1> USE <1>1 DEF IInv
<1>2. EachRowOnce'
  BY DEF EachRowOnce, Unseen
<1>3. NoRowForgotten'
  BY DEF NoRowForgotten
<1>4. StoredOnce'
  BY DEF StoredOnce
<1>5. Unseen'
  BY DEF Unseen, Rows
<1>6. Unwritten'
  BY DEF Unwritten
<1> QED BY <1>2, <1>3, <1>4, <1>5, <1>6 DEF RowsInv

LEMMA AdmitRows ==
    ASSUME IInv, Admit
    PROVE  RowsInv'
<1> DEFINE r == offered + 1
<1>1. /\ offered \in Nat /\ offered' = r /\ r \in Rows /\ r > offered
      /\ UNCHANGED <<batch, phase, written, dropped, table, lostAcks>>
  BY WriterBoundsAssumption
     DEF IInv, Typed, TypeOK, Shape, Admit, Offer, Rows, dbCounters
<1>2. Elems(buffer') = Elems(buffer) \cup {r} /\ Injective(buffer')
  <2>1. buffer \in Seq(Rows) /\ buffer' = Append(buffer, r) /\ Injective(buffer)
    BY DEF IInv, Typed, TypeOK, Admit, EachRowOnce
  <2>2. r \notin Elems(buffer)
    BY <1>1 DEF IInv, Unseen
  <2> QED BY <1>1, <2>1, <2>2, AppendElems
<1>3. \A x \in 1..r : x \in 1..offered \/ x = r
  BY <1>1
<1>4. \A x \in Rows : x > r => x > offered /\ x # r
  BY <1>1 DEF Rows
<1> HIDE DEF r
<1> USE <1>1, <1>2 DEF IInv
<1>5. EachRowOnce'
  BY DEF EachRowOnce, Unseen
<1>6. NoRowForgotten'
  BY <1>3 DEF NoRowForgotten
<1>7. StoredOnce'
  BY DEF StoredOnce
<1>8. Unseen'
  BY <1>4 DEF Unseen
<1>9. Unwritten'
  BY DEF Unwritten, Unseen
<1> QED BY <1>5, <1>6, <1>7, <1>8, <1>9 DEF RowsInv

LEMMA TakesRows ==
    ASSUME IInv, NEW f \in Flushes, Takes(f), phase' = "running" => phase = "running"
    PROVE  RowsInv'
<1>1. /\ Elems(batch[f]) = {} /\ Elems(buffer') = {} /\ Injective(buffer')
      /\ \A g \in Flushes : batch'[g] = IF g = f THEN buffer ELSE batch[g]
      /\ UNCHANGED <<offered, dropped, written, table, lostAcks>>
  BY EmptyElems DEF IInv, Shape, Typed, TypeOK, Takes, rowVars, dbCounters
<1> USE <1>1 DEF IInv
<1>2. EachRowOnce'
  BY DEF EachRowOnce
<1>3. NoRowForgotten'
  BY DEF NoRowForgotten
<1>4. StoredOnce'
  BY DEF StoredOnce
<1>5. Unseen'
  BY DEF Unseen
<1>6. Unwritten'
  BY DEF Unwritten
<1> QED BY <1>2, <1>3, <1>4, <1>5, <1>6 DEF RowsInv

\* The end of an INSERT empties the batch of its flush.
LEMMA EndOfInsertBatch ==
    ASSUME IInv, NEW f \in Flushes, EndOfInsert(f)
    PROVE  /\ \A g \in Flushes : batch'[g] = IF g = f THEN <<>> ELSE batch[g]
           /\ offered' = offered /\ (phase' = "running" => phase = "running")
           /\ batch[f] \in Seq(Rows) /\ Elems(batch[f]) \subseteq Rows
           /\ Elems(batch'[f]) = {} /\ Injective(batch'[f])
BY EmptyElems, ElemsAreRows DEF IInv, Typed, TypeOK, EndOfInsert

LEMMA StoreRows ==
    ASSUME IInv, NEW f \in Flushes, Store(f)
    PROVE  RowsInv'
<1>1. /\ \A g \in Flushes : batch'[g] = IF g = f THEN <<>> ELSE batch[g]
      /\ offered' = offered /\ (phase' = "running" => phase = "running")
      /\ Elems(batch[f]) \subseteq Rows
      /\ Elems(batch'[f]) = {} /\ Injective(batch'[f])
      /\ written' = written \cup Elems(batch[f])
      /\ UNCHANGED <<buffer, dropped, lostAcks>>
  BY EndOfInsertBatch DEF Store, dbCounters
<1>2. \A r \in Rows : table'[r] = IF r \in Elems(batch[f]) THEN table[r] + 1 ELSE table[r]
  BY DEF Store, Stored
<1>3. \A r \in Rows : table[r] \in Nat
  BY DEF IInv, Typed, TypeOK
<1> USE <1>1 DEF IInv
<1>4. EachRowOnce'
  BY DEF EachRowOnce
<1>5. NoRowForgotten'
  BY DEF NoRowForgotten
<1>6. StoredOnce'
  <2>1. \A r \in Rows : r \in written' => table'[r] > 0
    BY <1>2, <1>3 DEF StoredOnce
  <2>2. lostAcks' = 0 => \A r \in Rows : table'[r] <= 1
    BY <1>2, <1>3 DEF StoredOnce, Unwritten
  <2>3. written' \subseteq Rows
    BY DEF Typed, TypeOK
  <2> QED BY <2>1, <2>2, <2>3 DEF StoredOnce
<1>7. Unseen'
  BY <1>2 DEF Unseen
<1>8. Unwritten'
  BY <1>2 DEF Unwritten, EachRowOnce
<1> QED BY <1>4, <1>5, <1>6, <1>7, <1>8 DEF RowsInv

LEMMA FailRows ==
    ASSUME IInv, NEW f \in Flushes, NEW committed \in BOOLEAN, Fail(f, committed)
    PROVE  RowsInv'
<1>1. /\ \A g \in Flushes : batch'[g] = IF g = f THEN <<>> ELSE batch[g]
      /\ offered' = offered /\ (phase' = "running" => phase = "running")
      /\ batch[f] \in Seq(Rows) /\ Elems(batch[f]) \subseteq Rows
      /\ Elems(batch'[f]) = {} /\ Injective(batch'[f])
      /\ written' = written
  BY EndOfInsertBatch DEF Fail
<1>2. \A r \in Rows : /\ table[r] \in Nat
                      /\ table'[r] = table[r] \/ table'[r] = table[r] + 1
                      /\ r \notin Elems(batch[f]) => table'[r] = table[r]
                      /\ lostAcks' = 0 => table'[r] = table[r] /\ lostAcks = 0
  <2>1. \A r \in Rows : table[r] \in Nat
    BY DEF IInv, Typed, TypeOK
  <2>2. lostAcks \in Nat
    BY WriterBoundsAssumption DEF IInv, Typed, TypeOK
  <2>3. CASE committed
    <3>1. table' = Stored({f}) /\ lostAcks' # 0
      BY <2>2, <2>3 DEF Fail
    <3> QED BY <2>1, <3>1 DEF Stored
  <2>4. CASE ~committed
    BY <2>1, <2>4 DEF Fail
  <2> QED BY <2>3, <2>4
<1>3. /\ Injective(buffer')
      /\ \E cut \in SUBSET Rows :
            /\ dropped' = dropped \cup cut
            /\ Elems(buffer') \cap cut = {}
            /\ Elems(buffer') \cup cut = Elems(batch[f]) \cup Elems(buffer)
  <2>1. /\ buffer \in Seq(Rows) /\ Injective(batch[f]) /\ Injective(buffer)
        /\ Elems(batch[f]) \cap Elems(buffer) = {} /\ PutBack(batch[f])
    BY DEF IInv, Typed, TypeOK, EachRowOnce, Fail
  <2> QED BY <1>1, <2>1, PutBackElems
<1>4. PICK cut \in SUBSET Rows :
            /\ dropped' = dropped \cup cut
            /\ Elems(buffer') \cap cut = {}
            /\ Elems(buffer') \cup cut = Elems(batch[f]) \cup Elems(buffer)
  BY <1>3
<1> USE <1>1, <1>3, <1>4 DEF IInv
<1>5. EachRowOnce'
  BY DEF EachRowOnce
<1>6. NoRowForgotten'
  BY DEF NoRowForgotten
<1>7. StoredOnce'
  <2>1. written \subseteq Rows
    BY DEF Typed, TypeOK
  <2> QED BY <1>2, <2>1 DEF StoredOnce
<1>8. Unseen'
  BY <1>2 DEF Unseen
<1>9. Unwritten'
  BY <1>2 DEF Unwritten
<1> QED BY <1>5, <1>6, <1>7, <1>8, <1>9 DEF RowsInv

LEMMA LosesRows ==
    ASSUME IInv, NEW gone \in SUBSET Flushes, NEW done \in SUBSET Flushes, Loses(gone, done)
    PROVE  RowsInv'
<1>1. /\ \A g \in Flushes : batch'[g] = IF g \in gone THEN <<>> ELSE batch[g]
      /\ \A g \in gone : Elems(batch'[g]) = {} /\ Injective(batch'[g])
      /\ done \subseteq gone /\ phase' # "running"
      /\ UNCHANGED <<buffer, offered, dropped, written, lostAcks>>
  BY EmptyElems DEF Loses, dbCounters
<1>2. \A r \in Rows : table[r] \in Nat
  BY DEF IInv, Typed, TypeOK
<1>3. \A r \in Rows : table'[r] = IF \E f \in done : r \in Elems(batch[f])
                                  THEN table[r] + 1 ELSE table[r]
  BY DEF Loses, Stored
<1> USE <1>1 DEF IInv
<1>4. EachRowOnce'
  BY DEF EachRowOnce
<1>5. NoRowForgotten'
  BY DEF NoRowForgotten
<1>6. StoredOnce'
  <2>1. written \subseteq Rows
    BY DEF Typed, TypeOK
  <2>2. lostAcks = 0 => \A r \in Rows : table'[r] <= 1
    BY <1>2, <1>3 DEF StoredOnce, Unwritten
  <2> QED BY <1>2, <1>3, <2>1, <2>2 DEF StoredOnce
<1>7. Unseen'
  BY <1>3 DEF Unseen
<1>8. Unwritten'
  BY <1>3 DEF Unwritten, EachRowOnce
<1> QED BY <1>4, <1>5, <1>6, <1>7, <1>8 DEF RowsInv

-----------------------------------------------------------------------------
(* Every action keeps the types and the shape of the flushes.              *)

LEMMA TypedStep == ASSUME IInv, [Next]_vars PROVE Typed'
<1> USE SizesAssumption, WriterBoundsAssumption, EmptyElems
    DEF IInv, Typed, TypeOK, BufferBounded, rowVars, dbCounters
<1>1. CASE Receive
  BY <1>1 DEF Receive
<1>2. ASSUME Offer PROVE offered' \in 0..MaxRows /\ offered + 1 \in Rows
  BY <1>2 DEF Offer, Shape, Rows
<1>3. CASE Reject
  BY <1>2, <1>3 DEF Reject, Offer
<1>4. ASSUME Admit
      PROVE  buffer' \in Seq(Rows) /\ Len(buffer') <= MaxPending
  BY <1>2, <1>4 DEF Admit
<1>5. CASE Accept
  BY <1>2, <1>4, <1>5 DEF Accept, Admit, Offer
<1>6. ASSUME NEW w \in Workers, AcceptAndFlush(w) PROVE Typed'
  BY <1>2, <1>4, <1>6 DEF AcceptAndFlush, Admit, Offer
<1>7. ASSUME NEW f \in Flushes, TakeBatch(f), phase' \in {phase, "flushing"} PROVE Typed'
  BY <1>7 DEF TakeBatch
<1>8. ASSUME NEW w \in Workers, WorkerFlush(w) PROVE Typed'
  BY <1>7, <1>8 DEF WorkerFlush, Flushes
<1>9. ASSUME NEW w \in Workers, NothingToFlush(w) PROVE Typed'
  BY <1>9 DEF NothingToFlush
<1>10. CASE TimerFlush
  BY <1>7, <1>10 DEF TimerFlush, Flushes
<1>11. ASSUME NEW f \in Flushes, EndOfInsert(f)
       PROVE  /\ batch' \in [Flushes -> Seq(Rows)] /\ offered' = offered
              /\ stage' \in [Flushes -> {"idle", "spawned", "insert"}]
              /\ phase' \in {"running", "cancelling", "cancelled", "flushing", "stopped"}
              /\ consumer' = consumer
  BY <1>11 DEF EndOfInsert
<1>12. ASSUME NEW f \in Flushes, Store(f) PROVE Typed'
  <2>1. Elems(batch[f]) \subseteq Rows
    BY ElemsAreRows
  <2>2. table' \in [Rows -> Nat]
    BY <1>12, StoredType DEF Store
  <2>3. /\ written' \subseteq Rows
        /\ UNCHANGED <<buffer, dropped, errors, lostAcks>>
    BY <1>12, <2>1 DEF Store
  <2>4. EndOfInsert(f)
    BY <1>12 DEF Store
  <2> QED BY <1>11, <2>2, <2>3, <2>4
<1>13. ASSUME NEW f \in Flushes, NEW committed \in BOOLEAN, Fail(f, committed) PROVE Typed'
  <2>1. /\ buffer' \in Seq(Rows) /\ Len(buffer') <= MaxPending
        /\ \E cut \in SUBSET Rows : dropped' = dropped \cup cut
    BY <1>13, PutBackElems DEF Fail, EachRowOnce
  <2>2. table' \in [Rows -> Nat]
    BY <1>13, StoredType DEF Fail
  <2>3. errors' \in 0..MaxErrors /\ lostAcks' \in 0..errors'
    BY <1>13 DEF Fail
  <2>4. EndOfInsert(f) /\ UNCHANGED written
    BY <1>13 DEF Fail
  <2> QED BY <1>11, <2>1, <2>2, <2>3, <2>4
<1>14. CASE BeginStop
  BY <1>14 DEF BeginStop
<1>15. ASSUME NEW committed \in BOOLEAN, TimerCancelled(committed) PROVE Typed'
  <2>1. table' \in [Rows -> Nat]
    BY <1>15, StoredType DEF TimerCancelled
  <2>2. /\ stage' \in [Flushes -> {"idle", "spawned", "insert"}]
        /\ batch' \in [Flushes -> Seq(Rows)]
    <3>1. /\ stage' = [stage EXCEPT !["timer"] = "idle"]
          /\ batch' = [batch EXCEPT !["timer"] = <<>>]
      BY <1>15 DEF TimerCancelled
    <3>2. <<>> \in Seq(Rows)
      OBVIOUS
    <3> QED BY <3>1, <3>2
  <2>3. /\ phase' = "cancelled"
        /\ UNCHANGED <<buffer, consumer, offered, dropped, written, errors, lostAcks>>
    BY <1>15 DEF TimerCancelled
  <2> QED BY <2>1, <2>2, <2>3
<1>16. CASE FinalFlush
  BY <1>7, <1>16 DEF FinalFlush, Flushes
<1>17. CASE NothingLeft
  BY <1>17 DEF NothingLeft
<1>18. ASSUME NEW committed \in SUBSET Flushes, Exit(committed) PROVE Typed'
  <2>1. table' \in [Rows -> Nat]
    BY <1>18, StoredType DEF Exit
  <2> QED BY <1>18, <2>1 DEF Exit
<1>19. CASE UNCHANGED vars
  BY <1>19 DEF vars
<1> QED
  BY <1>1, <1>3, <1>5, <1>6, <1>8, <1>9, <1>10, <1>12, <1>13, <1>14, <1>15, <1>16, <1>17,
     <1>18, <1>19 DEF Next

LEMMA ShapeStep == ASSUME IInv, [Next]_vars PROVE Shape'
<1> USE WorkersAssumption, WriterBoundsAssumption
    DEF IInv, Typed, TypeOK, Shape, Flushes, rowVars, dbCounters
<1>1. CASE Receive
  BY <1>1 DEF Receive
<1>2. CASE Reject
  BY <1>2 DEF Reject, Offer
<1>3. CASE Accept
  BY <1>3 DEF Accept, Admit, Offer
<1>4. ASSUME NEW w \in Workers, AcceptAndFlush(w) PROVE Shape'
  BY <1>4 DEF AcceptAndFlush, Admit, Offer
<1>5. ASSUME NEW w \in Workers, WorkerFlush(w) PROVE Shape'
  BY <1>5 DEF WorkerFlush, TakeBatch
<1>6. ASSUME NEW w \in Workers, NothingToFlush(w) PROVE Shape'
  BY <1>6 DEF NothingToFlush
<1>7. CASE TimerFlush
  BY <1>7 DEF TimerFlush, TakeBatch
<1>8. ASSUME NEW f \in Flushes, EndOfInsert(f) PROVE Shape'
  BY <1>8 DEF EndOfInsert
<1>9. CASE BeginStop
  BY <1>9 DEF BeginStop
<1>10. ASSUME NEW committed \in BOOLEAN, TimerCancelled(committed) PROVE Shape'
  BY <1>10 DEF TimerCancelled
<1>11. CASE FinalFlush
  BY <1>11 DEF FinalFlush, TakeBatch
<1>12. CASE NothingLeft
  BY <1>12 DEF NothingLeft
<1>13. ASSUME NEW committed \in SUBSET Flushes, Exit(committed) PROVE Shape'
  BY <1>13 DEF Exit
<1>14. CASE UNCHANGED vars
  BY <1>14 DEF vars
<1> QED
  BY <1>1, <1>2, <1>3, <1>4, <1>5, <1>6, <1>7, <1>8, <1>9, <1>10, <1>11, <1>12, <1>13, <1>14
     DEF Next, Store, Fail

-----------------------------------------------------------------------------
(* The theorems.                                                           *)

LEMMA IInvStep == ASSUME IInv, [Next]_vars PROVE IInv'
<1>1. RowsInv'
  BY StepShape, QuietRows, RejectRows, AdmitRows, TakesRows, StoreRows, FailRows, LosesRows
<1> QED BY <1>1, TypedStep, ShapeStep DEF IInv, RowsInv

LEMMA Invariant == Spec => []IInv
<1>1. IInv /\ [Next]_vars => IInv'
  BY IInvStep
<1> QED BY InitIInv, <1>1, PTL DEF Spec

\* Every variable of the writer keeps its type.
THEOREM WriterTypeCorrect == Spec => []TypeOK
<1>1. IInv => TypeOK
  BY DEF IInv, Typed
<1> QED BY Invariant, <1>1, PTL

\* However many batches fail and return, the buffer respects BATCH_MAX_PENDING
\* (enqueue and the trim at the end of _flush).
THEOREM BufferStaysBounded == Spec => []BufferBounded
<1>1. IInv => BufferBounded
  BY DEF IInv, Typed
<1> QED BY Invariant, <1>1, PTL

\* No two flushes, and no flush and the buffer, ever hold the same row.
THEOREM RowsAreNeverShared == Spec => []EachRowOnce
<1>1. IInv => EachRowOnce
  BY DEF IInv
<1> QED BY Invariant, <1>1, PTL

\* Until stop() is called, no failure and no race between flushes loses a row
\* without counting it.
THEOREM NothingIsForgotten == Spec => []NoRowForgotten
<1>1. IInv => NoRowForgotten
  BY DEF IInv
<1> QED BY Invariant, <1>1, PTL

\* A row counted as written is in the table, and no row is there twice unless the
\* answer to a committed INSERT was lost.
THEOREM RowsAreStoredOnce == Spec => []StoredOnce
<1>1. IInv => StoredOnce
  BY DEF IInv
<1> QED BY Invariant, <1>1, PTL

=============================================================================
