---------------------------- MODULE InvoicingProofs ----------------------------
(***************************************************************************)
(* Theorems about Invoicing, for any contracts, sites and adjustments, any *)
(* number of batches and runs, and faults wherever they may occur.         *)
(***************************************************************************)
EXTENDS Invoicing, FiniteSetTheorems, TLAPS

Billing == {"calculate", "adjustments", "number", "flush", "commit"}
Places  == {"idle", "next", "done", "aborted"} \cup Billing

Invoice == [site : Sites, number : Nat, customer : Customers, lines : SUBSET Adjustments,
            by : Nat \X Contracts]

-----------------------------------------------------------------------------
(* The inductive invariant, in parts.                                       *)

LocalTypes ==
    /\ at \in [Batches -> Places]
    /\ turn \in [Batches -> Contracts \cup {NoContract}]
    /\ contract \in [Batches -> Contracts \cup {NoContract}]
    /\ adjustments \in [Batches -> SUBSET Adjustments]
    /\ number \in [Batches -> Nat]
    /\ started \in Nat /\ run \in [Batches -> Nat]

\* What batch r knows, where it is: whose turn it is, that the adjustments it read are of the
\* customer and, if no batch is beside it, still to be billed, and that the number it
\* counted is taken, or the next.
Knows(r) ==
    /\ at[r] \in Billing => turn[r] \in Contracts /\ contract[r] \in Contracts
    /\ at[r] \in {"number", "flush", "commit"} => \A a \in adjustments[r] :
         OnBehalfOf[a] = Customer(r) /\ (~overlapped => applied[a] = NULL)
    /\ at[r] \in {"flush", "commit"} => number[r] \in 1..Cardinality(Issued(Site(r))) + 1
    /\ at[r] = "commit" => ~Taken(r) /\ ~Waits(r)

TablesTyped ==
    /\ active \subseteq Contracts /\ entered \subseteq Adjustments
    /\ invoices \subseteq Invoice /\ IsFiniteSet(invoices)

AppliedAgrees ==
    /\ \A a \in Adjustments : \A i \in applied[a] :
         i \in invoices /\ a \in i.lines /\ i.customer = OnBehalfOf[a]
    /\ \A i \in invoices : \A a \in i.lines : applied[a] # NULL

BilledOnce == ~overlapped => \A i, j \in invoices : i.lines \cap j.lines # {} => i = j

Alone == ~overlapped => \A r, s \in Batches : Running(r) /\ Running(s) => r = s

InvoicingInv ==
    /\ LocalTypes /\ TablesTyped /\ NumberedInTurn /\ AppliedAgrees /\ BilledOnce /\ Alone
    /\ \A r \in Batches : Knows(r)

\* The invoices of a site can be counted.
LEMMA IssuedFinite ==
    ASSUME TablesTyped, NEW s
    PROVE  IsFiniteSet(Issued(s)) /\ Cardinality(Issued(s)) \in Nat
<1>1. Issued(s) \subseteq invoices
  BY DEF Issued
<1> QED BY <1>1, FS_Subset, FS_CardinalityType DEF TablesTyped

-----------------------------------------------------------------------------
(* Steps of one batch.                                                      *)

\* Nothing of another batch moves.
OnlyMoves(r) ==
    \A s \in Batches \ {r} :
        /\ at'[s] = at[s] /\ turn'[s] = turn[s] /\ contract'[s] = contract[s]
        /\ adjustments'[s] = adjustments[s] /\ number'[s] = number[s]

LEMMA ReturnMoves ==
    ASSUME LocalTypes, NEW r \in Batches, NEW l \in Places, Return(r, l), UNCHANGED <<started, run>>
    PROVE  LocalTypes' /\ OnlyMoves(r) /\ at'[r] = l
BY DEF LocalTypes, Return, Goto, OnlyMoves

\* The tables stay and batch r knows what it should.
LEMMA OwnStep ==
    ASSUME InvoicingInv, NEW r \in Batches, LocalTypes', OnlyMoves(r), Running(r), Knows(r)',
           UNCHANGED <<tables, overlapped>>
    PROVE  InvoicingInv'
<1>0. UNCHANGED <<active, entered, invoices, applied>>
  BY DEF tables
<1>1. TablesTyped' /\ NumberedInTurn' /\ AppliedAgrees' /\ BilledOnce'
  BY <1>0 DEF InvoicingInv, TablesTyped, NumberedInTurn, AppliedAgrees, BilledOnce, Issued
<1>2. Alone'
  BY DEF InvoicingInv, Alone, Running, OnlyMoves
<1>3. ASSUME NEW s \in Batches \ {r} PROVE Knows(s)'
  <2>1. /\ at'[s] = at[s] /\ turn'[s] = turn[s] /\ contract'[s] = contract[s]
        /\ adjustments'[s] = adjustments[s] /\ number'[s] = number[s]
    BY <1>3 DEF OnlyMoves
  <2>2. Knows(s)
    BY DEF InvoicingInv
  <2>3. at[s] = "commit" => ~Waits(s)'
    <3> SUFFICES ASSUME at[s] = "commit", NEW t \in Batches \ {s}, at'[t] = "commit"
                 PROVE  ~Same(s, t)'
      BY DEF Waits
    <3>1. CASE t = r
      BY <2>1, <3>1 DEF Knows, Waits, Same, Site
    <3>2. CASE t # r
      BY <2>1, <2>2, <3>2 DEF Knows, Waits, Same, Site, OnlyMoves
    <3> QED BY <3>1, <3>2
  <2>4. at[s] = "commit" => ~Taken(s)'
    BY <1>0, <2>1, <2>2 DEF Knows, Taken, Issued, Site
  <2> QED BY <1>0, <2>1, <2>2, <2>3, <2>4 DEF Knows, Customer, Site, Issued
<1> QED BY <1>1, <1>2, <1>3 DEF InvoicingInv

\* A batch that is over, or at its next contract, knows nothing.
LEMMA Resting == ASSUME NEW r \in Batches, at[r] \in {"idle", "next", "done", "aborted"} PROVE Knows(r)
BY DEF Knows, Billing

LEMMA RestingNext ==
    ASSUME NEW r \in Batches, at'[r] \in {"idle", "next", "done", "aborted"} PROVE Knows(r)'
BY DEF Knows, Billing

\* generate() ends, with or without an error, or its whole batch does.
LEMMA ReturnKeeps ==
    ASSUME InvoicingInv, NEW r \in Batches, Running(r), NEW l \in {"next", "aborted"}, Return(r, l),
           UNCHANGED <<tables, overlapped, started, run>>
    PROVE  InvoicingInv'
<1>1. LocalTypes' /\ OnlyMoves(r) /\ at'[r] = l
  BY ReturnMoves DEF InvoicingInv, Places
<1> QED BY <1>1, RestingNext, OwnStep

LEMMA StartKeeps == ASSUME InvoicingInv, NEW r \in Batches, Start(r) PROVE InvoicingInv'
<1>1. /\ at' = [at EXCEPT ![r] = "next"] /\ LocalTypes'
      /\ UNCHANGED <<turn, contract, adjustments, number, active, entered, invoices, applied>>
  BY DEF InvoicingInv, LocalTypes, Start, Goto, workVars, tables, Places
<1>2. TablesTyped' /\ NumberedInTurn' /\ AppliedAgrees' /\ BilledOnce'
  BY <1>1 DEF InvoicingInv, TablesTyped, NumberedInTurn, AppliedAgrees, BilledOnce, Issued, Start
<1>3. Alone'
  BY <1>1 DEF InvoicingInv, LocalTypes, Alone, Running, Start
<1>4. ASSUME NEW s \in Batches PROVE Knows(s)'
  <2>1. CASE s = r
    BY <1>1, <2>1, RestingNext DEF InvoicingInv, LocalTypes
  <2>2. CASE s # r
    <3>1. Knows(s) /\ at'[s] = at[s]
      BY <1>1, <2>2 DEF InvoicingInv, LocalTypes
    <3>2. ~overlapped' => ~overlapped
      BY DEF Start
    <3>3. at[s] = "commit" => ~Waits(s)'
      BY <1>1, <3>1 DEF Knows, Waits, Same, Site, InvoicingInv, LocalTypes
    <3> QED BY <1>1, <3>1, <3>2, <3>3 DEF Knows, Customer, Site, Issued, Taken, Start
  <2> QED BY <2>1, <2>2
<1> QED BY <1>1, <1>2, <1>3, <1>4 DEF InvoicingInv

\* The steps of generate() before it writes.
LEMMA TakeKeeps == ASSUME InvoicingInv, NEW r \in Batches, NEW c \in Contracts, Take(r, c) PROVE InvoicingInv'
<1>0. at[r] = "next" /\ LocalTypes /\ Running(r)
  BY DEF InvoicingInv, Take, Running
<1>1. CASE broken[r] \/ Candidates(r, c) = {}
  BY <1>0, <1>1, RestingNext, OwnStep DEF Take, LocalTypes, OnlyMoves
<1>2. CASE ~(broken[r] \/ Candidates(r, c) = {})
  <2>1. PICK k \in Candidates(r, c) : contract' = [contract EXCEPT ![r] = k]
    BY <1>2 DEF Take
  <2>2. /\ turn' = [turn EXCEPT ![r] = c] /\ at' = [at EXCEPT ![r] = "calculate"]
        /\ UNCHANGED <<started, run, adjustments, number, tables, overlapped>>
    BY <1>2 DEF Take, Goto
  <2>3. k \in Contracts
    BY <2>1 DEF Candidates, InvoicingInv, TablesTyped
  <2>4. LocalTypes' /\ OnlyMoves(r)
    BY <1>0, <2>1, <2>2, <2>3 DEF LocalTypes, OnlyMoves, Places, Billing
  <2>5. Knows(r)'
    BY <1>0, <2>1, <2>2, <2>3 DEF Knows, LocalTypes
  <2> QED BY <1>0, <2>2, <2>4, <2>5, OwnStep
<1> QED BY <1>1, <1>2

LEMMA CalculateKeeps == ASSUME InvoicingInv, NEW r \in Batches, Calculate(r) PROVE InvoicingInv'
<1>0. at[r] = "calculate" /\ LocalTypes /\ Running(r) /\ Knows(r)
  BY DEF InvoicingInv, Calculate, Running
<1>1. UNCHANGED <<tables, overlapped, started, run>>
  BY DEF Calculate, loopVars
<1>2. CASE Candidates(r, turn[r]) = {}
  BY <1>0, <1>1, <1>2, ReturnKeeps DEF Calculate, Report
<1>3. CASE Candidates(r, turn[r]) # {}
  <2>1. at' = [at EXCEPT ![r] = "adjustments"] /\ UNCHANGED <<turn, contract, adjustments, number>>
    BY <1>3 DEF Calculate, Goto, workVars
  <2>2. LocalTypes' /\ OnlyMoves(r)
    BY <1>0, <1>1, <2>1 DEF LocalTypes, OnlyMoves, Places, Billing
  <2>3. Knows(r)'
    BY <1>0, <2>1 DEF Knows, Billing, LocalTypes
  <2> QED BY <1>0, <1>1, <2>2, <2>3, OwnStep
<1> QED BY <1>2, <1>3

LEMMA ReadAdjustmentsKeeps ==
    ASSUME InvoicingInv, NEW r \in Batches, ReadAdjustments(r) PROVE InvoicingInv'
<1> DEFINE found == {a \in entered : OnBehalfOf[a] = Customer(r) /\ applied[a] = NULL}
<1>0. at[r] = "adjustments" /\ LocalTypes /\ Running(r) /\ Knows(r)
  BY DEF InvoicingInv, ReadAdjustments, Running
<1>1. /\ adjustments' = [adjustments EXCEPT ![r] = found] /\ at' = [at EXCEPT ![r] = "number"]
      /\ UNCHANGED <<turn, contract, number, started, run, tables, overlapped>>
  BY DEF ReadAdjustments, Goto, loopVars
<1>2. found \subseteq Adjustments
  BY DEF InvoicingInv, TablesTyped
<1>3. \A a \in found : OnBehalfOf[a] = Customer(r) /\ applied[a] = NULL
  OBVIOUS
<1> HIDE DEF found
<1>4. LocalTypes' /\ OnlyMoves(r)
  BY <1>0, <1>1, <1>2 DEF LocalTypes, OnlyMoves, Places, Billing
<1>5. Knows(r)'
  BY <1>0, <1>1, <1>3 DEF Knows, Billing, LocalTypes, Customer, tables
<1> QED BY <1>0, <1>1, <1>4, <1>5, OwnStep

LEMMA ReadNumberKeeps == ASSUME InvoicingInv, NEW r \in Batches, ReadNumber(r) PROVE InvoicingInv'
<1> DEFINE n == Cardinality(Issued(Site(r))) + 1
<1>0. at[r] = "number" /\ LocalTypes /\ Running(r) /\ Knows(r)
  BY DEF InvoicingInv, ReadNumber, Running
<1>1. /\ number' = [number EXCEPT ![r] = n] /\ at' = [at EXCEPT ![r] = "flush"]
      /\ UNCHANGED <<turn, contract, adjustments, started, run, tables, overlapped>>
  BY DEF ReadNumber, Goto, loopVars
<1>2. n \in Nat /\ n \in 1..n
  BY IssuedFinite DEF InvoicingInv
<1>3. n = (Cardinality(Issued(Site(r))) + 1)' /\ n = Cardinality(Issued(Site(r))) + 1
  BY <1>1 DEF Issued, Site, tables
<1> HIDE DEF n
<1>4. LocalTypes' /\ OnlyMoves(r)
  BY <1>0, <1>1, <1>2 DEF LocalTypes, OnlyMoves, Places, Billing
<1>5. Knows(r)'
  <2>1. at'[r] = "flush" /\ number'[r] = n
    BY <1>0, <1>1 DEF LocalTypes
  <2> QED BY <1>0, <1>1, <1>2, <1>3, <2>1 DEF Knows, Billing, Customer, tables
<1> QED BY <1>0, <1>1, <1>4, <1>5, OwnStep

\* The flush: nobody else's invoice waits with the number, and none has it.
LEMMA FlushKeeps == ASSUME InvoicingInv, NEW r \in Batches, Flush(r) PROVE InvoicingInv'
<1>0. at[r] = "flush" /\ LocalTypes /\ Running(r) /\ Knows(r)
  BY DEF InvoicingInv, Flush, Running
<1>1. /\ at' = [at EXCEPT ![r] = "commit"]
      /\ UNCHANGED <<turn, contract, adjustments, number, started, run, tables, overlapped>>
  BY DEF Flush, Goto, loopVars, workVars
<1>2. LocalTypes' /\ OnlyMoves(r)
  BY <1>0, <1>1 DEF LocalTypes, OnlyMoves, Places, Billing
<1>3. Knows(r)'
  <2>1. at'[r] = "commit" /\ \A s \in Batches \ {r} : at'[s] = at[s]
    BY <1>0, <1>1 DEF LocalTypes
  <2>2. ~Waits(r)' /\ ~Taken(r)'
    BY <1>1, <2>1 DEF Flush, Waits, Taken, Same, Site, Issued, tables
  <2> QED BY <1>0, <1>1, <2>1, <2>2 DEF Knows, Billing, Customer, Site, Issued, tables
<1> QED BY <1>0, <1>1, <1>2, <1>3, OwnStep

\* A statement, a calculation or the process fails before anything is written.
LEMMA RefusedKeeps ==
    ASSUME InvoicingInv, NEW r \in Batches, TakeFails(r) \/ FlushRefused(r) \/ Crash(r)
    PROVE  InvoicingInv'
<1>1. Running(r)
  BY DEF TakeFails, FlushRefused, Crash, Running
<1>2. Return(r, "aborted") /\ UNCHANGED <<tables, overlapped, started, run>>
  BY DEF TakeFails, FlushRefused, Crash, Abort
<1> QED BY <1>1, <1>2, ReturnKeeps

LEMMA FailedReadKeeps ==
    ASSUME InvoicingInv, NEW r \in Batches, CalculationFails(r) \/ ReadFails(r) PROVE InvoicingInv'
<1>1. Running(r)
  BY DEF CalculationFails, ReadFails, Running
<1>2. Return(r, "next") /\ UNCHANGED <<tables, overlapped, started, run>>
  BY DEF CalculationFails, ReadFails, Report, loopVars
<1> QED BY <1>1, <1>2, ReturnKeeps

LEMMA FinishKeeps == ASSUME InvoicingInv, NEW r \in Batches, Finish(r) PROVE InvoicingInv'
<1>0. at[r] = "next" /\ LocalTypes /\ Running(r)
  BY DEF InvoicingInv, Finish, Running
<1>1. /\ at' = [at EXCEPT ![r] = "done"]
      /\ UNCHANGED <<turn, contract, adjustments, number, started, run, tables, overlapped>>
  BY DEF Finish, Goto, loopVars, workVars
<1>2. LocalTypes' /\ OnlyMoves(r) /\ at'[r] = "done"
  BY <1>0, <1>1 DEF LocalTypes, OnlyMoves, Places
<1> QED BY <1>0, <1>1, <1>2, RestingNext, OwnStep

-----------------------------------------------------------------------------
(* An invoice is stored.                                                    *)

\* The number of an invoice that waits for its commit is the next of its site.
LEMMA NumberIsNext ==
    ASSUME InvoicingInv, NEW r \in Batches, at[r] = "commit"
    PROVE  /\ Site(r) \in Sites /\ Customer(r) \in Customers
           /\ number[r] = Cardinality(Issued(Site(r))) + 1
           /\ Row(r) \in Invoice /\ Row(r) \notin invoices
<1>1. Knows(r) /\ turn[r] \in Contracts /\ contract[r] \in Contracts
  BY DEF InvoicingInv, Knows, Billing
<1>2. Site(r) \in Sites /\ Customer(r) \in Customers
  BY <1>1 DEF Site, Sites, Customer, Customers
<1>3. number[r] \notin {i.number : i \in Issued(Site(r))}
  BY <1>1 DEF Knows, Taken
<1>4. number[r] \notin 1..Cardinality(Issued(Site(r)))
  BY <1>2, <1>3 DEF InvoicingInv, NumberedInTurn
<1>5. number[r] = Cardinality(Issued(Site(r))) + 1
  BY <1>1, <1>4, IssuedFinite DEF Knows, InvoicingInv
<1>6. Row(r) \in Invoice
  BY <1>1, <1>2 DEF Row, Invoice, InvoicingInv, LocalTypes
<1>7. Row(r) \notin invoices
  <2> SUFFICES ASSUME Row(r) \in invoices PROVE FALSE
    OBVIOUS
  <2>1. Row(r).site = Site(r) /\ Row(r).number = number[r]
    BY DEF Row
  <2>2. Row(r) \in Issued(Site(r))
    BY <2>1 DEF Issued
  <2> QED BY <1>3, <2>1, <2>2
<1> QED BY <1>2, <1>5, <1>6, <1>7

\* A commit, whether its batch learns of it or not.
LEMMA StoreKeeps ==
    ASSUME InvoicingInv, NEW r \in Batches, at[r] = "commit", Store(r),
           NEW l \in {"next", "aborted"}, Return(r, l), UNCHANGED <<started, run, overlapped>>
    PROVE  InvoicingInv'
<1> DEFINE row == Row(r)
<1>s. PICK site \in Sites : site = Site(r)
  BY NumberIsNext
<1>0. LocalTypes /\ Knows(r) /\ Running(r) /\ TablesTyped
  BY DEF InvoicingInv, Running
<1>1. LocalTypes' /\ OnlyMoves(r) /\ at'[r] = l
  BY <1>0, ReturnMoves DEF Places
<1>2. /\ invoices' = invoices \cup {row} /\ row \notin invoices /\ row \in Invoice
      /\ row.site = site /\ row.number = Cardinality(Issued(site)) + 1
      /\ row.customer = Customer(r) /\ row.lines = adjustments[r]
      /\ UNCHANGED <<active, entered>>
  BY <1>s, NumberIsNext DEF Store, Row
<1>3. /\ \A a \in adjustments[r] : applied'[a] = {row}
      /\ \A a \in Adjustments \ adjustments[r] : applied'[a] = applied[a]
      /\ adjustments[r] \subseteq Adjustments
  BY <1>0 DEF Store, LocalTypes
<1>4. \A a \in adjustments[r] : OnBehalfOf[a] = Customer(r) /\ (~overlapped => applied[a] = NULL)
  BY <1>0 DEF Knows
<1> HIDE DEF row
<1>5. TablesTyped'
  BY <1>0, <1>2, FS_AddElement DEF TablesTyped
<1>6. /\ Issued(site)' = Issued(site) \cup {row} /\ row \notin Issued(site)
      /\ Cardinality(Issued(site))' = Cardinality(Issued(site)) + 1
      /\ \A s \in Sites \ {site} : Issued(s)' = Issued(s)
  <2>1. Issued(site)' = Issued(site) \cup {row} /\ row \notin Issued(site)
    BY <1>2 DEF Issued
  <2>2. \A s \in Sites \ {site} : Issued(s)' = Issued(s)
    BY <1>2 DEF Issued
  <2> QED BY <1>0, <2>1, <2>2, IssuedFinite, FS_AddElement
<1>7. NumberedInTurn'
  <2> SUFFICES ASSUME NEW s \in Sites
               PROVE  {i.number : i \in Issued(s)'} = 1..Cardinality(Issued(s)')
    BY DEF NumberedInTurn
  <2>1. {i.number : i \in Issued(s)} = 1..Cardinality(Issued(s))
    BY DEF InvoicingInv, NumberedInTurn
  <2>2. CASE s = site
    <3> DEFINE n == Cardinality(Issued(site))
    <3>1. n \in Nat /\ Cardinality(Issued(site)') = n + 1
      BY <1>0, <1>6, IssuedFinite
    <3>2. {i.number : i \in Issued(site)'} = {i.number : i \in Issued(site)} \cup {n + 1}
      BY <1>2, <1>6
    <3> HIDE DEF n
    <3>3. 1..n \cup {n + 1} = 1..n + 1
      BY <3>1
    <3> QED BY <2>1, <2>2, <3>1, <3>2, <3>3 DEF n
  <2>3. CASE s # site
    BY <1>6, <2>1, <2>3
  <2> QED BY <2>2, <2>3
<1>8. AppliedAgrees'
  <2>1. ASSUME NEW a \in Adjustments, NEW i \in applied'[a]
        PROVE  i \in invoices' /\ a \in i.lines /\ i.customer = OnBehalfOf[a]
    <3>1. CASE a \in adjustments[r]
      BY <1>2, <1>3, <1>4, <2>1, <3>1
    <3>2. CASE a \notin adjustments[r]
      BY <1>2, <1>3, <2>1, <3>2 DEF InvoicingInv, AppliedAgrees
    <3> QED BY <3>1, <3>2
  <2>2. ASSUME NEW i \in invoices', NEW a \in i.lines PROVE applied'[a] # NULL
    <3>1. a \in Adjustments /\ (i # row => applied[a] # NULL)
      BY <1>2, <1>5, <2>2 DEF TablesTyped, Invoice, InvoicingInv, AppliedAgrees
    <3> QED BY <1>2, <1>3, <2>2, <3>1 DEF NULL
  <2> QED BY <2>1, <2>2 DEF AppliedAgrees
<1>9. BilledOnce'
  <2> SUFFICES ASSUME ~overlapped, NEW i \in invoices', NEW j \in invoices', i.lines \cap j.lines # {}
               PROVE  i = j
    BY DEF BilledOnce
  <2>1. \A k \in invoices : row.lines \cap k.lines = {}
    BY <1>2, <1>4 DEF InvoicingInv, AppliedAgrees
  <2>2. CASE i \in invoices /\ j \in invoices
    BY <2>2 DEF InvoicingInv, BilledOnce
  <2> QED BY <1>2, <2>1, <2>2
<1>10. Alone'
  BY <1>1 DEF InvoicingInv, Alone, Running, OnlyMoves
<1>11. ASSUME NEW s \in Batches \ {r} PROVE Knows(s)'
  <2>1. /\ at'[s] = at[s] /\ turn'[s] = turn[s] /\ contract'[s] = contract[s]
        /\ adjustments'[s] = adjustments[s] /\ number'[s] = number[s]
    BY <1>1 DEF OnlyMoves
  <2>2. Knows(s)
    BY DEF InvoicingInv
  <2>3. at[s] \in Billing => overlapped
    BY <1>0 DEF InvoicingInv, Alone, Running, Billing
  <2>4. at[s] \in {"flush", "commit"} =>
           number[s] \in 1..Cardinality(Issued(Site(s))) + 1 /\ Site(s) \in Sites
    BY <2>2 DEF Knows, Billing, Site, Sites
  <2>5. at[s] \in {"flush", "commit"} => number'[s] \in 1..Cardinality(Issued(Site(s)))' + 1
    <3>1. Site(s)' = Site(s)
      BY <2>1 DEF Site
    <3>2. Cardinality(Issued(Site(s))) \in Nat
      BY <1>0, IssuedFinite
    <3>3. CASE Site(s) = site
      <4>1. Cardinality(Issued(Site(s)))' = Cardinality(Issued(Site(s))) + 1
        BY <1>6, <3>1, <3>3
      <4> QED BY <2>1, <2>4, <3>2, <4>1
    <3>4. CASE Site(s) # site
      BY <1>6, <2>1, <2>4, <3>1, <3>4
    <3> QED BY <3>3, <3>4
  <2>6. at[s] = "commit" => ~Taken(s)'
    <3> SUFFICES ASSUME at[s] = "commit", NEW i \in invoices', i.site = Site(s)
                 PROVE  i.number # number[s]
      BY <2>1 DEF Taken, Issued, Site
    <3>1. CASE i \in invoices
      BY <2>2, <3>1 DEF Knows, Taken, Issued
    <3>2. CASE i = row
      <4>1. ~Same(s, r)
        BY <2>2 DEF Knows, Waits
      <4> QED BY <3>2, <4>1 DEF Same, row, Row
    <3> QED BY <1>2, <3>1, <3>2
  <2>7. at[s] = "commit" => ~Waits(s)'
    BY <1>1, <2>1, <2>2 DEF Knows, Waits, Same, Site, OnlyMoves
  <2> QED BY <2>1, <2>2, <2>3, <2>5, <2>6, <2>7 DEF Knows, Billing, Customer
<1>12. Knows(r)'
  BY <1>1, RestingNext
<1> QED BY <1>1, <1>5, <1>7, <1>8, <1>9, <1>10, <1>11, <1>12 DEF InvoicingInv

LEMMA CommitKeeps == ASSUME InvoicingInv, NEW r \in Batches, Commit(r) PROVE InvoicingInv'
BY StoreKeeps DEF Commit, loopVars

LEMMA PersistFailsKeeps == ASSUME InvoicingInv, NEW r \in Batches, PersistFails(r) PROVE InvoicingInv'
<1>1. Running(r) /\ Return(r, "aborted") /\ UNCHANGED <<overlapped, started, run>>
  BY DEF PersistFails, Abort, Running
<1>2. CASE UNCHANGED tables
  BY <1>1, <1>2, ReturnKeeps
<1>3. CASE at[r] = "commit" /\ Store(r)
  BY <1>1, <1>3, StoreKeeps
<1> QED BY <1>2, <1>3 DEF PersistFails

-----------------------------------------------------------------------------
(* The office, and the specification.                                       *)

LEMMA OfficeKeeps ==
    ASSUME InvoicingInv, active' \subseteq Contracts, entered' \subseteq Adjustments,
           UNCHANGED <<invoices, applied, at, started, run, turn, contract, adjustments, number,
                       overlapped>>
    PROVE  InvoicingInv'
<1>1. LocalTypes' /\ TablesTyped' /\ NumberedInTurn' /\ AppliedAgrees' /\ BilledOnce' /\ Alone'
  BY DEF InvoicingInv, LocalTypes, TablesTyped, NumberedInTurn, AppliedAgrees, BilledOnce, Alone,
         Running, Issued
<1>2. \A r \in Batches : Knows(r)'
  BY DEF InvoicingInv, Knows, Customer, Site, Issued, Taken, Waits, Same
<1> QED BY <1>1, <1>2 DEF InvoicingInv

LEMMA InvoicingStarts == Init => InvoicingInv
<1> SUFFICES ASSUME Init PROVE InvoicingInv
  OBVIOUS
<1>1. LocalTypes
  BY DEF Init, LocalTypes, Places
<1>2. TablesTyped
  BY FS_EmptySet DEF Init, TablesTyped
<1>3. NumberedInTurn
  <2>1. \A s : Issued(s) = {}
    BY DEF Init, Issued
  <2> QED BY <2>1, FS_EmptySet DEF NumberedInTurn
<1>4. AppliedAgrees /\ BilledOnce
  BY DEF Init, AppliedAgrees, BilledOnce, NULL
<1>5. \A r \in Batches : at[r] = "idle"
  BY DEF Init
<1>6. Alone /\ \A r \in Batches : Knows(r)
  BY <1>5, Resting DEF Alone, Running
<1> QED BY <1>1, <1>2, <1>3, <1>4, <1>6 DEF InvoicingInv

LEMMA InvoicingStep == InvoicingInv /\ [Next]_vars => InvoicingInv'
<1> SUFFICES ASSUME InvoicingInv, [Next]_vars PROVE InvoicingInv'
  OBVIOUS
<1>1. ASSUME NEW r \in Batches, Start(r) \/ Batch(r) \/ Failure(r) PROVE InvoicingInv'
  BY <1>1, StartKeeps, TakeKeeps, CalculateKeeps, ReadAdjustmentsKeeps, ReadNumberKeeps, FlushKeeps,
     RefusedKeeps, FailedReadKeeps, FinishKeeps, CommitKeeps, PersistFailsKeeps
     DEF Batch, Generate, Failure
<1>2. ASSUME NEW a \in Adjustments, Enter(a) PROVE InvoicingInv'
  BY <1>2, OfficeKeeps DEF Enter, loopVars, workVars, InvoicingInv, TablesTyped
<1>3. ASSUME NEW c \in Contracts, Terminate(c) PROVE InvoicingInv'
  BY <1>3, OfficeKeeps DEF Terminate, loopVars, workVars, InvoicingInv, TablesTyped
<1>4. CASE UNCHANGED vars
  BY <1>4, OfficeKeeps DEF vars, tables, loopVars, workVars, InvoicingInv, TablesTyped
<1> QED BY <1>1, <1>2, <1>3, <1>4 DEF Next

\* The inductive invariant, of every behaviour.
THEOREM InvoicingInvariant == Spec => []InvoicingInv
<1> QED BY InvoicingStarts, InvoicingStep, PTL DEF Spec

LEMMA InvoicingSafety == InvoicingInv => AdjustmentsBilledOnce /\ NumberedInTurn
BY DEF InvoicingInv, AdjustmentsBilledOnce, AppliedAgrees, BilledOnce

\* The invoices of a site are numbered from one without a gap and without a number twice,
\* although batches count in sessions of their own and take the number later: the index
\* refuses the second of two that counted alike (generate_invoice_number).
THEOREM NumbersAreInTurn == Spec => []NumberedInTurn
<1> QED BY InvoicingInvariant, InvoicingSafety, PTL

\* What counts as applied is a line of its customer's invoice, and what is a line counts as
\* applied; while no two batches overlap no adjustment is billed twice, whatever is aborted,
\* lost and run again.
THEOREM NoAdjustmentTwice == Spec => []AdjustmentsBilledOnce
<1> QED BY InvoicingInvariant, InvoicingSafety, PTL

=============================================================================
