------------------------------ MODULE Invoicing ------------------------------
(***************************************************************************)
(* The monthly invoicing of a site (business/invoice_generator.py) on the  *)
(* billing database (business/billing_models.py).  A batch is a process    *)
(* with a session of its own; it takes the colo contracts of its site one  *)
(* after another, and every statement, and every await of the calculators, *)
(* is a step of its own.  A flush or a commit that fails deactivates the   *)
(* session's transaction, which nobody rolls back.                         *)
(*                                                                         *)
(* One billing period is modelled; what the lines amount to is left to     *)
(* BillingFigures, and of an invoice's lines only the adjustments are kept.*)
(***************************************************************************)
EXTENDS Naturals, Sequences, FiniteSets

CONSTANTS
    Contracts,   \* colo contracts
    NoContract,  \* no contract
    CustomerOf,  \* the customer of each
    SiteOf,      \* the site of each
    Batches,     \* processes that run generate_batch
    BatchSite,   \* the site each is run for
    Adjustments, \* manual adjustments of the period
    OnBehalfOf,  \* the customer of each
    Ending,      \* bound: contracts that may be terminated
    MaxRuns,     \* bound: runs of generate_batch
    MaxFaults    \* bound: statements, calculations and processes that fail

NULL       == {}
Customers  == {CustomerOf[c] : c \in Contracts}
Sites      == {SiteOf[c] : c \in Contracts}

ASSUME ContractsAssumption ==
    /\ NoContract \notin Contracts
    /\ BatchSite \in [Batches -> Sites]
    /\ OnBehalfOf \in [Adjustments -> Customers]
ASSUME InvoicingBoundsAssumption ==
    Ending \subseteq Contracts /\ MaxRuns \in Nat /\ MaxFaults \in Nat

VARIABLES
    active,     \* contracts whose status is ACTIVE
    entered,    \* adjustments that are in the database
    invoices,   \* table invoices, with who made each and for which contract's turn
    applied,    \* applied_to_invoice_id: an invoice, or NULL
    at,         \* where each batch is
    started,    \* runs so far
    run,        \* which of them the batch is
    listed,     \* the contracts it has listed
    todo,       \* those it has not come to
    reported,   \* those it has printed an error for
    turn,       \* the contract whose turn it is
    contract,   \* the contract generate() bills
    adjustments,
    number,     \* the invoice number
    broken,     \* the session's transaction fails every statement
    expired,    \* the session has committed: objects loaded before are read again
    overlapped, \* two batches ran at the same time
    faults

tables    == <<active, entered, invoices, applied>>
loopVars  == <<started, run, listed, todo>>
workVars  == <<turn, contract, adjustments, number>>
sessVars  == <<broken, expired>>
vars      == <<tables, at, loopVars, reported, workVars, sessVars, overlapped, faults>>

Running(r)  == at[r] \notin {"idle", "done", "aborted"}
Customer(r) == CustomerOf[turn[r]]
Site(r)     == SiteOf[contract[r]]
Goto(r, l)  == at' = [at EXCEPT ![r] = l]
\* What generate() held is gone.
Return(r, l) ==
    /\ Goto(r, l)
    /\ turn' = [turn EXCEPT ![r] = NoContract] /\ contract' = [contract EXCEPT ![r] = NoContract]
    /\ adjustments' = [adjustments EXCEPT ![r] = {}] /\ number' = [number EXCEPT ![r] = 0]

\* And what generate_batch() and its session held.
Abort(r) ==
    /\ Return(r, "aborted")
    /\ listed' = [listed EXCEPT ![r] = {}] /\ todo' = [todo EXCEPT ![r] = {}]
    /\ reported' = [reported EXCEPT ![r] = {}]
    /\ broken' = [broken EXCEPT ![r] = FALSE] /\ expired' = [expired EXCEPT ![r] = FALSE]
    /\ UNCHANGED <<started, run>>

Fault       == faults < MaxFaults /\ faults' = faults + 1

-----------------------------------------------------------------------------
(* generate_batch.                                                         *)

ActiveAt(site) == {c \in active : SiteOf[c] = site}

\* A run in a new session: get_active_contracts_for_site.
Start(r) ==
    /\ ~Running(r) /\ started < MaxRuns
    /\ started' = started + 1 /\ run' = [run EXCEPT ![r] = started + 1]
    /\ listed' = [listed EXCEPT ![r] = ActiveAt(BatchSite[r])]
    /\ todo' = [todo EXCEPT ![r] = ActiveAt(BatchSite[r])]
    /\ reported' = [reported EXCEPT ![r] = {}]
    /\ broken' = [broken EXCEPT ![r] = FALSE] /\ expired' = [expired EXCEPT ![r] = FALSE]
    /\ overlapped' = (overlapped \/ \E s \in Batches \ {r} : Running(s))
    /\ Goto(r, "next")
    /\ UNCHANGED <<tables, workVars, faults>>

\* The customer's id is read again, in vain, and once more for the error to be printed.
TakeFails(r) ==
    /\ at[r] = "next" /\ todo[r] # {}
    /\ broken[r] /\ expired[r]
    /\ Abort(r)
    /\ UNCHANGED <<tables, overlapped, faults>>

Finish(r) ==
    /\ at[r] = "next" /\ todo[r] = {}
    /\ Goto(r, "done")
    /\ UNCHANGED <<tables, loopVars, reported, workVars, sessVars, overlapped, faults>>

\* Mutant: the error is swallowed.
Swallow(r) == Return(r, "next") /\ UNCHANGED reported

\* An exception of generate().
Report(r) ==
    /\ reported' = [reported EXCEPT ![r] = @ \cup {turn[r]}]
    /\ Return(r, "next")

-----------------------------------------------------------------------------
(* generate.                                                               *)

Candidates(r, c) == {k \in active : CustomerOf[k] = CustomerOf[c]}

\* The next contract of the list.  A broken session still answers for what it has not
\* expired, and fails the first statement of generate(); else get_active_contract takes
\* the first of all active contracts of the customer, in no order and of whatever site.
Take(r, c) ==
    /\ at[r] = "next" /\ c \in todo[r]
    /\ ~(broken[r] /\ expired[r])
    /\ todo' = [todo EXCEPT ![r] = @ \ {c}]
    /\ IF broken[r] \/ Candidates(r, c) = {}
       THEN reported' = [reported EXCEPT ![r] = @ \cup {c}] /\ UNCHANGED <<at, turn, contract>>
       ELSE /\ turn' = [turn EXCEPT ![r] = c]
            /\ \E k \in Candidates(r, c) : contract' = [contract EXCEPT ![r] = k]
            /\ Goto(r, "calculate") /\ UNCHANGED reported
    /\ UNCHANGED <<tables, started, run, listed, adjustments, number, sessVars, overlapped, faults>>

\* The calculators ask for a contract of their own.
Calculate(r) ==
    /\ at[r] = "calculate"
    /\ IF Candidates(r, turn[r]) = {} THEN Report(r)
       ELSE Goto(r, "adjustments") /\ UNCHANGED <<reported, workVars>>
    /\ UNCHANGED <<tables, loopVars, sessVars, overlapped, faults>>

\* The telemetry API fails, or a rate is missing.
CalculationFails(r) ==
    /\ at[r] = "calculate" /\ Fault
    /\ Report(r)
    /\ UNCHANGED <<tables, loopVars, sessVars, overlapped>>

\* Mutant: adjustments that were applied before are read again.
ReadAllAdjustments(r) ==
    /\ at[r] = "adjustments"
    /\ adjustments' = [adjustments EXCEPT ![r] = {a \in entered : OnBehalfOf[a] = Customer(r)}]
    /\ Goto(r, "number")
    /\ UNCHANGED <<tables, loopVars, reported, turn, contract, number, sessVars, overlapped, faults>>

\* get_manual_adjustments: those of the customer, of whatever contract.
ReadAdjustments(r) ==
    /\ at[r] = "adjustments"
    /\ adjustments' = [adjustments EXCEPT ![r] =
                         {a \in entered : OnBehalfOf[a] = Customer(r) /\ applied[a] = NULL}]
    /\ Goto(r, "number")
    /\ UNCHANGED <<tables, loopVars, reported, turn, contract, number, sessVars, overlapped, faults>>

Issued(s) == {i \in invoices : i.site = s}

\* generate_invoice_number.
ReadNumber(r) ==
    /\ at[r] = "number"
    /\ number' = [number EXCEPT ![r] = Cardinality(Issued(Site(r))) + 1]
    /\ Goto(r, "flush")
    /\ UNCHANGED <<tables, loopVars, reported, turn, contract, adjustments, sessVars, overlapped, faults>>

\* A statement that only reads fails: later ones do, too.
ReadFails(r) ==
    /\ at[r] \in {"calculate", "adjustments", "number"} /\ Fault
    /\ broken' = [broken EXCEPT ![r] = TRUE]
    /\ Report(r)
    /\ UNCHANGED <<tables, loopVars, expired, overlapped>>

-----------------------------------------------------------------------------
(* _persist_invoice.                                                       *)

Same(r, s) == Site(r) = Site(s) /\ number[r] = number[s]
Taken(r)   == \E i \in Issued(Site(r)) : i.number = number[r]
Waits(r)   == \E s \in Batches \ {r} : at[s] = "commit" /\ Same(r, s)

\* Mutant: the invoice number is not unique.
FlushUnchecked(r) ==
    /\ at[r] = "flush"
    /\ Goto(r, "commit")
    /\ UNCHANGED <<tables, loopVars, reported, workVars, sessVars, overlapped, faults>>

\* The unique index makes the INSERT wait for another session's with that number.
Flush(r) ==
    /\ at[r] = "flush"
    /\ ~Waits(r) /\ ~Taken(r)
    /\ Goto(r, "commit")
    /\ UNCHANGED <<tables, loopVars, reported, workVars, sessVars, overlapped, faults>>

\* The INSERT fails and expires what the session holds: the handler that would print the
\* customer's id raises itself, and the batch ends.
FlushRefused(r) ==
    /\ at[r] = "flush"
    /\ ~Waits(r) /\ Taken(r)
    /\ Abort(r)
    /\ UNCHANGED <<tables, overlapped, faults>>

Row(r) == [site |-> Site(r), number |-> number[r], customer |-> Customer(r),
           lines |-> adjustments[r], by |-> <<run[r], turn[r]>>]

Store(r) ==
    /\ invoices' = invoices \cup {Row(r)}
    /\ applied' = [a \in Adjustments |-> IF a \in adjustments[r] THEN {Row(r)} ELSE applied[a]]
    /\ UNCHANGED <<active, entered>>

\* The lines, the adjustments' invoice and the commit.
Commit(r) ==
    /\ at[r] = "commit"
    /\ Store(r)
    /\ expired' = [expired EXCEPT ![r] = TRUE]
    /\ Return(r, "next")
    /\ UNCHANGED <<loopVars, reported, broken, overlapped, faults>>

\* The INSERT or the commit fails, or only its answer is lost.
PersistFails(r) ==
    /\ at[r] \in {"flush", "commit"} /\ Fault
    /\ \/ UNCHANGED tables
       \/ at[r] = "commit" /\ Store(r)
    /\ Abort(r)
    /\ UNCHANGED overlapped

\* The process ends, and the database rolls back what it has not committed.
Crash(r) ==
    /\ Running(r) /\ Fault
    /\ Abort(r)
    /\ UNCHANGED <<tables, overlapped>>

-----------------------------------------------------------------------------
(* The office.                                                             *)

Enter(a) ==
    /\ a \notin entered
    /\ entered' = entered \cup {a}
    /\ UNCHANGED <<active, invoices, applied, at, loopVars, reported, workVars, sessVars,
                   overlapped, faults>>

Terminate(c) ==
    /\ c \in Ending \cap active
    /\ active' = active \ {c}
    /\ UNCHANGED <<entered, invoices, applied, at, loopVars, reported, workVars, sessVars,
                   overlapped, faults>>

-----------------------------------------------------------------------------

Init ==
    /\ active = Contracts /\ entered = {} /\ invoices = {}
    /\ applied = [a \in Adjustments |-> NULL]
    /\ at = [r \in Batches |-> "idle"] /\ run = [r \in Batches |-> 0] /\ started = 0
    /\ listed = [r \in Batches |-> {}] /\ todo = listed /\ reported = listed
    /\ turn = [r \in Batches |-> NoContract] /\ contract = turn
    /\ adjustments = [r \in Batches |-> {}] /\ number = [r \in Batches |-> 0]
    /\ broken = [r \in Batches |-> FALSE] /\ expired = broken
    /\ overlapped = FALSE /\ faults = 0

Generate(r) ==
    \/ Calculate(r) \/ ReadAdjustments(r) \/ ReadNumber(r)
    \/ Flush(r) \/ FlushRefused(r) \/ Commit(r)

Batch(r) ==
    \/ \E c \in Contracts : Take(r, c)
    \/ TakeFails(r) \/ Finish(r)
    \/ Generate(r)

Failure(r) == CalculationFails(r) \/ ReadFails(r) \/ PersistFails(r) \/ Crash(r)

Next ==
    \/ \E r \in Batches : Start(r) \/ Batch(r) \/ Failure(r)
    \/ \E a \in Adjustments : Enter(a)
    \/ \E c \in Contracts : Terminate(c)

\* A batch that has been started goes on; nobody has to start one again.
Spec == Init /\ [][Next]_vars /\ \A r \in Batches : WF_vars(Batch(r))

-----------------------------------------------------------------------------
\* An adjustment that counts as applied is a line of the invoice it names, of its own
\* customer, and none is on an invoice without counting as applied; unless two batches
\* overlapped it is billed once ("One-off credits or charges"), whatever was aborted,
\* crashed and run again in between.
AdjustmentsBilledOnce ==
    /\ \A a \in Adjustments : \A i \in applied[a] :
         i \in invoices /\ a \in i.lines /\ i.customer = OnBehalfOf[a]
    /\ \A i \in invoices : \A a \in i.lines : applied[a] # NULL
    /\ ~overlapped => \A i, j \in invoices : i.lines \cap j.lines # {} => i = j

\* The invoices of a site are numbered from one, each number once and none left out,
\* although the next number is counted before it is taken (generate_invoice_number).
NumberedInTurn ==
    \A s \in Sites :
        {i.number : i \in Issued(s)} = 1..Cardinality(Issued(s))

\* A batch that is started ends, one waiting for the number of another included, and
\* one that ends in order has invoiced the customer of every contract it had listed, or
\* has reported it.
BatchAccountsForAll ==
    \A r \in Batches :
        Running(r) ~>
            \/ at[r] = "aborted"
            \/ /\ at[r] = "done"
               /\ \A c \in listed[r] :
                    \/ c \in reported[r]
                    \/ \E i \in invoices : i.customer = CustomerOf[c] /\ i.by = <<run[r], c>>

=============================================================================
