---------------------------- MODULE BillingFigures ----------------------------
(***************************************************************************)
(* What a monthly invoice amounts to (business/kwh_calculator.py and the   *)
(* lines of business/invoice_generator.py), for the meter readings that    *)
(* came in.  Readings are whole kW, energy is in 1/10000 kWh, the peak in  *)
(* 1/100 kW, money in cents, days and intervals are counted from the first *)
(* of the month.                                                           *)
(***************************************************************************)
EXTENDS Rounding, FiniteSets

CONSTANTS
    Accounts,      \* what is agreed with a customer, and what the invoice adds
    DaysInMonth,
    DaySlots,  \* metering intervals in a day
    Values         \* what a meter may deliver: {} or {[kw, quality]}

\* A list is one of its own elements.
IsList(q) == q \in Seq(Range(q))

ASSUME MonthAssumption ==
    /\ DaysInMonth \in Nat \ {0} /\ DaySlots \in Nat \ {0}
    /\ \A v \in Values : \A r \in v : v = {r} /\ r.kw \in Nat
    /\ \A c \in Accounts :
         /\ IsList(c.racks) /\ IsList(c.meters) /\ IsList(c.adjustments)
         /\ \A i \in DOMAIN c.racks : c.racks[i].kw \in Nat /\ c.racks[i].pue \in Nat /\ c.racks[i].pue >= 100
         /\ \A r \in c.rates : r.value \in Nat /\ r.from \in Int
         /\ c.start \in Int /\ \A d \in c.end : d \in Int /\ c.end = {d}
         /\ c.credit \in Int /\ c.crossConnects \in Int /\ c.taxPct \in Nat

VARIABLES
    account,       \* the customer
    telemetry      \* by sensor, what it delivered for each interval so far

billVars == <<account, telemetry>>

None == {}

\* One assignment after the other, each with all meters of the contract, or with the PDU
\* meter of its block, which goes by the block's name.
Sources(c)     == (DOMAIN c.racks) \X (IF c.meters = <<>> THEN {1} ELSE DOMAIN c.meters)
SensorOf(c, x) == IF c.meters = <<>> THEN c.racks[x[1]].block ELSE c.meters[x[2]]
SensorsOf(c)   == {SensorOf(c, x) : x \in Sources(c)}
AllSensors     == UNION {SensorsOf(c) : c \in Accounts}

-----------------------------------------------------------------------------
(* Rates and days.                                                         *)

\* The rate that is in force on a day: the latest that began by then.
GetRate(c, type, day) ==
    LET past == {r \in c.rates : r.type = type /\ r.from <= day}
    IN  IF past = {} THEN None ELSE {r.value : r \in {q \in past : \A p \in past : p.from <= q.from}}
RateOf(c, type) == CHOOSE v \in GetRate(c, type, 0) : TRUE
HasRate(c, type) == GetRate(c, type, 0) # None

EffectiveStart(c) == Max({0, c.start})
EffectiveEnd(c)   == IF c.end # None THEN Min(c.end \cup {DaysInMonth}) ELSE DaysInMonth
BillableDays(c)   == EffectiveEnd(c) - EffectiveStart(c)
CommittedKw(c)    == SumFunction([i \in DOMAIN c.racks |-> c.racks[i].kw])

-----------------------------------------------------------------------------
(* Readings.                                                               *)

\* What the API returns for the sources from the first of the month to the effective end,
\* by interval and source.
Billed(c)      == 1..(EffectiveEnd(c) * DaySlots)
Value(c, r)    == telemetry[SensorOf(c, r[2])][r[1]]
AllReadings(c) ==
    {r \in Billed(c) \X Sources(c) :
        r[1] \in DOMAIN telemetry[SensorOf(c, r[2])] /\ Value(c, r) # None}
Reading(c, r)  == CHOOSE v \in Value(c, r) : TRUE
Sound(c)       == {r \in AllReadings(c) : Reading(c, r).quality # "BAD"}

Energy(c) == HalfUp(10000 * SumFunction([r \in Sound(c) |-> Reading(c, r).kw]), 12)

\* Sorted by time, readings of one time stay in the order in which they were fetched.
Before(q, r) ==
    \/ q[1] < r[1]
    \/ q[1] = r[1] /\ q[2][1] < r[2][1]
    \/ q[1] = r[1] /\ q[2][1] = r[2][1] /\ q[2][2] < r[2][2]
Between(S, q, r) == {p \in S : Before(q, p) /\ Before(p, r)}
\* A reading and the two after it.
RunFrom(S, q)    == {q} \cup {r \in S : Before(q, r) /\ Cardinality(Between(S, q, r)) < 2}
Windows(S)       == {w \in {RunFrom(S, q) : q \in S} : Cardinality(w) = 3}

Highest(c, W) == Max({0} \cup {SumFunction([r \in w |-> Reading(c, r).kw]) : w \in W})
\* Mutant: the last window is left out.
PeakButLast(c) ==
    LET last == {w \in Windows(Sound(c)) : \A r \in Sound(c) : r \in w \/ \E q \in w : Before(r, q)}
    IN  HalfUp(100 * Highest(c, Windows(Sound(c)) \ last), 3)
\* The highest of three readings in a row, whatever their times and their meters.
PeakDemand(c)  == HalfUp(100 * Highest(c, Windows(Sound(c))), 3)

\* More than 5 % missing or more than an hour of BAD readings.
NeedsManualReview(c) ==
    LET expected == BillableDays(c) * DaySlots
        missing  == AtLeastZero(expected - Cardinality(AllReadings(c)))
    IN  \/ expected > 0 /\ HalfUp(10000 * missing, expected) > 500
        \/ Cardinality(AllReadings(c) \ Sound(c)) * 5 > 60

-----------------------------------------------------------------------------
(* The invoice.                                                            *)

Line(type, amount) == {[type |-> type, number |-> 1, amount |-> amount]}
Cents(n, unit)     == HalfUp(n, unit)

\* Without a rate for the space or the power there is no bill.
Billable(c) == c.racks # <<>> /\ HasRate(c, "COLO_PER_KW") /\ HasRate(c, "POWER_PER_KWH")

CoolingRate(c) ==
    IF HasRate(c, "COOLING_PUE") THEN RateOf(c, "COOLING_PUE") ELSE RateOf(c, "POWER_PER_KWH")
DemandCost(c) ==
    IF HasRate(c, "DEMAND_CHARGE") THEN Cents(PeakDemand(c) * RateOf(c, "DEMAND_CHARGE"), 100) ELSE 0

ColoFee(c, days) == Cents(CommittedKw(c) * RateOf(c, "COLO_PER_KW") * days, DaysInMonth)

MeteredLines(c) ==
    Line("COLO_FEE", ColoFee(c, BillableDays(c)))
    \cup Line("METERED_POWER", Cents(Energy(c) * RateOf(c, "POWER_PER_KWH"), 10000))
    \cup (IF DemandCost(c) > 0 THEN Line("DEMAND_CHARGE", DemandCost(c)) ELSE {})
    \cup Line("COOLING_OVERHEAD", Cents(Energy(c) * (Last(c.racks).pue - 100) * CoolingRate(c), 1000000))

CrossConnects(c) ==
    IF HasRate(c, "CROSS_CONNECT") /\ RateOf(c, "CROSS_CONNECT") > 0 /\ c.crossConnects > 0
    THEN Line("CROSS_CONNECT", c.crossConnects * RateOf(c, "CROSS_CONNECT")) ELSE {}
SlaCredit(c)     == IF c.credit > 0 THEN Line("SLA_CREDIT", -c.credit) ELSE {}
Adjustments(c)   == {[type |-> "MANUAL_ADJUSTMENT", number |-> i, amount |-> c.adjustments[i]] :
                        i \in DOMAIN c.adjustments}

InvoiceLines(c) == MeteredLines(c) \cup CrossConnects(c) \cup SlaCredit(c) \cup Adjustments(c)
Subtotal(lines) == SumFunction([l \in lines |-> l.amount])
Tax(c, lines)   == HalfUp(Subtotal(lines) * c.taxPct, 100)

-----------------------------------------------------------------------------
(* The month's readings come in.                                           *)

Meter(s, v) ==
    /\ Len(telemetry[s]) < DaysInMonth * DaySlots
    /\ telemetry' = [telemetry EXCEPT ![s] = Append(@, v)]
    /\ UNCHANGED account

BillInit == account \in Accounts /\ telemetry = [s \in AllSensors |-> <<>>]
BillNext == \E s \in SensorsOf(account), v \in Values : Meter(s, v)

BillSpec == BillInit /\ [][BillNext]_billVars

-----------------------------------------------------------------------------

Complete   == \A s \in SensorsOf(account) : Len(telemetry[s]) = DaysInMonth * DaySlots
Load(s, t) == {v \in telemetry[s][t] : v.quality # "BAD"}
Kw(S)      == SumFunction([v \in S |-> v.kw])

\* The parts of what a bill promises: energy, the demand and the readings of an account with
\* one meter, the parts of a month, and an invoice with an SLA credit.
EnergyOnce(c) ==
    (\A x, y \in Sources(c) : SensorOf(c, x) = SensorOf(c, y) => x = y) =>
       Energy(c) = HalfUp(10000 * SumFunction([x \in SensorsOf(c) \X Billed(c) |-> Kw(Load(x[1], x[2]))]), 12)

DemandSeen(c, s) ==
    /\ \A t \in Billed(c) : t + 2 \in Billed(c) /\ (\A u \in t..(t + 2) : Load(s, u) # {}) =>
          3 * PeakDemand(c) + 2 >= 100 * (Kw(Load(s, t)) + Kw(Load(s, t + 1)) + Kw(Load(s, t + 2)))
    /\ PeakDemand(c) <= 100 * Max({0} \cup {Kw(Load(s, t)) : t \in Billed(c)})

GapsReviewed(c, s) ==
    c.start <= 0 /\ ~NeedsManualReview(c) =>
       20000 * Cardinality({t \in Billed(c) : telemetry[s][t] = None}) <= 1001 * Cardinality(Billed(c))

FeeOfParts(c) ==
    \A d \in 0..DaysInMonth :
       ColoFee(c, d) + ColoFee(c, DaysInMonth - d) - ColoFee(c, DaysInMonth) \in -1..1

CreditCovered(c) ==
    BillableDays(c) = DaysInMonth /\ c.adjustments = <<>> /\ 2 * c.credit <= ColoFee(c, DaysInMonth) + 1 =>
       Subtotal(InvoiceLines(c)) + Tax(c, InvoiceLines(c)) >= 0

\* Every kWh that came in is billed once, unless two racks share a meter, which is then
\* read for each.  With one meter the demand is that of every quarter of an hour with
\* three sound readings at least and never more than the highest reading, and a month
\* with more than a twentieth of its readings missing is put up for review, up to the
\* rounding of the share to 1/100 of a percent.  A fee split at any day between a customer
\* that leaves and one that comes is the whole fee, up to a cent.  For a whole month no
\* SLA credit a tier grants makes an invoice without adjustments negative.
BillAsMetered ==
    Complete /\ Billable(account) =>
    /\ EnergyOnce(account)
    /\ Cardinality(Sources(account)) = 1 =>
          \A s \in SensorsOf(account) : DemandSeen(account, s) /\ GapsReviewed(account, s)
    /\ FeeOfParts(account)
    /\ CreditCovered(account)

=============================================================================
