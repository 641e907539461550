------------------------------ MODULE HeatExport ------------------------------
(***************************************************************************)
(* The heat a site delivers to its host, as the monthly calculation finds  *)
(* it (business/kwht_calculator.py), beside what the plant delivered: time *)
(* goes by in intervals, each sampled by three sensors, and the cooling    *)
(* mode changes in between.  Temperatures are tenths of a degree, energy   *)
(* is in 1/100 kWh and money in cents.  One block: the code merges the     *)
(* mode events of all blocks of the site.                                  *)
(***************************************************************************)
EXTENDS Rounding, FiniteSets

CONSTANTS
    Months,        \* 1..n, the months of the year that are looked at
    Days,          \* days in a month
    DayIntervals,  \* metering intervals in a day
    Samples,       \* what the sensors may report for an interval
    Modes,         \* the mode events: [mode, generator]
    FirstMode,     \* the mode the first month begins in
    Agreement,     \* the host agreement
    Racks,         \* the rack assignments at the site: committed kW, rate (0: none)
    MaxEvents      \* bound: changes of mode

\* A sensor says nothing, or one value with its quality.
Says(S, values) == \A r \in S : S = {r} /\ r.value \in values

ASSUME PlantAssumption ==
    /\ IsFiniteSet(Months) /\ Months = 1..Cardinality(Months)
    /\ Days \in Nat \ {0} /\ DayIntervals \in Nat \ {0} /\ MaxEvents \in Nat
    /\ \A s \in Samples : Says(s.flow, Nat) /\ Says(s.supply, Int) /\ Says(s.back, Int)
    /\ \A m \in Modes : m.generator \in BOOLEAN
    /\ Agreement.hostEnergyRate \in Nat /\ Agreement.efficiency \in 0..100
    /\ Agreement.sharePct \in Nat /\ Agreement.threshold \in Int
    /\ Racks \in Seq([kw : Nat, rate : Nat])

VARIABLES
    now,       \* the interval that comes next
    events,    \* mode events, in the order of their timestamps
    readings,  \* what was sampled in each interval that is over
    running,   \* a generator runs
    delivered, \* flow times temperature difference, of the intervals that count, by month
    ran        \* hours a generator ran, by month

plantVars == <<now, events, readings, running, delivered, ran>>

MonthIntervals == Days * DayIntervals
Intervals(m)   == ((m - 1) * MonthIntervals)..(m * MonthIntervals - 1)
MonthOf(t)     == t \div MonthIntervals + 1
Over(m)        == now >= m * MonthIntervals
Hour           == 24 \div DayIntervals    \* hours an interval stands for

-----------------------------------------------------------------------------
(* The readings.                                                           *)

\* Where one of the three is missing the interval is skipped; the worst quality wins.
ThermalReadings(m) ==
    {t \in Intervals(m) \cap DOMAIN readings :
        {readings[t].flow, readings[t].supply, readings[t].back} \cap {{}} = {}}
ValueOf(S)   == (CHOOSE r \in S : TRUE).value
Flow(t)      == ValueOf(readings[t].flow)
DeltaT(t)    == ValueOf(readings[t].supply) - ValueOf(readings[t].back)
Bad(t)       == "BAD" \in {r.quality : r \in readings[t].flow \cup readings[t].supply \cup readings[t].back}

\* By the index of the event.
EventsOf(m)  == {i \in DOMAIN events : MonthOf(events[i].at) = m}

\* Mutant: the first mode of the month is the mode of the month.
FirstModeAt(m, t) == IF EventsOf(m) = {} THEN "UNKNOWN" ELSE events[Min(EventsOf(m))].mode
\* Only the events of the month are fetched: before the first of them it is UNKNOWN.
ModeAtTime(m, t) ==
    LET before == {i \in EventsOf(m) : events[i].at <= t}
    IN  IF before = {} THEN "UNKNOWN" ELSE events[Max(before)].mode

ExportModes == {"EXPORT", "MIXED"}

\* Below -0.5 degrees is an anomaly and not counted; from there to 0 it counts as 0.
Counted(m)  == {t \in ThermalReadings(m) :
                  ~Bad(t) /\ ModeAtTime(m, t) \in ExportModes /\ DeltaT(t) >= -5}
Product(t)  == Flow(t) * AtLeastZero(DeltaT(t))

-----------------------------------------------------------------------------
(* The calculation.                                                        *)

\* Flow times difference times 997 * 4.18 / 3600, for a twelfth of an hour.
KWht(p)      == HalfUp(p * 416746, 432000)
KwThermal(p) == HalfUp(p * 416746, 36000)

DayOf(m, d)  == {t \in Counted(m) : t \div DayIntervals = (m - 1) * Days + d - 1}
HeatOf(S)    == SumFunction([t \in S |-> Product(t)])
DailyExports(m) == [d \in 1..Days |-> KWht(HeatOf(DayOf(m, d)))]

\* _assess_quality; the threshold is 5 %.
NeedsReview(m) ==
    LET missing == MonthIntervals - Cardinality(ThermalReadings(m))
    IN  HalfUp(missing * 10000, MonthIntervals) > 500

EstimatedColoRevenue == SumFunction([i \in DOMAIN Racks |-> Racks[i].kw * Racks[i].rate])

AvoidedCost(kwht) == HalfUp(kwht * Agreement.hostEnergyRate * Agreement.efficiency, 10000)
HostValue(kwht) ==
    AvoidedCost(kwht) +
        IF Agreement.model = "REVENUE_SHARE"
        THEN HalfUp(EstimatedColoRevenue * Agreement.sharePct, 100) ELSE 0
Shortfall(kwht) ==
    IF Agreement.threshold > 0 /\ HostValue(kwht) < Agreement.threshold
    THEN Agreement.threshold - HostValue(kwht) ELSE 0

HeatResult(m) ==
    LET kwht == KWht(HeatOf(Counted(m)))
    IN  [kwht      |-> kwht,
         peak      |-> KwThermal(Max({0} \cup {Product(t) : t \in Counted(m)})),
         days      |-> DailyExports(m),
         intervals |-> Cardinality(Counted(m)),
         value     |-> HostValue(kwht),
         shortfall |-> Shortfall(kwht),
         review    |-> NeedsReview(m)]

-----------------------------------------------------------------------------
(* The plant.                                                              *)

\* What has been delivered counts the sensors' word for it, not the events'.
Exporting == (IF events = <<>> THEN FirstMode ELSE Last(events).mode) \in ExportModes
Usable(s) == /\ s.flow # {} /\ s.supply # {} /\ s.back # {}
             /\ "BAD" \notin {r.quality : r \in s.flow \cup s.supply \cup s.back}

Sample(s) ==
    /\ now < Cardinality(Months) * MonthIntervals
    /\ now' = now + 1
    /\ readings' = [t \in 0..now |-> IF t = now THEN s ELSE readings[t]]
    /\ delivered' =
         IF Exporting /\ Usable(s)
         THEN [delivered EXCEPT ![MonthOf(now)] =
                 @ + ValueOf(s.flow) * AtLeastZero(ValueOf(s.supply) - ValueOf(s.back))]
         ELSE delivered
    /\ ran' = IF running THEN [ran EXCEPT ![MonthOf(now)] = @ + Hour] ELSE ran
    /\ UNCHANGED <<events, running>>

ChangeMode(m) ==
    /\ now < Cardinality(Months) * MonthIntervals /\ Len(events) < MaxEvents
    /\ events # <<>> => Last(events).at < now
    /\ events' = Append(events, [at |-> now, mode |-> m.mode, generator |-> m.generator])
    /\ running' = m.generator
    /\ UNCHANGED <<now, readings, delivered, ran>>

PlantInit ==
    /\ now = 0 /\ events = <<>> /\ readings = <<>> /\ running = FALSE
    /\ delivered = [m \in Months |-> 0] /\ ran = delivered

PlantNext == (\E s \in Samples : Sample(s)) \/ (\E m \in Modes : ChangeMode(m))

PlantSpec == PlantInit /\ [][PlantNext]_plantVars

-----------------------------------------------------------------------------

\* The mode in which a month begins is known to the calculation.
ModeKnown(m) ==
    EventsOf(m) # {} /\ events[Min(EventsOf(m))].at = (m - 1) * MonthIntervals

\* Once a month is over, the heat reported is what was delivered in it, or less when the
\* month began in a mode no event of its own tells ("last event before t", but only the
\* month's events are asked for); the days add up to the month, each within half a unit
\* of rounding, no interval has more than the peak, and the host is never valued more
\* than was delivered nor left below the budget-neutral threshold.
HeatAsDelivered ==
    \A m \in {k \in Months : Over(k)} :
        LET result == HeatResult(m)
            real   == KWht(delivered[m])
            sum    == SumFunction(result.days)
        IN  /\ result.kwht <= real
            /\ ModeKnown(m) => result.kwht = real
            /\ sum - result.kwht \in -Days..Days
            /\ 12 * result.kwht <= result.intervals * result.peak + 12 * result.intervals + 12
            /\ result.value <= HostValue(real)
            /\ result.value + result.shortfall >= Agreement.threshold
            /\ ~result.review => result.intervals <= MonthIntervals
                                 /\ 100 * Cardinality(ThermalReadings(m)) >= 94 * MonthIntervals

=============================================================================
