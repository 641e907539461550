----------------------------- MODULE CarbonReport -----------------------------
(***************************************************************************)
(* The carbon report of the site HeatExport describes, by month and for    *)
(* the year (business/esg_calculator.py).  Emissions are in 1/100 kg, the  *)
(* factors in 1/100 kg a unit, ratios in 1/1000.                           *)
(***************************************************************************)
EXTENDS HeatExport

CONSTANTS
    GridFactor,      \* of the host agreement, in 1/100 kg per kWh
    LitresPerHour    \* diesel_litres_per_hour of a generator event

ASSUME CarbonAssumption ==
    /\ GridFactor \in Nat /\ LitresPerHour \in Nat /\ Agreement.hostEfficiency \in Int
    /\ \A s \in Samples : Says(s.met, Nat) /\ Says(s.pdu, Nat) /\ Says(s.spray, Nat)

-----------------------------------------------------------------------------
(* What goes in.                                                           *)

\* The meters' 5-minute values, but the BAD ones.
SoundValues(S) == IF S # {} /\ \A r \in S : r.quality # "BAD" THEN ValueOf(S) ELSE 0
SumOf(f)       == HalfUp(100 * SumFunction(f), 12)
Metered(m)     == Intervals(m) \cap DOMAIN readings
FacilityKwh(m) == SumOf([t \in Metered(m) |-> SoundValues(readings[t].met)])
ItKwh(m)       == SumOf([t \in Metered(m) |-> SoundValues(readings[t].pdu)])
Water(m)       == SumOf([t \in Metered(m) |-> SoundValues(readings[t].spray)])

\* A generator's start is remembered, the last of several; the next event of another kind
\* ends the run.
StartsOf(m, i) ==
    {j \in EventsOf(m) : /\ j < i /\ events[j].generator /\ events[j].mode = "REJECT"
                         /\ \A k \in (j + 1)..(i - 1) : events[k].generator}
EndsOf(m)         == {i \in EventsOf(m) : ~events[i].generator /\ StartsOf(m, i) # {}}
RunTime(m, i)     == events[i].at - events[Max(StartsOf(m, i))].at
RunHours(m)       == Hour * SumFunction([i \in EndsOf(m) |-> RunTime(m, i)])

\* A fetch of the events that fails is passed over: there were no runs.  The client of
\* production has no get_events, so that each of its fetches fails.
GeneratorHours(m, fetched) == IF m \in fetched THEN RunHours(m) ELSE 0

\* Of no values there is no sum to round: the calculation raises, and the year skips the
\* month.
Calculable(m) ==
    \A meter \in {"met", "pdu", "spray"} :
        \E t \in Metered(m) : \E r \in readings[t][meter] : r.quality # "BAD"

-----------------------------------------------------------------------------
(* The month.                                                              *)

\* Energy is in 1/100 kWh.
OffsetKg(kwht) == HalfUp(kwht * GridFactor * (100 - Agreement.hostEfficiency), 10000)
Scope1(hours)  == hours * LitresPerHour * 268
Scope2(kwh)    == HalfUp(kwh * GridFactor, 100)

\* What there is of a month and of a year.
Sums(hours, facility, it, water, kwht, offset, scope1, scope2) ==
    [hours |-> hours, facility |-> facility, it |-> it, water |-> water, kwht |-> kwht,
     offset |-> offset, emissions |-> scope1 + scope2, scope1 |-> scope1, scope2 |-> scope2,
     net |-> scope1 + scope2 - offset]

Ratio(n, d) == IF d > 0 THEN HalfUp(1000 * n, d) ELSE 0

MonthSums(m, fetched) ==
    LET hours == GeneratorHours(m, fetched)
        kwht  == HeatResult(m).kwht
    IN  Sums(hours, FacilityKwh(m), ItKwh(m), Water(m), kwht, OffsetKg(kwht),
             Scope1(hours), Scope2(FacilityKwh(m)))
\* Mutant: nothing caps the recovery rate.
EfficiencyUncapped(r) ==
    [pue |-> Ratio(r.facility, r.it), wue |-> Ratio(10 * r.water, r.it),
     recovery |-> Ratio(r.kwht, r.facility - r.it)]
Efficiency(r) ==
    [pue |-> Ratio(r.facility, r.it), wue |-> Ratio(10 * r.water, r.it),
     recovery |-> Min({1000, Ratio(r.kwht, r.facility - r.it)})]

\* Of the months that could be calculated.
AnnualSums(ms, fetched) ==
    Sums(SumFunction([m \in ms |-> MonthSums(m, fetched).hours]),
         SumFunction([m \in ms |-> MonthSums(m, fetched).facility]),
         SumFunction([m \in ms |-> MonthSums(m, fetched).it]),
         SumFunction([m \in ms |-> MonthSums(m, fetched).water]),
         SumFunction([m \in ms |-> MonthSums(m, fetched).kwht]),
         SumFunction([m \in ms |-> MonthSums(m, fetched).offset]),
         SumFunction([m \in ms |-> MonthSums(m, fetched).scope1]),
         SumFunction([m \in ms |-> MonthSums(m, fetched).scope2]))
\* The year's are rounded to even, the recovery takes at least 1 kWh of waste heat.
AnnualEfficiency(r) ==
    IF r.it = 0 THEN [pue |-> 0, wue |-> 0, recovery |-> 0]
    ELSE [pue |-> HalfEven(1000 * r.facility, r.it), wue |-> HalfEven(10000 * r.water, r.it),
          recovery |-> Min({1000, HalfEven(1000 * r.kwht, Max({r.facility - r.it, 100}))})]

-----------------------------------------------------------------------------

\* Every run of the month begins and ends in it, begins once, and rejects the heat.
WholeRuns(m) ==
    /\ \A i \in EventsOf(m) : events[i].generator =>
         i + 1 \in EventsOf(m) /\ ~events[i + 1].generator /\ events[i].mode = "REJECT"
    /\ \A j \in DOMAIN events :
         events[j].generator /\ MonthOf(events[j].at) < m => j < Len(events)
             /\ MonthOf(events[j + 1].at) < m

\* A month is not charged with more diesel than its generators ran; when its events were
\* fetched, with all of it unless a run crosses the end of a month (it is then in neither),
\* its start was reported twice or in another mode than REJECT.  The year is the sum of
\* those months that could be calculated, whichever they are: its ratio of facility to IT
\* energy lies between theirs (a unit below them at a tie, which the months round up and
\* the year to even), its net carbon is theirs together, the offset that of its heat up to
\* rounding.
CarbonAddsUp ==
    \A ms \in (SUBSET {m \in Months : Calculable(m)}) \ {{}} :
    \A fetched \in SUBSET ms :
        LET annual == AnnualSums(ms, fetched)
        IN  /\ \A m \in ms :
                 /\ MonthSums(m, fetched).hours <= ran[m]
                 /\ m \in fetched /\ WholeRuns(m) => MonthSums(m, fetched).hours = ran[m]
                 /\ Efficiency(MonthSums(m, fetched)).recovery \in 0..1000
            /\ annual.hours <= SumFunction([m \in ms |-> ran[m]])
            /\ annual.net = SumFunction([m \in ms |-> MonthSums(m, fetched).net])
            /\ annual.offset - OffsetKg(annual.kwht) \in -Cardinality(ms)..Cardinality(ms)
            /\ (\A m \in ms : MonthSums(m, fetched).it > 0) =>
                 LET pues == {Efficiency(MonthSums(m, fetched)).pue : m \in ms}
                 IN  AnnualEfficiency(annual).pue \in (Min(pues) - 1)..Max(pues)

=============================================================================
