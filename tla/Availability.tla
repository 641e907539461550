----------------------------- MODULE Availability -----------------------------
(***************************************************************************)
(* The availability report of one customer and month                       *)
(* (business/sla_engine.py): what the report says whenever it is computed, *)
(* while alarms are raised and cleared, maintenance windows are entered,   *)
(* and the month and the one after go by.  Times are hours.                *)
(***************************************************************************)
EXTENDS Rounding, FiniteSets

CONSTANTS
    Blocks,          \* the blocks in which the customer has racks
    Class,           \* availability class of each rack assignment, by block
    Fee,             \* committed kW times the rate of the contract
    MonthStart, MonthEnd,
    Instants,        \* the times at which something happens
    MaintenancePlans,\* the windows that may be entered: block, start, end
    AlarmKinds,      \* block and priority of the alarms raised
    AlarmAnswer,     \* what GET /alarms answers: "history" or "page"
    PageSize,        \* alarms of a page
    MaxEntries       \* bound: alarms raised and windows entered

ASSUME PeriodAssumption ==
    /\ MonthStart \in Nat /\ MonthEnd \in Nat /\ MonthStart < MonthEnd
    /\ Blocks # {} /\ Class \in [Blocks -> {"A", "B", "C"}]
    /\ Instants \subseteq Nat /\ Instants # {}
    /\ \A m \in MaintenancePlans : m.start \in Nat /\ m.end \in Nat /\ m.start < m.end
    /\ AlarmAnswer \in {"history", "page"}

VARIABLES
    clock,
    alarms,          \* table alarms, in the order of its ids
    windows          \* table planned_maintenance

slaVars == <<clock, alarms, windows>>

Never   == <<>>      \* an end, or a notice, there is none of
Day     == 24
Minutes == MonthEnd - MonthStart

-----------------------------------------------------------------------------
(* What GET /alarms answers to get_alarms(block, start, end); alarms by their index. *)

\* The engine is written for a list of the block's alarms, as its stub returns it.
History(b) == {i \in DOMAIN alarms : alarms[i].block = b}

\* The route knows neither block_id nor start nor end: it answers an object, with a page of
\* the alarms of all blocks that are not CLEARED, the first by priority and then the latest.
Rank == [P0 |-> 0, P1 |-> 1, P2 |-> 2, P3 |-> 3]
Precedes(a, b) ==
    \/ Rank[a.priority] < Rank[b.priority]
    \/ Rank[a.priority] = Rank[b.priority] /\ a.raised > b.raised
Standing == {i \in DOMAIN alarms : alarms[i].cleared = Never}
Page ==
    {i \in Standing : Cardinality({j \in Standing : Precedes(alarms[j], alarms[i])}) < PageSize}

Answer(b) == IF AlarmAnswer = "history" THEN History(b) ELSE Page

\* To iterate over an object is to iterate over its keys, and a.get of a key raises: there is
\* no report.
Calculated == AlarmAnswer = "history"

-----------------------------------------------------------------------------
(* What counts as downtime.                                                *)

DowntimePriorities == {"P0", "P1"}
Incidents == {i \in UNION {Answer(b) : b \in Blocks} : alarms[i].priority \in DowntimePriorities}

\* An alarm that is not over counts to the end of the month, whatever the time is.
Duration(a) ==
    LET start == Max({a.raised, MonthStart})
        end   == IF a.cleared = Never THEN MonthEnd ELSE Min({a.cleared[1], MonthEnd})
    IN  AtLeastZero(end - start)

\* Mutant: notice is not asked for.
AnyWindow(w) == TRUE
\* 48 hours of notice.
IsValidExclusion(w) == w.notice # Never /\ w.notice[1] <= w.start - 48

PlannedMaintenance ==
    {w \in windows : w.block \in Blocks /\ w.start < MonthEnd /\ w.end > MonthStart}
ValidWindows == {w \in PlannedMaintenance : IsValidExclusion(w)}

\* The whole incident, not its part in the month, and the windows of all blocks.
MaintenanceOverlap(a) ==
    LET end == IF a.cleared = Never THEN clock ELSE a.cleared[1]
    IN  SumFunction([w \in ValidWindows |->
                        AtLeastZero(Min({end, w.end}) - Max({a.raised, w.start}))])

\* Mutant: an incident that touches a window is excluded with it.
ExcludedWithAny(a) == IF MaintenanceOverlap(a) > 0 THEN Duration(a) ELSE 0
ExcludedDowntime(a) == Min({MaintenanceOverlap(a), Duration(a)})

Unplanned(a)      == Duration(a) - ExcludedDowntime(a)
UnplannedDowntime == SumFunction([i \in Incidents |-> Unplanned(alarms[i])])

-----------------------------------------------------------------------------
(* What it amounts to.  Percentages in 1/10000 of a percent.               *)

SlaTargets == [A |-> 990000, B |-> 999000, C |-> 999900]
Target     == Max({SlaTargets[Class[b]] : b \in Blocks})

AvailabilityPct(downtime) == HalfUp((Minutes - downtime) * 1000000, Minutes)

\* The tiers, from the top; the credit in percent of the fee.
SlaCreditTiers == <<[below |-> 20000, credit |-> 50], [below |-> 10000, credit |-> 25],
                    [below |-> 5000, credit |-> 10], [below |-> 0, credit |-> 5]>>
SlaCreditPct(pct) ==
    IF pct >= Target THEN 0
    ELSE LET tiers == {i \in DOMAIN SlaCreditTiers : pct < Target - SlaCreditTiers[i].below}
         IN  SlaCreditTiers[Min(tiers)].credit

\* The budget of the month, in hours times 1000000.
MaxDowntime == Minutes * (1000000 - Target)
InMonth     == MonthStart <= clock /\ clock < MonthEnd
DaysElapsed == (clock - MonthStart) \div Day

\* During the month the budget decides, but on its first day; before and after, the target.
BreachWarning(downtime, met) ==
    IF InMonth
    THEN DaysElapsed > 0 /\ downtime * 1000000 * 4 > MaxDowntime * 3
    ELSE ~met

Report ==
    LET downtime == UnplannedDowntime
        pct      == AvailabilityPct(downtime)
        credit   == SlaCreditPct(pct)
    IN  [downtime |-> downtime, availability |-> pct, met |-> pct >= Target, tier |-> credit,
         credit |-> HalfUp(Fee * credit, 100), warning |-> BreachWarning(downtime, pct >= Target),
         active |-> Cardinality({i \in Incidents : alarms[i].cleared = Never})]

-----------------------------------------------------------------------------
(* The month.                                                              *)

Pass ==
    /\ \E t \in Instants : t > clock /\ (\A u \in Instants : u > clock => t <= u) /\ clock' = t
    /\ UNCHANGED <<alarms, windows>>

RaiseAlarm(k) ==
    /\ Len(alarms) + Cardinality(windows) < MaxEntries
    /\ alarms' = Append(alarms, [block |-> k.block, priority |-> k.priority,
                                 raised |-> clock, cleared |-> Never])
    /\ UNCHANGED <<clock, windows>>

ClearAlarm(i) ==
    /\ alarms[i].cleared = Never /\ alarms[i].raised < clock
    /\ alarms' = [alarms EXCEPT ![i].cleared = <<clock>>]
    /\ UNCHANGED <<clock, windows>>

\* No code enters the windows, and none looks at the notice they are entered with: it may be
\* none, of now, or of any other time.
EnterWindow(m, notice) ==
    /\ Len(alarms) + Cardinality(windows) < MaxEntries
    /\ windows' = windows \cup {[block |-> m.block, start |-> m.start, end |-> m.end,
                                 notice |-> notice]}
    /\ UNCHANGED <<clock, alarms>>

SlaInit == clock = Min(Instants) /\ alarms = <<>> /\ windows = {}

SlaNext ==
    \/ Pass
    \/ \E k \in AlarmKinds : RaiseAlarm(k)
    \/ \E i \in DOMAIN alarms : ClearAlarm(i)
    \/ \E m \in MaintenancePlans, notice \in {Never} \cup {<<t>> : t \in Instants} :
           EnterWindow(m, notice)

SlaSpec == SlaInit /\ [][SlaNext]_slaVars

-----------------------------------------------------------------------------

\* What happened, whatever GET /alarms answers.
Outages ==
    {i \in DOMAIN alarms : alarms[i].block \in Blocks /\ alarms[i].priority \in DowntimePriorities}

Hours(from, to) == from..(to - 1)
DownHours ==
    Hours(MonthStart, MonthEnd) \cap
    UNION {LET a == alarms[i]
           IN  Hours(a.raised, IF a.cleared = Never THEN MonthEnd ELSE a.cleared[1])
           : i \in Outages}
Disjoint(S)     == \A x, y \in S : x # y => x.end <= y.start \/ y.end <= x.start
InsideMonth(w)  == MonthStart <= w.start /\ w.end <= MonthEnd
OrderlyWindows  == Disjoint(ValidWindows) /\ \A w \in ValidWindows : InsideMonth(w)
Announced       == UNION {Hours(w.start, w.end) :
                            w \in {v \in windows : v.block \in Blocks /\ v.notice # Never
                                                   /\ v.start - v.notice[1] >= 48}}
Past(S)         == {h \in S : h < clock}

\* A report that can be made at all - see HistoryIsAnswered - counts as downtime every hour
\* in which some outage stood that no announced maintenance excuses, and nothing else when
\* outages do not overlap, as long as windows neither overlap nor cross the ends of the month
\* ("Maintenance only excluded from SLA if notice was >= 48h before start",
\* billing_models.py:440).  Credit is due exactly below the target, and outside the month
\* exactly then is a breach announced.
AvailabilityAsAgreed ==
    LET report == Report
    IN  Calculated =>
        /\ OrderlyWindows =>
             LET due     == Cardinality(DownHours \ Past(Announced))
                 overlap == \E i, j \in Outages :
                               /\ i < j
                               /\ Duration(alarms[i]) > 0 /\ Duration(alarms[j]) > 0
                               /\ \/ alarms[i].cleared = Never
                                  \/ alarms[i].cleared[1] > alarms[j].raised
             IN  report.downtime >= due /\ (~overlap => report.downtime = due)
        /\ report.met <=> report.tier = 0
        /\ ~InMonth => (report.warning <=> report.tier > 0)

\* The step enters no window with a notice of another time than now.
NoticedNow == \A w \in windows' \ windows : w.notice \in {Never, <<clock>>}

\* What a cleared incident costs is not taken back by a window entered afterwards, and when
\* the month is over its report no longer changes but for the number of active incidents,
\* although alarms of the month still stand and are cleared later: unless somebody enters a
\* window with a notice that was never sent then, which the 48 hours of billing_models.py:440
\* cannot tell from one that was.
ReportSettles ==
    [][ Calculated /\ NoticedNow =>
        /\ \A i \in DOMAIN alarms :
             alarms[i].cleared # Never => Unplanned(alarms[i])' >= Unplanned(alarms[i])
        /\ clock >= MonthEnd /\ OrderlyWindows =>
             [Report EXCEPT !.active = 0]' = [Report EXCEPT !.active = 0] ]_slaVars

-----------------------------------------------------------------------------
(* What the code says of itself, checked as stated.                        *)

\* sla_engine.py:167, get_alarms: "Returns alarm history for SLA calculation".
HistoryIsAnswered ==
    \A b \in Blocks : \A i \in Outages :
        alarms[i].block = b /\ Duration(alarms[i]) > 0 => i \in Answer(b)

=============================================================================
