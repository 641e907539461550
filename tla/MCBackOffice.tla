----------------------------- MODULE MCBackOffice -----------------------------
(* The back office, which shares no state: in a behaviour one of its desks works. *)
EXTENDS Availability, CarbonReport, BillingFigures, TenantAccess, CapacityFeed,
        BlockSimulator

VARIABLE desk

(* Availability: racks in two blocks of different classes, an incident of a priority   *)
(* that does not count, and windows that end with a month or an incident, or begin so. *)
MCClass == [b1 |-> "A", b2 |-> "B"]
MCKinds == {[block |-> "b1", priority |-> "P1"], [block |-> "b2", priority |-> "P2"]}
Plan(b, s, e) == [block |-> b, start |-> s, end |-> e]
MCPlans == {Plan("b1", 50, 62), Plan("b1", 62, 64), Plan("b2", 66, 90)}

(* Heat and carbon: two months of two days; one sample with heat, one without a flow,  *)
(* one in which water comes back a little warmer.                                      *)
V(x, q) == {[value |-> x, quality |-> q]}
SampleOf(f, s, b, met, pdu) ==
    [flow |-> f, supply |-> s, back |-> b, met |-> met, pdu |-> pdu, spray |-> V(7, "GOOD")]
MCSamples == {SampleOf(V(20, "GOOD"), V(450, "GOOD"), V(400, "GOOD"), V(115, "GOOD"), V(100, "GOOD")),
              SampleOf({}, V(450, "GOOD"), V(400, "GOOD"), V(140, "GOOD"), V(100, "GOOD")),
              SampleOf(V(20, "GOOD"), V(400, "GOOD"), V(403, "GOOD"), V(115, "GOOD"), V(100, "BAD"))}
Mode(m, g) == [mode |-> m, generator |-> g]
MCModes == {Mode("MIXED", FALSE), Mode("REJECT", FALSE), Mode("REJECT", TRUE)}
MCAgreement == [model |-> "REVENUE_SHARE", hostEnergyRate |-> 12, efficiency |-> 90, sharePct |-> 5,
                threshold |-> 1000, hostEfficiency |-> 85]
MCRacks == <<[kw |-> 3, rate |-> 4000], [kw |-> 5, rate |-> 0]>>

(* Billing: a month of two days.  One rack and a credit; two racks and a contract that *)
(* ends; a meter for two racks, two adjustments and a contract that begins late.       *)
Rack(b, kw)   == [block |-> b, kw |-> kw, pue |-> 115]
Rate(t, d, v) == [type |-> t, from |-> d, value |-> v]
MCRates == {Rate("COLO_PER_KW", -30, 10001), Rate("COLO_PER_KW", 1, 99999), Rate("POWER_PER_KWH", -30, 11),
            Rate("POWER_PER_KWH", -60, 9), Rate("DEMAND_CHARGE", -30, 750)}
Account(racks, meters, start, end, credit, adjustments) ==
    [racks |-> racks, meters |-> meters, start |-> start, end |-> end, credit |-> credit,
     adjustments |-> adjustments, crossConnects |-> 2, taxPct |-> 8,
     rates |-> MCRates \cup IF adjustments = <<>> THEN {}
                            ELSE {Rate("COOLING_PUE", -30, 8), Rate("CROSS_CONNECT", -30, 15000)}]
MCAccounts ==
    {Account(<<Rack("b1", 3)>>, <<>>, -10, {}, 15001, <<>>),
     Account(<<Rack("b1", 3), Rack("b2", 4)>>, <<>>, -10, {1}, 0, <<-5000>>),
     Account(<<Rack("b1", 3), Rack("b2", 4)>>, <<"m1">>, 1, {}, 0, <<-5000, 200>>)}
MCValues == {{}} \cup {{[kw |-> 1, quality |-> "GOOD"]}, {[kw |-> 4, quality |-> "SUSPECT"]},
                       {[kw |-> 4, quality |-> "BAD"]}}

(* Capacity: a site whose name holds its id, sold to 0, 6, 85 or 91 %, and one whose   *)
(* name does not, of which nothing is sold.                                            *)
MCSites == <<[capacity |-> 1000, racks |-> 14, named |-> TRUE],
             [capacity |-> 500, racks |-> 4, named |-> FALSE]>>
MCContracts == {[site |-> 1, kw |-> 850, racks |-> 12, colo |-> TRUE, rate |-> {135}],
                [site |-> 1, kw |-> 60, racks |-> 3, colo |-> FALSE, rate |-> {}]}

-----------------------------------------------------------------------------
Init ==
    /\ desk \in {"sla", "plant", "bill", "access", "crm", "block"}
    /\ SlaInit /\ PlantInit /\ BillInit /\ AccessInit /\ CrmInit /\ SimInit
    /\ desk # "bill" => account = CHOOSE c \in Accounts : TRUE
    /\ desk # "access" => \A t \in Tenants : tenants[t].limit = 1
    /\ desk # "block" => mode = "EXPORT" /\ supply = 1

At(d) == desk = d /\ UNCHANGED desk

Next ==
    \/ At("sla") /\ SlaNext /\ UNCHANGED <<plantVars, billVars, accessVars, crmVars, simVars>>
    \/ At("plant") /\ PlantNext /\ UNCHANGED <<slaVars, billVars, accessVars, crmVars, simVars>>
    \/ At("bill") /\ BillNext /\ UNCHANGED <<slaVars, plantVars, accessVars, crmVars, simVars>>
    \/ At("access") /\ AccessNext /\ UNCHANGED <<slaVars, plantVars, billVars, crmVars, simVars>>
    \/ At("crm") /\ CrmNext /\ UNCHANGED <<slaVars, plantVars, billVars, accessVars, simVars>>
    \/ At("block") /\ SimNext /\ UNCHANGED <<slaVars, plantVars, billVars, accessVars, crmVars>>

Spec == Init /\ [][Next]_<<desk, slaVars, plantVars, billVars, accessVars, crmVars, simVars>>

=============================================================================
