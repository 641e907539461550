------------------------------ MODULE MCLiveFeed ------------------------------
(* Two sensors of two subsystems of a block; the dashboard filters on one. *)
(* A reading with an unknown priority goes the way of one without alarm.   *)
EXTENDS LiveFeed

MCKeys       == {"flow", "leak"}
MCActive     == {"flow"}
MCSeeded     == {"leak"}
MCClients    == {"noc"}
MCSubscribed == [c \in MCClients |-> MCKeys]
MCWanted     == [c \in MCClients |-> {"flow"}]

MCTraffic    == {<<"leak", "alarm">>} \cup ({"flow"} \X (Bodies \ {"reading"}))

\* The alarm socket: a higher minimum lets less through, and none lets all of a block
\* through that has a priority.
ASSUME FilterIsMonotonic ==
    \A p, low, high \in {"P0", "P1", "P2", "P3", "unset"} : \A wanted \in {"any", "b1", "b2"} :
        /\ Level(low) >= Level(high) /\ AlarmPasses("b1", wanted, p, high) => AlarmPasses("b1", wanted, p, low)
        /\ AlarmPasses("b1", wanted, p, "unset") <=> wanted # "b2"

=============================================================================
