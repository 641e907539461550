------------------------- MODULE MCPagerDutyRouter -------------------------
(* A small instance of PagerDutyRouter for TLC. *)
EXTENDS PagerDutyRouter

CONSTANTS pump, flow, door

\* Two alarms that are paged and one for the digest.
Three           == {pump, flow, door}
ThreeByPriority == [a \in Three |-> CASE a = pump -> "P0" [] a = flow -> "P2" [] OTHER -> "P3"]

AllRouted       == {"P0", "P1", "P2", "P3"}

=============================================================================
