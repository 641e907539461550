----------------------------- MODULE MCInvoicing -----------------------------
(* A site with three customers, one with a second contract of the first:   *)
(* the two batches meet at that customer's adjustments and, when the first *)
(* bills the wrong one of the two contracts, at an invoice number.         *)
EXTENDS Invoicing

MCContracts  == {"alice", "bob", "carol", "alice2"}
MCCustomerOf == [c \in MCContracts |-> CASE c = "bob" -> "Bob" [] c = "carol" -> "Carol" [] OTHER -> "Alice"]
MCSiteOf     == [c \in MCContracts |-> IF c = "alice2" THEN "west" ELSE "north"]
MCBatches    == {"r1", "r2"}
MCBatchSite  == [r \in MCBatches |-> IF r = "r1" THEN "north" ELSE "west"]
MCOnBehalfOf == [a \in {"setup"} |-> "Alice"]

=============================================================================
