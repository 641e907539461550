------------------------------- MODULE Outbox -------------------------------
(***************************************************************************)
(* What a store-and-forward buffer promises to the receiver, whatever it   *)
(* loses: messages are offered in the order of their numbers, some are     *)
(* kept, and what is sent between two recoveries is sent in order and at   *)
(* most once.  A recovery, after a restart or a fault of the store, may    *)
(* bring back a message that was sent or dropped before, and never one     *)
(* that was not offered.                                                   *)
(***************************************************************************)
EXTENDS Naturals

VARIABLES
    last,      \* the number of the last message offered
    pending,   \* messages kept and not sent
    sent       \* messages sent since the last recovery

outbox == <<last, pending, sent>>

Init == last = 0 /\ pending = {} /\ sent = {}

Offer == last' = last + 1 /\ UNCHANGED <<pending, sent>>

\* The last message is kept.
Put ==
    /\ last \notin pending \cup sent
    /\ pending' = pending \cup {last}
    /\ UNCHANGED <<last, sent>>

\* The oldest message goes out; none newer has gone before it.
Send ==
    \E m \in pending :
        /\ \A k \in pending : m <= k
        /\ \A k \in sent : k < m
        /\ pending' = pending \ {m}
        /\ sent' = sent \cup {m}
        /\ UNCHANGED last

Drop == pending' \subseteq pending /\ UNCHANGED <<last, sent>>

Recover == pending' \subseteq 1..last /\ sent' = {} /\ UNCHANGED last

Next == Offer \/ Put \/ Send \/ Drop \/ Recover

Spec == Init /\ [][Next]_outbox

=============================================================================
