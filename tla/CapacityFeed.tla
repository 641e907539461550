----------------------------- MODULE CapacityFeed -----------------------------
(***************************************************************************)
(* The feed that tells HubSpot how much capacity each site has left        *)
(* (business/crm_feed.py): every few hours, site after site, the company's *)
(* figures are updated and a deal is opened when much is left.             *)
(* Utilisation is in tenths of a percent.  HubSpot is external: a call may *)
(* take effect and its answer be lost.                                     *)
(***************************************************************************)
EXTENDS Rounding, FiniteSets

CONSTANTS
    Sites,          \* sequence of [capacity, racks, named]: named when the name holds the id
    Contracts,      \* what may be in force: [site, kw, racks, colo, rate], rate {} or {v}
    MaxRetries,
    DealBelow, AlertFrom,
    MaxDeals        \* bound: deals in HubSpot

ASSUME FeedAssumption ==
    /\ Sites \in Seq([capacity : Nat, racks : Nat, named : BOOLEAN]) /\ Len(Sites) > 0
    /\ MaxRetries \in Nat /\ DealBelow <= AlertFrom

VARIABLES
    inForce,        \* the active contracts
    page,           \* by site, what its company shows: {} or {[sold, racks, rate]}
    deals,          \* what HubSpot holds: [site, byFeed, found, linked]
    sync,           \* the call the feed is at: [at, site, snapshot, tries]
    results,        \* what sync_all_sites has collected in this round
    doubtful        \* sites for which a search failed or a creation was tried again after
                    \* its answer was lost

crmVars == <<inForce, page, deals, sync, results, doubtful>>

-----------------------------------------------------------------------------
(* The snapshot.                                                           *)

OfSite(i)      == {c \in inForce : c.site = i}
Colo(i)        == {c \in OfSite(i) : c.colo}

TotalCommittedKw(i)    == MapThenSumSet(LAMBDA c : c.kw, OfSite(i))
AvailableCapacityKw(i) == Sites[i].capacity - TotalCommittedKw(i)
Utilisation(i) == IF Sites[i].capacity > 0 THEN HalfUp(1000 * TotalCommittedKw(i), Sites[i].capacity) ELSE 0

\* The rate shown is that of the first colocation contract that has one, in the
\* database's order; 0 when none has.
RatesShown(i) == LET rated == {c \in Colo(i) : c.rate # {}}
                 IN  IF rated = {} THEN {0} ELSE UNION {c.rate : c \in rated}

BuildSnapshot(i) ==
    {[available |-> AvailableCapacityKw(i), utilisation |-> Utilisation(i), rate |-> r,
      racks |-> AtLeastZero(Sites[i].racks - MapThenSumSet(LAMBDA c : c.racks, Colo(i)))] : r \in RatesShown(i)}

-----------------------------------------------------------------------------
(* From one call, and one site, to the next.                               *)

Call(at, i, s) == [at |-> at, site |-> i, snapshot |-> s, tries |-> MaxRetries + 1]
Asleep == [at |-> "asleep", site |-> 0, snapshot |-> {}, tries |-> 0]

SyncSite(i) == \/ i > Len(Sites) /\ sync' = Asleep
               \/ i <= Len(Sites) /\ \E s \in BuildSnapshot(i) : sync' = Call("update", i, {s})

Snapshot == CHOOSE s \in sync.snapshot : TRUE
Goto(at) == sync' = Call(at, sync.site, sync.snapshot) /\ UNCHANGED results
Finish(success, created) ==
    /\ results' = Append(results, [success |-> success, created |-> created,
                                   alert |-> success /\ Snapshot.utilisation >= AlertFrom])
    /\ SyncSite(sync.site + 1)

AfterUpdate == IF Snapshot.utilisation < DealBelow THEN Goto("search") ELSE Finish(TRUE, FALSE)

\* What search_deals finds: the deals whose name holds the site's id.
Existing(i) == {k \in DOMAIN deals : deals[k].site = i /\ deals[k].found}
\* Mutant: a single deal does not count.
OfferUnlessSeveral == IF Cardinality(Existing(sync.site)) > 1 THEN Finish(TRUE, FALSE) ELSE Goto("create")
OfferUnlessFound   == IF Existing(sync.site) # {} THEN Finish(TRUE, FALSE) ELSE Goto("create")

\* What HubSpot does on a call.
Effect ==
    CASE sync.at = "update" -> /\ page' = [page EXCEPT ![sync.site] = sync.snapshot]
                               /\ UNCHANGED deals
      [] sync.at = "create" -> /\ Len(deals) < MaxDeals
                               /\ deals' = Append(deals, [site |-> sync.site, byFeed |-> TRUE,
                                                          found |-> Sites[sync.site].named, linked |-> FALSE])
                               /\ UNCHANGED page
      [] sync.at = "associate" -> /\ deals' = [deals EXCEPT ![Len(deals)].linked = TRUE]
                                  /\ UNCHANGED page
      [] OTHER -> UNCHANGED <<page, deals>>

InCall == sync.at # "asleep" /\ UNCHANGED inForce

\* 200, 201 or 204.
Success ==
    /\ InCall
    /\ Effect
    /\ CASE sync.at = "update"    -> AfterUpdate
         [] sync.at = "search"    -> OfferUnlessFound
         [] sync.at = "create"    -> Goto("associate")
         [] sync.at = "associate" -> Finish(TRUE, TRUE)
    /\ UNCHANGED doubtful

\* Another 4xx comes back as a dictionary, which every caller takes for an answer:
\* without an id the deal counts as created all the same.
ClientError ==
    /\ InCall
    /\ CASE sync.at = "update" -> AfterUpdate
         [] sync.at = "search" -> Goto("create")
         [] OTHER              -> Finish(TRUE, TRUE)
    /\ doubtful' = IF sync.at = "search" THEN doubtful \cup {sync.site} ELSE doubtful
    /\ UNCHANGED <<page, deals>>

\* Out of attempts: HubSpotError.
Raise ==
    CASE sync.at = "update" -> Finish(FALSE, FALSE)
      [] sync.at = "search" -> Goto("create")
      [] OTHER              -> Finish(TRUE, FALSE)

TryAgain == IF sync.tries > 1 THEN sync' = [sync EXCEPT !.tries = @ - 1] /\ UNCHANGED results ELSE Raise

\* 429, or no connection: nothing happened.
Unserved ==
    /\ InCall
    /\ TryAgain
    /\ doubtful' = IF sync.at = "search" /\ sync.tries = 1 THEN doubtful \cup {sync.site} ELSE doubtful
    /\ UNCHANGED <<page, deals>>

\* 5xx, or a timeout: it may have happened.
Lost ==
    /\ InCall
    /\ sync.at \in {"update", "create", "associate"}
    /\ Effect
    /\ TryAgain
    /\ doubtful' = IF sync.at = "create" /\ sync.tries > 1 THEN doubtful \cup {sync.site} ELSE doubtful

\* start_scheduled_sync: a round begins.
BeginRound ==
    /\ sync.at = "asleep"
    /\ results' = <<>>
    /\ SyncSite(1)
    /\ UNCHANGED <<inForce, page, deals, doubtful>>

\* Contracts begin and end, in the billing database.
Sign(c) == /\ inForce' = IF c \in inForce THEN inForce \ {c} ELSE inForce \cup {c}
           /\ UNCHANGED <<page, deals, sync, results, doubtful>>

\* Somebody in sales opens a deal and puts the site's id in its name.
OfferByHand(i) ==
    /\ Len(deals) < MaxDeals /\ sync.at # "associate"
    /\ deals' = Append(deals, [site |-> i, byFeed |-> FALSE, found |-> TRUE, linked |-> TRUE])
    /\ UNCHANGED <<inForce, page, sync, results, doubtful>>

-----------------------------------------------------------------------------
CrmInit ==
    /\ inForce = {} /\ page = [i \in DOMAIN Sites |-> {}] /\ deals = <<>>
    /\ sync = Asleep /\ results = <<>> /\ doubtful = {}

CrmNext ==
    \/ BeginRound \/ Success \/ ClientError \/ Unserved \/ Lost
    \/ \E c \in Contracts : Sign(c)
    \/ \E i \in DOMAIN Sites : OfferByHand(i)

CrmSpec == CrmInit /\ [][CrmNext]_crmVars

-----------------------------------------------------------------------------
(* Properties.                                                             *)

Offers(i) == {k \in DOMAIN deals : deals[k].site = i /\ deals[k].byFeed}

\* However contracts come and go and calls fail, the feed opens no second deal for a site
\* whose name holds its id, unless a search failed or a creation was tried again after its
\* answer was lost (_maybe_create_deal, HubSpotClient._request).
OneOffer ==
    \A i \in DOMAIN Sites \ doubtful :
        Sites[i].named => \A j, k \in Offers(i) : j = k

===============================================================================
