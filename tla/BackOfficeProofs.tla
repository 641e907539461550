--------------------------- MODULE BackOfficeProofs ---------------------------
(***************************************************************************)
(* Theorems about the desks of the back office: who is let in              *)
(* (TenantAccess), the feed to the CRM (CapacityFeed), the simulated block *)
(* (BlockSimulator), the downtime of a month (Availability), the report of *)
(* the heat and the carbon (HeatExport, CarbonReport) and the bill of a    *)
(* customer (BillingFigures).  They share no state, and each has its own   *)
(* invariant.  The arithmetic of the last four stands before them.         *)
(***************************************************************************)
EXTENDS TenantAccess, CapacityFeed, BlockSimulator, Availability, CarbonReport,
        BillingFigures, FiniteSetTheorems, SequenceTheorems, WellFoundedInduction, TLAPS

-----------------------------------------------------------------------------
(* TenantAccess.                                                           *)

AccessTypeOK ==
    /\ time \in Nat /\ lastCleanup \in Nat
    /\ tenants \in [Tenants -> Rows]
    /\ tokens \subseteq [tenant : Tenants, role : Roles, limit : Limits, exp : Nat]
    /\ refreshers \subseteq [tenant : Tenants, exp : Nat]
    /\ refreshing \subseteq refreshers
    /\ admitted \subseteq [id : Nat, tenant : Tenants, limit : Limits, at : 0..time]
    /\ IsFiniteSet(admitted)
    /\ recent \in [Tenants -> SUBSET admitted]

Known(k) == tenants[k.tenant].active /\ tenants[k.tenant].role = k.role /\ tenants[k.tenant].limit = k.limit

\* A token says what the row says, or the row was changed in the token's lifetime.
TokensAge ==
    \A k \in tokens :
        /\ k.exp <= time + Expiry
        /\ Known(k) \/ \E at \in 0..time : at >= k.exp - Expiry /\ <<k.tenant, at>> \in changed

NumberedOnce ==
    /\ \A a \in admitted : a.id < Cardinality(admitted)
    /\ \A a, b \in admitted : a.id = b.id => a = b

\* What is remembered of a tenant is the tenant's, and all that still counts is remembered.
Remembered ==
    \A t \in Tenants :
        /\ \A a \in recent[t] : a.tenant = t
        /\ \A a \in admitted : a.tenant = t /\ a.at > time - Window => a \in recent[t]

UpTo(a) == {b \in InWindow(a.tenant, a.at) : b.id <= a.id}
WithinQuota == \A a \in admitted : Cardinality(UpTo(a)) <= a.limit

AccessInv == AccessTypeOK /\ TokensAge /\ NumberedOnce /\ Remembered /\ WithinQuota

\* What the limiter counts for a tenant is the requests of the window.
LEMMA RecentIsWindow ==
    ASSUME AccessTypeOK, Remembered, NEW t \in Tenants
    PROVE  Recent(t) = InWindow(t, time) /\ IsFiniteSet(Recent(t)) /\ Cardinality(Recent(t)) \in Nat
<1>1. Recent(t) = InWindow(t, time)
  BY AccessAssumption DEF AccessTypeOK, Remembered, Recent, Pruned, InWindow
<1>2. Recent(t) \subseteq admitted
  BY <1>1 DEF InWindow
<1> QED BY <1>1, <1>2, FS_Subset, FS_CardinalityType DEF AccessTypeOK

LEMMA AccessInitially == AccessInit => AccessInv
<1> SUFFICES ASSUME AccessInit PROVE AccessInv
  OBVIOUS
<1>1. IsFiniteSet({}) /\ Cardinality({}) = 0
  BY FS_EmptySet
<1> QED BY <1>1 DEF AccessInit, AccessInv, AccessTypeOK, TokensAge, NumberedOnce, Remembered,
           WithinQuota

\* Tokens are made of the row as it is, and expire.
LEMMA IssueAges ==
    ASSUME AccessInv, NEW t \in Tenants, tenants[t].active, Issue(AccessToken(t)),
           UNCHANGED <<time, tenants, changed>>
    PROVE  /\ tokens' \subseteq [tenant : Tenants, role : Roles, limit : Limits, exp : Nat]
           /\ TokensAge'
<1> DEFINE k == AccessToken(t)
<1>1. tenants[t] \in Rows
  BY DEF AccessInv, AccessTypeOK
<1>2. k \in [tenant : Tenants, role : Roles, limit : Limits, exp : Nat] /\ k.exp = time + Expiry /\ Known(k)
  BY <1>1, AccessAssumption DEF AccessToken, Known, Rows, AccessInv, AccessTypeOK
<1>3. tokens' = tokens \cup {k}
  BY DEF Issue
<1>4. k.exp <= time' + Expiry
  BY <1>2, AccessAssumption DEF AccessInv, AccessTypeOK
<1> HIDE DEF k
<1> QED BY <1>2, <1>3, <1>4 DEF AccessInv, AccessTypeOK, TokensAge, Known

\* The limiter's cleanup and pruning lose nothing that counts.
LEMMA CountRemembers ==
    ASSUME AccessInv, NEW t \in Tenants, Count(t, Recent(t)), UNCHANGED <<time, admitted>>
    PROVE  recent' \in [Tenants -> SUBSET admitted'] /\ Remembered' /\ lastCleanup' \in Nat
<1>1. \A s \in Tenants : Recent(s) \subseteq recent[s]
  BY DEF Recent, Pruned
<1>2. \A s \in Tenants : recent'[s] \in {Recent(s), recent[s]}
  BY DEF Count
<1>3. recent' \in [Tenants -> SUBSET admitted']
  BY <1>1, <1>2 DEF Count, AccessInv, AccessTypeOK
<1>4. Remembered'
  BY <1>1, <1>2 DEF AccessInv, Remembered, Recent, Pruned
<1> QED BY <1>3, <1>4 DEF Count, AccessInv, AccessTypeOK

\* A request that is let in is remembered, and is within the quota.
LEMMA AdmitKeeps ==
    ASSUME AccessInv, NEW k \in tokens, Admit(k)
    PROVE  /\ admitted' \subseteq [id : Nat, tenant : Tenants, limit : Limits, at : 0..time']
           /\ IsFiniteSet(admitted') /\ recent' \in [Tenants -> SUBSET admitted'] /\ lastCleanup' \in Nat
           /\ NumberedOnce' /\ Remembered' /\ WithinQuota'
<1> DEFINE new == Request(k)
           t   == k.tenant
<1>0. k \in [tenant : Tenants, role : Roles, limit : Limits, exp : Nat] /\ t \in Tenants
  BY DEF AccessInv, AccessTypeOK
<1>1. /\ IsFiniteSet(admitted) /\ Cardinality(admitted) \in Nat
      /\ time \in Nat /\ time' = time
  BY FS_CardinalityType DEF AccessInv, AccessTypeOK, Admit
<1>2. /\ new \in [id : Nat, tenant : Tenants, limit : Limits, at : 0..time]
      /\ new.id = Cardinality(admitted) /\ new.tenant = t /\ new.limit = k.limit /\ new.at = time
  BY <1>0, <1>1 DEF Request
<1>3. admitted' = admitted \cup {new}
  BY DEF Admit
<1>4. new \notin admitted
  BY <1>2, <1>1 DEF AccessInv, NumberedOnce
<1> HIDE DEF new
<1>5. IsFiniteSet(admitted') /\ Cardinality(admitted') = Cardinality(admitted) + 1
  BY <1>1, <1>3, <1>4, FS_AddElement
<1>6. admitted' \subseteq [id : Nat, tenant : Tenants, limit : Limits, at : 0..time']
  BY <1>1, <1>2, <1>3 DEF AccessInv, AccessTypeOK
<1>7. NumberedOnce'
  BY <1>1, <1>2, <1>3, <1>5 DEF AccessInv, AccessTypeOK, NumberedOnce
<1>8. \A s \in Tenants : Recent(s) \subseteq recent[s]
  BY DEF Recent, Pruned
<1>9. Count(t, Recent(t) \cup {new})
  BY DEF Admit, new
<1>10. /\ recent'[t] = Recent(t) \cup {new}
       /\ \A s \in Tenants \ {t} : recent'[s] \in {Recent(s), recent[s]}
  BY <1>0, <1>9 DEF Count
<1>11. recent' \in [Tenants -> SUBSET admitted']
  <2>1. \A s \in Tenants : recent[s] \subseteq admitted
    BY DEF AccessInv, AccessTypeOK
  <2>2. \A s \in Tenants : recent'[s] \subseteq admitted'
    BY <1>3, <1>8, <1>10, <2>1
  <2> QED BY <2>2, <1>9 DEF Count
<1>12. Remembered'
  <2> SUFFICES ASSUME NEW s \in Tenants
               PROVE  /\ \A a \in recent'[s] : a.tenant = s
                      /\ \A a \in admitted' : a.tenant = s /\ a.at > time' - Window => a \in recent'[s]
    BY DEF Remembered
  <2>1. /\ \A a \in Recent(s) : a.tenant = s
        /\ \A a \in admitted : a.tenant = s /\ a.at > time - Window => a \in Recent(s)
    BY DEF AccessInv, Remembered, Recent, Pruned
  <2>2. /\ \A a \in recent[s] : a.tenant = s
        /\ \A a \in admitted : a.tenant = s /\ a.at > time - Window => a \in recent[s]
    BY DEF AccessInv, Remembered
  <2>3. CASE s = t
    BY <2>1, <2>3, <1>1, <1>2, <1>3, <1>10
  <2>4. CASE s # t
    BY <2>1, <2>2, <2>4, <1>1, <1>2, <1>3, <1>10
  <2> QED BY <2>3, <2>4
<1>13. lastCleanup' \in Nat
  BY <1>1, <1>9 DEF Count, AccessInv, AccessTypeOK
<1>14. WithinQuota'
  <2> DEFINE StillCounts(a, s) ==
        {b \in s : b.tenant = a.tenant /\ b.at > a.at - Window /\ b.at <= a.at /\ b.id <= a.id}
  <2>1. ASSUME NEW a \in admitted PROVE Cardinality(StillCounts(a, admitted')) <= a.limit
    <3>1. ~ new.id <= a.id
      BY <1>1, <1>2 DEF AccessInv, AccessTypeOK, NumberedOnce
    <3>2. StillCounts(a, admitted') = StillCounts(a, admitted)
      BY <3>1, <1>3
    <3>3. UpTo(a) = StillCounts(a, admitted)
      BY DEF UpTo, InWindow
    <3> QED BY <3>2, <3>3 DEF AccessInv, WithinQuota
  <2>2. Cardinality(StillCounts(new, admitted')) <= new.limit
    <3>1. \A a \in admitted : a.at <= time /\ a.id <= new.id
      BY <1>1, <1>2 DEF AccessInv, AccessTypeOK, NumberedOnce
    <3>2. new \in StillCounts(new, admitted')
      BY <1>1, <1>2, <1>3, AccessAssumption
    <3>3. StillCounts(new, admitted') = InWindow(t, time) \cup {new}
      BY <3>1, <3>2, <1>2, <1>3 DEF InWindow
    <3>4. Recent(t) = InWindow(t, time) /\ IsFiniteSet(Recent(t)) /\ Cardinality(Recent(t)) \in Nat
      BY <1>0, RecentIsWindow DEF AccessInv
    <3>5. Cardinality(Recent(t)) < new.limit /\ new.limit \in Nat
      BY <1>0, <1>2, AccessAssumption DEF Admit
    <3>6. new \notin Recent(t)
      BY <3>4, <1>4 DEF InWindow
    <3>7. Cardinality(Recent(t) \cup {new}) = Cardinality(Recent(t)) + 1
      BY <3>4, <3>6, FS_AddElement
    <3>8. Cardinality(StillCounts(new, admitted')) = Cardinality(Recent(t)) + 1
      BY <3>3, <3>4, <3>7
    <3> HIDE DEF StillCounts, t
    <3> QED BY <3>4, <3>5, <3>8
  <2>3. \A a \in admitted' : (UpTo(a))' = StillCounts(a, admitted')
    BY DEF UpTo, InWindow
  <2>4. \A a \in admitted' : Cardinality(StillCounts(a, admitted')) <= a.limit
    BY <2>1, <2>2, <1>3
  <2> HIDE DEF StillCounts
  <2> QED BY <2>3, <2>4 DEF WithinQuota
<1> QED BY <1>5, <1>6, <1>7, <1>11, <1>12, <1>13, <1>14 DEF AccessInv, AccessTypeOK, Admit

LEMMA AccessStep == AccessInv /\ [AccessNext]_accessVars => AccessInv'
<1> SUFFICES ASSUME AccessInv, [AccessNext]_accessVars PROVE AccessInv'
  OBVIOUS
<1> USE DEF clientVars, limitVars
<1>1. ASSUME NEW t \in Tenants, ExchangeToken(t) PROVE AccessInv'
  <2>1. /\ tokens' \subseteq [tenant : Tenants, role : Roles, limit : Limits, exp : Nat]
        /\ TokensAge'
    BY <1>1, IssueAges DEF ExchangeToken
  <2>2. RefreshToken(t) \in [tenant : Tenants, exp : Nat]
    BY AccessAssumption DEF RefreshToken, AccessInv, AccessTypeOK
  <2>3. refreshers' \subseteq [tenant : Tenants, exp : Nat] /\ refreshing' \subseteq refreshers'
    BY <1>1, <2>2 DEF ExchangeToken, AccessInv, AccessTypeOK
  <2>4. AccessTypeOK'
    BY <1>1, <2>1, <2>3 DEF ExchangeToken, AccessInv, AccessTypeOK
  <2> QED BY <1>1, <2>1, <2>4 DEF ExchangeToken, AccessInv, NumberedOnce, Remembered, WithinQuota, UpTo, InWindow
<1>2. ASSUME NEW t \in Tenants, ChangeTenant(t) PROVE AccessInv'
  <2>1. PICK row \in Rows : tenants' = [tenants EXCEPT ![t] = row]
    BY <1>2 DEF ChangeTenant
  <2>2. tenants' \in [Tenants -> Rows] /\ \A s \in Tenants \ {t} : tenants'[s] = tenants[s]
    BY <2>1 DEF AccessInv, AccessTypeOK
  <2>3. AccessTypeOK'
    BY <1>2, <2>2 DEF ChangeTenant, AccessInv, AccessTypeOK
  <2>4. TokensAge'
    <3> SUFFICES ASSUME NEW k \in tokens
                 PROVE  /\ k.exp <= time + Expiry
                        /\ (Known(k))' \/ \E at \in 0..time : at >= k.exp - Expiry /\ <<k.tenant, at>> \in changed'
      BY <1>2 DEF ChangeTenant, TokensAge
    <3>1. k \in [tenant : Tenants, role : Roles, limit : Limits, exp : Nat] /\ k.exp <= time + Expiry
          /\ time \in 0..time
      BY DEF AccessInv, AccessTypeOK, TokensAge
    <3>2. CASE k.tenant = t
      <4>1. <<k.tenant, time>> \in changed'
        BY <1>2, <3>2 DEF ChangeTenant
      <4>2. time >= k.exp - Expiry
        BY <3>1, AccessAssumption
      <4> QED BY <3>1, <4>1, <4>2
    <3>3. CASE k.tenant # t
      <4>1. tenants'[k.tenant] = tenants[k.tenant] /\ changed \subseteq changed'
        BY <1>2, <2>2, <3>1, <3>3 DEF ChangeTenant
      <4> QED BY <3>1, <4>1 DEF AccessInv, TokensAge, Known
    <3> QED BY <3>2, <3>3
  <2> QED BY <1>2, <2>3, <2>4 DEF ChangeTenant, AccessInv, NumberedOnce, Remembered, WithinQuota, UpTo, InWindow
<1>3. ASSUME NEW k \in tokens, Admit(k), refreshing' \subseteq refreshers' PROVE AccessInv'
  <2>1. AccessTypeOK'
    BY <1>3, AdmitKeeps DEF Admit, AccessInv, AccessTypeOK
  <2>2. TokensAge'
    BY <1>3 DEF Admit, AccessInv, TokensAge, Known
  <2> QED BY <1>3, <2>1, <2>2, AdmitKeeps DEF AccessInv
<1>4. ASSUME NEW k \in tokens, Refuse(k) PROVE AccessInv'
  <2>1. recent' \in [Tenants -> SUBSET admitted'] /\ Remembered' /\ lastCleanup' \in Nat
    BY <1>4, CountRemembers DEF Refuse, AccessInv, AccessTypeOK
  <2>2. AccessTypeOK'
    BY <1>4, <2>1 DEF Refuse, AccessInv, AccessTypeOK
  <2> QED BY <1>4, <2>1, <2>2 DEF Refuse, AccessInv, TokensAge, Known, NumberedOnce, WithinQuota, UpTo, InWindow
<1>5. ASSUME NEW r \in refreshing, RefreshToAccess(r) PROVE AccessInv'
  <2>1. r.tenant \in Tenants
    BY DEF AccessInv, AccessTypeOK
  <2>2. /\ tokens' \subseteq [tenant : Tenants, role : Roles, limit : Limits, exp : Nat]
        /\ TokensAge'
    <3>1. CASE Decodes(r) /\ tenants[r.tenant].active
      BY <1>5, <2>1, <3>1, IssueAges DEF RefreshToAccess
    <3>2. CASE ~(Decodes(r) /\ tenants[r.tenant].active)
      BY <1>5, <3>2 DEF RefreshToAccess, AccessInv, AccessTypeOK, TokensAge, Known
    <3> QED BY <3>1, <3>2
  <2>3. AccessTypeOK'
    BY <1>5, <2>2 DEF RefreshToAccess, AccessInv, AccessTypeOK
  <2> QED BY <1>5, <2>2, <2>3 DEF RefreshToAccess, AccessInv, NumberedOnce, Remembered, WithinQuota, UpTo, InWindow
<1>6. CASE AccessTick
  <2>1. time \in Nat /\ time' = time + 1
    BY <1>6 DEF AccessTick, AccessInv, AccessTypeOK
  <2>2. AccessTypeOK'
    <3>1. 0..time \subseteq 0..time'
      BY <2>1
    <3>2. admitted' \subseteq [id : Nat, tenant : Tenants, limit : Limits, at : 0..time']
      BY <1>6, <3>1 DEF AccessTick, AccessInv, AccessTypeOK
    <3> QED BY <1>6, <2>1, <3>2 DEF AccessTick, AccessInv, AccessTypeOK
  <2>3. TokensAge'
    <3>1. \A k \in tokens : k.exp \in Nat
      BY DEF AccessInv, AccessTypeOK
    <3>2. tenants' = tenants /\ tokens' = tokens /\ changed' = changed
      BY <1>6 DEF AccessTick, clientVars
    <3>3. ASSUME NEW k \in tokens
          PROVE  /\ k.exp <= time' + Expiry
                 /\ Known(k) \/ \E at \in 0..time' : at >= k.exp - Expiry /\ <<k.tenant, at>> \in changed
      BY <2>1, <3>1, AccessAssumption DEF AccessInv, TokensAge
    <3> QED BY <3>2, <3>3 DEF TokensAge, Known
  <2>4. Remembered'
    <3>1. \A a \in admitted : a.at > time' - Window => a.at > time - Window
      BY <2>1, AccessAssumption DEF AccessInv, AccessTypeOK
    <3> QED BY <1>6, <3>1 DEF AccessTick, AccessInv, Remembered
  <2> QED BY <1>6, <2>2, <2>3, <2>4 DEF AccessTick, AccessInv, NumberedOnce, WithinQuota, UpTo, InWindow
<1>7. CASE UNCHANGED accessVars
  BY <1>7 DEF accessVars, AccessInv, AccessTypeOK, TokensAge, Known, NumberedOnce, Remembered,
     WithinQuota, UpTo, InWindow
<1>8. ASSUME NEW k \in tokens, Read(k) PROVE AccessInv'
  BY <1>3, <1>8 DEF Read, Admit, AccessInv, AccessTypeOK
<1>9. ASSUME NEW k \in tokens, NEW r \in refreshers, AskRefresh(k, r) PROVE AccessInv'
  BY <1>3, <1>9 DEF AskRefresh, Admit, AccessInv, AccessTypeOK
<1> QED BY <1>1, <1>2, <1>4, <1>5, <1>6, <1>7, <1>8, <1>9 DEF AccessNext

\* Every reachable state of the rate limiter and the token service is typed, what is remembered
\* of a tenant is what counts, and a token's age bounds what it says (auth.py).
THEOREM AccessInvariant == AccessSpec => []AccessInv
<1> QED BY AccessInitially, AccessStep, PTL DEF AccessSpec

\* No tenant is let in beyond its quota of the last minute, nor refused within it, whatever the
\* order of requests, refusals and cleanups (RateLimiter.check, _cleanup).
THEOREM QuotaIsKept == AccessSpec => []QuotaKept
<1>1. AccessInv => QuotaKept
  BY RecentIsWindow DEF AccessInv, WithinQuota, UpTo, QuotaKept
<1> QED BY <1>1, AccessInvariant, PTL

\* A tenant that was changed or deactivated is known as it was for no longer than an access
\* token lives, however often tokens are refreshed (exchange_token, refresh_token).
THEOREM TokensDoNotOutliveTheRow == AccessSpec => []ChangesReachTokens
<1>1. AccessInv => ChangesReachTokens
  <2> SUFFICES ASSUME AccessInv, NEW k \in tokens, Decodes(k), ~Known(k)
               PROVE  \E at \in 0..time : at > time - Expiry /\ <<k.tenant, at>> \in changed
    BY DEF ChangesReachTokens, Known
  <2>1. PICK at \in 0..time : at >= k.exp - Expiry /\ <<k.tenant, at>> \in changed
    BY DEF AccessInv, TokensAge
  <2>2. time \in Nat /\ k.exp \in Nat /\ time < k.exp
    BY DEF AccessInv, AccessTypeOK, Decodes
  <2>3. at > time - Expiry
    BY <2>2, <2>1, AccessAssumption
  <2> QED BY <2>1, <2>3
<1> QED BY <1>1, AccessInvariant, PTL

-----------------------------------------------------------------------------
(* CapacityFeed.                                                           *)

Calls == {"update", "search", "create", "associate"}
Deal  == [site : DOMAIN Sites, byFeed : BOOLEAN, found : BOOLEAN, linked : BOOLEAN]

\* The feed is at a call about a site it has, with an attempt left, or asleep.
IsCall(c) ==
    /\ c = [at |-> c.at, site |-> c.site, snapshot |-> c.snapshot, tries |-> c.tries]
    /\ c.at \in Calls \cup {"asleep"}
    /\ c.at # "asleep" => c.site \in DOMAIN Sites /\ c.tries \in Nat \ {0}

\* A deal of the feed is found again exactly when the name of the site holds its id.
FoundByName == \A k \in DOMAIN deals : deals[k].byFeed => deals[k].found = Sites[deals[k].site].named

\* Where a search can be trusted, a deal is only opened when the site has none.
NoneYet ==
    sync.at = "create" /\ sync.site \notin doubtful /\ Sites[sync.site].named
        => Offers(sync.site) = {}

CrmInv == deals \in Seq(Deal) /\ IsCall(sync) /\ FoundByName /\ NoneYet /\ OneOffer

LEMMA CallIsCall ==
    ASSUME NEW at \in Calls, NEW i \in DOMAIN Sites, NEW s
    PROVE  IsCall(Call(at, i, s)) /\ Call(at, i, s).at = at /\ Call(at, i, s).site = i
BY FeedAssumption DEF IsCall, Call, Calls

LEMMA NextSite ==
    ASSUME NEW i \in Nat \ {0}, SyncSite(i)
    PROVE  IsCall(sync') /\ sync'.at \in {"update", "asleep"}
<1>1. CASE i > Len(Sites)
  <2>1. sync' = Asleep
    BY <1>1, FeedAssumption DEF SyncSite
  <2> QED BY <2>1 DEF Asleep, IsCall
<1>2. CASE i <= Len(Sites)
  <2>1. i \in DOMAIN Sites
    BY <1>2, FeedAssumption
  <2>2. ~(i > Len(Sites))
    BY <1>2, FeedAssumption
  <2>3. PICK s \in BuildSnapshot(i) : sync' = Call("update", i, {s})
    BY <2>2, Zenon DEF SyncSite
  <2> QED BY <2>1, <2>3, CallIsCall DEF Calls
<1> QED BY <1>1, <1>2, FeedAssumption

LEMMA Finishes ==
    ASSUME IsCall(sync), sync.at # "asleep", NEW success, NEW created, Finish(success, created)
    PROVE  IsCall(sync') /\ sync'.at \in {"update", "asleep"}
<1>1. sync.site + 1 \in Nat \ {0}
  BY FeedAssumption DEF IsCall
<1> QED BY <1>1, NextSite DEF Finish

LEMMA Goes ==
    ASSUME IsCall(sync), sync.at # "asleep", NEW at \in Calls, Goto(at)
    PROVE  IsCall(sync') /\ sync'.at = at /\ sync'.site = sync.site
<1>1. sync.site \in DOMAIN Sites
  BY DEF IsCall
<1> QED BY <1>1, CallIsCall DEF Goto

\* An attempt more is for the same call; after the last one a search counts as empty, and
\* otherwise the next site is served.
LEMMA TriesAgain ==
    ASSUME IsCall(sync), sync.at # "asleep", TryAgain
    PROVE  /\ IsCall(sync')
           /\ \/ sync.tries > 1 /\ sync'.at = sync.at /\ sync'.site = sync.site
              \/ sync.tries = 1 /\ sync.at = "search" /\ sync'.at = "create" /\ sync'.site = sync.site
              \/ sync'.at \in {"update", "asleep"}
<1>1. CASE sync.tries > 1
  <2>1. sync' = [at |-> sync.at, site |-> sync.site, snapshot |-> sync.snapshot, tries |-> sync.tries - 1]
    BY <1>1 DEF TryAgain, IsCall
  <2> QED BY <1>1, <2>1 DEF IsCall
<1>2. CASE ~(sync.tries > 1)
  <2>1. sync.tries = 1 /\ Raise
    BY <1>2 DEF TryAgain, IsCall
  <2>2. CASE sync.at = "search"
    <3>1. Goto("create")
      BY <2>1, <2>2 DEF Raise
    <3> QED BY <2>1, <2>2, <3>1, Goes DEF Calls
  <2>3. CASE sync.at # "search"
    <3>1. \E success \in BOOLEAN : Finish(success, FALSE)
      BY <2>1, <2>3 DEF Raise
    <3> QED BY <3>1, Finishes
  <2> QED BY <2>2, <2>3
<1> QED BY <1>1, <1>2

\* While the feed's deals stay as they are, what must still be shown is that no creation begins.
LEMMA SameOffers ==
    ASSUME CrmInv, IsCall(sync'), deals' \in Seq(Deal), doubtful \subseteq doubtful',
           DOMAIN deals \subseteq DOMAIN deals',
           \A k \in DOMAIN deals : /\ deals'[k].site = deals[k].site
                                   /\ deals'[k].byFeed = deals[k].byFeed
                                   /\ deals'[k].found = deals[k].found,
           \A k \in DOMAIN deals' \ DOMAIN deals : ~deals'[k].byFeed,
           \/ sync'.at # "create"
           \/ sync'.at = sync.at /\ sync'.site = sync.site
           \/ sync'.site \in doubtful'
           \/ Sites[sync'.site].named => Offers(sync'.site) = {}
    PROVE  CrmInv'
<1>1. \A i : {k \in DOMAIN deals' : deals'[k].site = i /\ deals'[k].byFeed} = Offers(i)
  BY DEF Offers
<1>2. \A i : (Offers(i))' = Offers(i)
  BY <1>1 DEF Offers
<1>3. OneOffer'
  BY <1>2 DEF OneOffer, CrmInv
<1>4. FoundByName'
  BY DEF FoundByName, CrmInv
<1>5. NoneYet'
  <2> SUFFICES ASSUME sync'.at = "create", sync'.site \notin doubtful', Sites[sync'.site].named
               PROVE  Offers(sync'.site) = {}
    BY <1>1 DEF NoneYet, Offers
  <2> QED BY DEF CrmInv, NoneYet
<1> QED BY <1>3, <1>4, <1>5 DEF CrmInv

\* What a call does to the deals: a creation adds one of the feed's, nothing else does.
LEMMA EffectOnDeals ==
    ASSUME CrmInv, Effect
    PROVE  /\ deals' \in Seq(Deal)
           /\ sync.at = "create" =>
                deals' = Append(deals, [site |-> sync.site, byFeed |-> TRUE,
                                        found |-> Sites[sync.site].named, linked |-> FALSE])
           /\ sync.at # "create" =>
                /\ DOMAIN deals' = DOMAIN deals
                /\ \A k \in DOMAIN deals : /\ deals'[k].site = deals[k].site
                                           /\ deals'[k].byFeed = deals[k].byFeed
                                           /\ deals'[k].found = deals[k].found
<1>1. CASE sync.at = "create"
  <2> DEFINE d == [site |-> sync.site, byFeed |-> TRUE, found |-> Sites[sync.site].named, linked |-> FALSE]
  <2>0. sync.site \in DOMAIN Sites
    BY <1>1 DEF CrmInv, IsCall
  <2>1. d \in Deal
    <3>1. Sites[sync.site] \in [capacity : Nat, racks : Nat, named : BOOLEAN]
      <4>1. \A S : Sites \in Seq(S) => Sites[sync.site] \in S
        BY <2>0
      <4> QED BY <4>1, FeedAssumption, Zenon
    <3>2. Sites[sync.site].named \in BOOLEAN
      BY <3>1
    <3> QED BY <2>0, <3>2 DEF Deal
  <2>2. deals' = Append(deals, d)
    BY <1>1 DEF Effect
  <2> HIDE DEF d
  <2>3. deals' \in Seq(Deal)
    BY <2>1, <2>2 DEF CrmInv
  <2> QED BY <1>1, <2>2, <2>3 DEF d
<1>2. CASE sync.at = "associate"
  <2>1. deals' = [deals EXCEPT ![Len(deals)].linked = TRUE]
    BY <1>2 DEF Effect
  <2>2. DOMAIN deals' = DOMAIN deals
    BY <2>1
  <2>3. \A k \in DOMAIN deals : deals[k] \in Deal
    BY DEF CrmInv
  <2>4. \A k \in DOMAIN deals : /\ deals'[k].site = deals[k].site
                                /\ deals'[k].byFeed = deals[k].byFeed
                                /\ deals'[k].found = deals[k].found
                                /\ deals'[k] \in Deal
    BY <2>1, <2>3 DEF Deal
  <2>5. deals' \in Seq(Deal)
    <3>1. Len(deals) \in Nat /\ DOMAIN deals = 1..Len(deals)
      BY DEF CrmInv
    <3>2. deals' \in [1..Len(deals) -> Deal]
      BY <2>1, <2>2, <2>4, <3>1
    <3> QED BY <3>1, <3>2, SeqDef
  <2> QED BY <1>2, <2>2, <2>4, <2>5
<1>3. CASE sync.at \notin {"create", "associate"}
  <2>1. deals' = deals
    BY <1>3 DEF Effect
  <2> QED BY <1>3, <2>1 DEF CrmInv
<1> QED BY <1>1, <1>2, <1>3

\* A creation that is not repeated, of a site that has no offer, leaves it with one.
LEMMA OfferedOnce ==
    ASSUME CrmInv, IsCall(sync'), sync.at = "create", Effect, sync'.at # "create" \/ sync'.site \in doubtful',
           doubtful \subseteq doubtful'
    PROVE  CrmInv'
<1> DEFINE n == Len(deals) + 1
<1>0. PICK i : i = sync.site
  OBVIOUS
<1>1. /\ deals \in Seq(Deal) /\ deals' \in Seq(Deal) /\ i \in DOMAIN Sites
      /\ deals' = Append(deals, [site |-> i, byFeed |-> TRUE, found |-> Sites[i].named, linked |-> FALSE])
  BY <1>0, EffectOnDeals DEF CrmInv, IsCall
<1>2. /\ DOMAIN deals' = DOMAIN deals \cup {n} /\ n \notin DOMAIN deals
      /\ \A k \in DOMAIN deals : deals'[k] = deals[k]
      /\ deals'[n] = [site |-> i, byFeed |-> TRUE, found |-> Sites[i].named, linked |-> FALSE]
  BY <1>1
<1>3. \A j : (Offers(j))' = IF j = i THEN Offers(j) \cup {n} ELSE Offers(j)
  BY <1>2 DEF Offers
<1>4. OneOffer'
  <2> SUFFICES ASSUME NEW j \in DOMAIN Sites, j \notin doubtful', Sites[j].named,
                      NEW k \in (Offers(j))', NEW l \in (Offers(j))'
               PROVE  k = l
    BY DEF OneOffer
  <2>1. CASE j = i
    <3>1. Offers(j) = {}
      BY <1>0, <2>1 DEF CrmInv, NoneYet
    <3> QED BY <1>3, <2>1, <3>1
  <2>2. CASE j # i
    BY <1>3, <2>2 DEF CrmInv, OneOffer
  <2> QED BY <2>1, <2>2
<1>5. FoundByName'
  BY <1>2 DEF FoundByName, CrmInv
<1>6. NoneYet'
  BY DEF NoneYet
<1> QED BY <1>1, <1>4, <1>5, <1>6 DEF CrmInv

LEMMA CrmStep == CrmInv /\ [CrmNext]_crmVars => CrmInv'
<1> SUFFICES ASSUME CrmInv, [CrmNext]_crmVars PROVE CrmInv'
  OBVIOUS
<1>0. IsCall(sync) /\ deals \in Seq(Deal)
  BY DEF CrmInv
<1>1. CASE BeginRound
  <2>1. IsCall(sync') /\ sync'.at \in {"update", "asleep"}
    BY <1>1, NextSite DEF BeginRound
  <2> QED BY <1>0, <1>1, <2>1, SameOffers DEF BeginRound
<1>2. CASE Success
  <2>0. Effect /\ sync.at # "asleep" /\ sync.at \in Calls /\ doubtful' = doubtful
    BY <1>2, <1>0 DEF Success, InCall, IsCall
  <2>1. CASE sync.at = "update"
    <3>1. Goto("search") \/ Finish(TRUE, FALSE)
      BY <1>2, <2>1 DEF Success, AfterUpdate
    <3>2. IsCall(sync') /\ sync'.at \in {"search", "update", "asleep"}
      BY <1>0, <2>0, <3>1, Goes, Finishes DEF Calls
    <3> QED BY <2>0, <2>1, <3>2, EffectOnDeals, SameOffers
  <2>2. CASE sync.at = "search"
    <3>1. CASE Existing(sync.site) # {}
      <4>1. Finish(TRUE, FALSE)
        BY <1>2, <2>2, <3>1 DEF Success, OfferUnlessFound
      <4>2. IsCall(sync') /\ sync'.at \in {"update", "asleep"}
        BY <1>0, <2>0, <4>1, Finishes
      <4> QED BY <2>0, <2>2, <4>2, EffectOnDeals, SameOffers
    <3>2. CASE Existing(sync.site) = {}
      <4>1. Goto("create")
        BY <1>2, <2>2, <3>2 DEF Success, OfferUnlessFound
      <4>2. IsCall(sync') /\ sync'.at = "create" /\ sync'.site = sync.site
        BY <1>0, <2>0, <4>1, Goes DEF Calls
      <4>3. Sites[sync.site].named => Offers(sync.site) = {}
        BY <3>2 DEF CrmInv, FoundByName, Existing, Offers
      <4> QED BY <2>0, <2>2, <4>2, <4>3, EffectOnDeals, SameOffers
    <3> QED BY <3>1, <3>2
  <2>3. CASE sync.at = "create"
    <3>1. Goto("associate")
      BY <1>2, <2>3 DEF Success
    <3>2. IsCall(sync') /\ sync'.at = "associate"
      BY <1>0, <2>0, <3>1, Goes DEF Calls
    <3> QED BY <2>0, <2>3, <3>2, OfferedOnce
  <2>4. CASE sync.at = "associate"
    <3>1. Finish(TRUE, TRUE)
      BY <1>2, <2>4 DEF Success
    <3>2. IsCall(sync') /\ sync'.at \in {"update", "asleep"}
      BY <1>0, <2>0, <3>1, Finishes
    <3> QED BY <2>0, <2>4, <3>2, EffectOnDeals, SameOffers
  <2> QED BY <2>0, <2>1, <2>2, <2>3, <2>4 DEF Calls
<1>3. CASE ClientError
  <2>0. /\ sync.at # "asleep" /\ deals' = deals /\ doubtful \subseteq doubtful'
        /\ sync.at = "search" => sync.site \in doubtful'
    BY <1>3 DEF ClientError, InCall
  <2>1. \/ sync.at = "search" /\ Goto("create")
        \/ Goto("search") \/ \E created \in BOOLEAN : Finish(TRUE, created)
    BY <1>3 DEF ClientError, AfterUpdate
  <2>2. /\ IsCall(sync')
        /\ \/ sync'.at \in {"search", "update", "asleep"}
           \/ sync'.at = "create" /\ sync'.site \in doubtful'
    BY <1>0, <2>0, <2>1, Goes, Finishes DEF Calls
  <2> QED BY <1>0, <2>0, <2>2, SameOffers
<1>4. CASE Unserved
  <2>0. /\ sync.at # "asleep" /\ deals' = deals /\ doubtful \subseteq doubtful' /\ TryAgain
        /\ sync.at = "search" /\ sync.tries = 1 => sync.site \in doubtful'
    BY <1>4 DEF Unserved, InCall
  <2>1. /\ IsCall(sync')
        /\ \/ sync'.at = sync.at /\ sync'.site = sync.site
           \/ sync'.at = "create" /\ sync'.site \in doubtful'
           \/ sync'.at \in {"update", "asleep"}
    BY <1>0, <2>0, TriesAgain
  <2> QED BY <1>0, <2>0, <2>1, SameOffers
<1>5. CASE Lost
  <2>0. /\ sync.at \in {"update", "create", "associate"} /\ Effect /\ TryAgain
        /\ doubtful \subseteq doubtful'
        /\ sync.at = "create" /\ sync.tries > 1 => sync.site \in doubtful'
    BY <1>5 DEF Lost
  <2>1. /\ IsCall(sync')
        /\ \/ sync.tries > 1 /\ sync'.at = sync.at /\ sync'.site = sync.site
           \/ sync'.at \in {"update", "asleep"}
    BY <1>0, <2>0, TriesAgain
  <2>2. CASE sync.at = "create"
    <3>1. sync'.at # "create" \/ sync'.site \in doubtful'
      BY <2>0, <2>1, <2>2
    <3> QED BY <2>0, <2>1, <2>2, <3>1, OfferedOnce
  <2>3. CASE sync.at # "create"
    <3>1. sync'.at # "create"
      BY <2>0, <2>1, <2>3
    <3> QED BY <2>0, <2>1, <2>3, <3>1, EffectOnDeals, SameOffers
  <2> QED BY <2>2, <2>3
<1>6. ASSUME NEW c \in Contracts, Sign(c) PROVE CrmInv'
  BY <1>0, <1>6, SameOffers DEF Sign
<1>7. ASSUME NEW i \in DOMAIN Sites, OfferByHand(i) PROVE CrmInv'
  <2> DEFINE d == [site |-> i, byFeed |-> FALSE, found |-> TRUE, linked |-> TRUE]
  <2>1. d \in Deal /\ deals' = Append(deals, d) /\ sync' = sync /\ doubtful' = doubtful
    BY <1>7 DEF OfferByHand, Deal
  <2>2. ~d.byFeed
    OBVIOUS
  <2> HIDE DEF d
  <2>3. /\ deals' \in Seq(Deal) /\ DOMAIN deals' = DOMAIN deals \cup {Len(deals) + 1}
        /\ \A k \in DOMAIN deals : deals'[k] = deals[k]
        /\ deals'[Len(deals) + 1] = d
    BY <1>0, <2>1
  <2> QED BY <1>0, <2>1, <2>2, <2>3, SameOffers
<1>8. CASE UNCHANGED crmVars
  BY <1>0, <1>8, SameOffers DEF crmVars
<1> QED BY <1>1, <1>2, <1>3, <1>4, <1>5, <1>6, <1>7, <1>8 DEF CrmNext

\* The feed is always at a call it can make, its deals are found again by the site's name, and
\* where a search can be trusted it opens a deal only for a site without one (crm_feed.py).
THEOREM CrmInvariant == CrmSpec => []CrmInv
<1>1. CrmInit => CrmInv
  BY FeedAssumption DEF CrmInit, CrmInv, Asleep, IsCall, FoundByName, NoneYet, OneOffer, Offers
<1> QED BY <1>1, CrmStep, PTL DEF CrmSpec

\* No second deal for a site whose name holds its id, in any interleaving of rounds, contracts,
\* deals opened by hand and failing calls, but for lost searches and repeated creations
\* (_maybe_create_deal).
THEOREM NoSecondDeal == CrmSpec => []OneOffer
<1>1. CrmInv => OneOffer
  BY DEF CrmInv
<1> QED BY <1>1, CrmInvariant, PTL

-----------------------------------------------------------------------------
(* BlockSimulator.                                                         *)

\* What is left of a command when some of its assignments are made.
AfterMode(m)  == <<To("timer", 0), To("v_exp", ValvesFor(m)[1]), To("v_rej", ValvesFor(m)[2])>>
AfterTimer(m) == <<To("v_exp", ValvesFor(m)[1]), To("v_rej", ValvesFor(m)[2])>>
AfterExp(m)   == <<To("v_rej", ValvesFor(m)[2])>>
AfterFault(f) == <<To("effect", f)>>

\* q is r, which begins with the assignment of the variable.
Left(q, variable, r) == q # <<>> /\ Head(q).variable = variable /\ q = r

Whole(q) == \/ \E m \in ThermalModes : Left(q, "mode", SetMode(m))
            \/ \E f \in Faults : Left(q, "fault", ClearFault(f))
ModeRest(q) ==
    \E m \in ThermalModes : \/ Left(q, "mode", SetMode(m)) \/ Left(q, "timer", AfterMode(m))
                           \/ Left(q, "v_exp", AfterTimer(m)) \/ Left(q, "v_rej", AfterExp(m))
FaultRest(q) ==
    \E f \in Faults : Left(q, "fault", ClearFault(f)) \/ Left(q, "effect", AfterFault(f))

SimTypeOK ==
    /\ mode \in ThermalModes /\ valves \in Nat \X Nat
    /\ faults \subseteq Faults
    /\ loop = [at |-> loop.at, todo |-> loop.todo, seen |-> loop.seen]
    /\ loop.at \in {"sleep", "effects", "auto", "serve"}
    /\ loop.todo # <<>> => loop.at = "serve" /\ ModeRest(loop.todo)
    /\ prompt # <<>> => ModeRest(prompt) \/ FaultRest(prompt)
    /\ raced \in BOOLEAN /\ quiet \in 0..2 /\ unmet \in 0..2

\* The mode there will be when the update has made its assignments.
Aim == IF loop.todo # <<>> /\ Head(loop.todo).variable = "mode" THEN Head(loop.todo).value ELSE mode

\* An update in which the prompt sets no mode puts a leaking block in REJECT.
LeakRejects == loop.at = "serve" /\ quiet >= 1 /\ Leaking => Aim = "REJECT"

\* Without demand the first such update leaves MIXED, the second leaves EXPORT too.
DemandEnds ==
    /\ unmet >= 1 => ~demand
    /\ quiet >= 1 /\ unmet >= 1 /\ loop.at = "serve" => Aim # "MIXED"
    /\ quiet = 2 /\ unmet = 2 => IF loop.at = "serve" THEN Aim \notin {"EXPORT", "MIXED"} ELSE mode # "MIXED"

\* The valves stand as the mode says when the assignments of q are made.
ValvesStand(q) ==
    \/ /\ valves = ValvesFor(mode)
       /\ (q = <<>> \/ Whole(q) \/ FaultRest(q))
    \/ Left(q, "timer", AfterMode(mode)) \/ Left(q, "v_exp", AfterTimer(mode))
    \/ Left(q, "v_rej", AfterExp(mode)) /\ valves[1] = ValvesFor(mode)[1]

\* Between two updates no fault shows that is not injected, when those of q are made.
FaultsStand(q) ==
    \/ effects \subseteq faults
    \/ \E f \in Faults : Left(q, "effect", AfterFault(f)) /\ effects \ {f} \subseteq faults

\* As long as the threads do not meet, the prompt's assignments are all made between two
\* updates, and what an update has seen of the faults is what they are.
Apart ==
    ~raced =>
        /\ loop.at = "sleep" => ValvesStand(prompt) /\ FaultsStand(prompt)
        /\ loop.at # "sleep" => (prompt = <<>> \/ Whole(prompt)) /\ ValvesStand(loop.todo)
        /\ loop.at = "effects" => effects \subseteq faults /\ loop.seen = faults
        /\ loop.at \in {"auto", "serve"} => effects = faults

SimInv == SimTypeOK /\ LeakRejects /\ DemandEnds /\ Apart

LEMMA Rests ==
    ASSUME NEW m
    PROVE  /\ SetMode(m) # <<>> /\ Head(SetMode(m)) = To("mode", m) /\ Tail(SetMode(m)) = AfterMode(m)
           /\ AfterMode(m) # <<>> /\ Head(AfterMode(m)) = To("timer", 0) /\ Tail(AfterMode(m)) = AfterTimer(m)
           /\ AfterTimer(m) # <<>> /\ Head(AfterTimer(m)) = To("v_exp", ValvesFor(m)[1])
           /\ Tail(AfterTimer(m)) = AfterExp(m)
           /\ AfterExp(m) # <<>> /\ Head(AfterExp(m)) = To("v_rej", ValvesFor(m)[2]) /\ Tail(AfterExp(m)) = <<>>
           /\ ClearFault(m) # <<>> /\ Head(ClearFault(m)) = To("fault", m) /\ Tail(ClearFault(m)) = AfterFault(m)
           /\ AfterFault(m) # <<>> /\ Head(AfterFault(m)) = To("effect", m) /\ Tail(AfterFault(m)) = <<>>
BY DEF SetMode, AfterMode, AfterTimer, AfterExp, ClearFault, AfterFault

LEMMA Heads ==
    ASSUME NEW m
    PROVE  /\ Head(SetMode(m)).variable = "mode" /\ Head(SetMode(m)).value = m
           /\ Head(AfterMode(m)).variable = "timer"
           /\ Head(AfterTimer(m)).variable = "v_exp" /\ Head(AfterTimer(m)).value = ValvesFor(m)[1]
           /\ Head(AfterExp(m)).variable = "v_rej" /\ Head(AfterExp(m)).value = ValvesFor(m)[2]
           /\ Head(ClearFault(m)).variable = "fault"
           /\ Head(AfterFault(m)).variable = "effect" /\ Head(AfterFault(m)).value = m
BY Rests DEF To

LEMMA Assignments ==
    ASSUME NEW v, NEW x
    PROVE  /\ To(v, x).variable = v /\ To(v, x).value = x
           /\ Assign(To(v, x)) =>
                /\ mode' = IF v = "mode" THEN x ELSE mode
                /\ valves' = IF v = "v_exp" THEN <<x, valves[2]>> ELSE IF v = "v_rej" THEN <<valves[1], x>> ELSE valves
                /\ faults' = IF v = "fault" THEN faults \ {x} ELSE faults
                /\ effects' = IF v = "effect" THEN effects \ {x} ELSE effects
BY DEF To, Assign, Now

LEMMA ValvesTyped == \A m : ValvesFor(m) \in Nat \X Nat /\ ValvesFor(m) = <<ValvesFor(m)[1], ValvesFor(m)[2]>>
BY DEF ValvesFor

LEMMA ModeAssigned ==
    ASSUME SimTypeOK, NEW q, q # <<>>, ModeRest(q), Assign(Head(q))
    PROVE  /\ Tail(q) # <<>> => ModeRest(Tail(q)) /\ Head(Tail(q)).variable # "mode"
           /\ mode' \in ThermalModes /\ valves' \in Nat \X Nat /\ faults' = faults /\ effects' = effects
           /\ mode' = IF Head(q).variable = "mode" THEN Head(q).value ELSE mode
           /\ ValvesStand(q) => (ValvesStand(Tail(q)))'
<1>0. mode \in ThermalModes /\ valves \in Nat \X Nat
  BY DEF SimTypeOK
<1>1. PICK m \in ThermalModes : \/ q = SetMode(m) \/ q = AfterMode(m)
                                \/ q = AfterTimer(m) \/ q = AfterExp(m)
  BY DEF ModeRest, Left
<1>2. CASE q = SetMode(m)
  <2>1. Head(q) = To("mode", m) /\ Tail(q) = AfterMode(m) /\ Head(q).variable = "mode" /\ Head(q).value = m
    BY <1>2, Rests, Heads, Assignments
  <2>2. mode' = m /\ valves' = valves /\ faults' = faults /\ effects' = effects
    BY <2>1, Assignments
  <2>3. Tail(q) # <<>> /\ Head(Tail(q)).variable = "timer"
    <3>1. AfterMode(m) # <<>> /\ Head(AfterMode(m)).variable = "timer"
      BY Rests, Heads
    <3> QED BY <2>1, <3>1
  <2>4. ModeRest(Tail(q))
    BY <2>1, <2>3 DEF ModeRest, Left
  <2>5. (ValvesStand(Tail(q)))'
    BY <2>1, <2>2, <2>3 DEF ValvesStand, Left
  <2> QED BY <1>0, <2>1, <2>2, <2>3, <2>4, <2>5
<1>3. CASE q = AfterMode(m)
  <2>1. Head(q) = To("timer", 0) /\ Tail(q) = AfterTimer(m) /\ Head(q).variable = "timer"
    BY <1>3, Rests, Heads, Assignments
  <2>2. mode' = mode /\ valves' = valves /\ faults' = faults /\ effects' = effects
    BY <2>1, Assignments
  <2>3. Tail(q) # <<>> /\ Head(Tail(q)).variable = "v_exp"
    <3>1. AfterTimer(m) # <<>> /\ Head(AfterTimer(m)).variable = "v_exp"
      BY Rests, Heads
    <3> QED BY <2>1, <3>1
  <2>4. ModeRest(Tail(q))
    BY <2>1, <2>3 DEF ModeRest, Left
  <2>5. ASSUME ValvesStand(q) PROVE (ValvesStand(Tail(q)))'
    <3>1. q = AfterMode(mode)
      BY <2>1, <2>5 DEF ValvesStand, Left, Whole, FaultRest
    <3>2. Tail(q) = AfterTimer(mode')
      BY <2>2, <3>1, Rests
    <3> QED BY <2>3, <3>2 DEF ValvesStand, Left
  <2> QED BY <1>0, <2>1, <2>2, <2>3, <2>4, <2>5
<1>4. CASE q = AfterTimer(m)
  <2>1. /\ Head(q) = To("v_exp", ValvesFor(m)[1]) /\ Tail(q) = AfterExp(m)
        /\ Head(q).variable = "v_exp" /\ Head(q).value = ValvesFor(m)[1]
    BY <1>4, Rests, Heads, Assignments
  <2>2. mode' = mode /\ valves' = <<ValvesFor(m)[1], valves[2]>> /\ faults' = faults /\ effects' = effects
    BY <2>1, Assignments
  <2>3. Tail(q) # <<>> /\ Head(Tail(q)).variable = "v_rej"
    <3>1. AfterExp(m) # <<>> /\ Head(AfterExp(m)).variable = "v_rej"
      BY Rests, Heads
    <3> QED BY <2>1, <3>1
  <2>4. ModeRest(Tail(q))
    BY <2>1, <2>3 DEF ModeRest, Left
  <2>5. ASSUME ValvesStand(q) PROVE (ValvesStand(Tail(q)))'
    <3>1. q = AfterTimer(mode)
      BY <2>1, <2>5 DEF ValvesStand, Left, Whole, FaultRest
    <3>2. Tail(q) = AfterExp(mode') /\ Head(q).value = ValvesFor(mode')[1]
      BY <2>2, <3>1, Rests, Heads
    <3>3. valves'[1] = ValvesFor(mode')[1]
      BY <2>1, <2>2, <3>2
    <3> QED BY <2>3, <3>2, <3>3 DEF ValvesStand, Left
  <2>6. valves' \in Nat \X Nat
    BY <1>0, <2>2, ValvesTyped
  <2> QED BY <1>0, <2>1, <2>2, <2>3, <2>4, <2>5, <2>6
<1>5. CASE q = AfterExp(m)
  <2>1. /\ Head(q) = To("v_rej", ValvesFor(m)[2]) /\ Tail(q) = <<>>
        /\ Head(q).variable = "v_rej" /\ Head(q).value = ValvesFor(m)[2]
    BY <1>5, Rests, Heads, Assignments
  <2>2. mode' = mode /\ valves' = <<valves[1], ValvesFor(m)[2]>> /\ faults' = faults /\ effects' = effects
    BY <2>1, Assignments
  <2>3. ASSUME ValvesStand(q) PROVE (ValvesStand(Tail(q)))'
    <3>1. q = AfterExp(mode) /\ valves[1] = ValvesFor(mode)[1]
      BY <2>1, <2>3 DEF ValvesStand, Left, Whole, FaultRest
    <3>2. Head(q).value = ValvesFor(mode)[2]
      BY <3>1, Heads
    <3>3. valves' = ValvesFor(mode')
      BY <2>1, <2>2, <3>1, <3>2, ValvesTyped
    <3> QED BY <2>1, <3>3 DEF ValvesStand
  <2>4. valves' \in Nat \X Nat
    BY <1>0, <2>2, ValvesTyped
  <2> QED BY <1>0, <2>1, <2>2, <2>3, <2>4
<1> QED BY <1>1, <1>2, <1>3, <1>4, <1>5

LEMMA FaultAssigned ==
    ASSUME SimTypeOK, NEW q, q # <<>>, FaultRest(q), Assign(Head(q))
    PROVE  /\ Tail(q) # <<>> => FaultRest(Tail(q))
           /\ mode' = mode /\ valves' = valves /\ faults' \subseteq faults /\ effects' \subseteq effects
           /\ ValvesStand(q) => (ValvesStand(Tail(q)))'
           /\ FaultsStand(q) => (FaultsStand(Tail(q)))'
<1>1. PICK f \in Faults : q = ClearFault(f) \/ q = AfterFault(f)
  BY DEF FaultRest, Left
<1>2. CASE q = ClearFault(f)
  <2>1. Head(q) = To("fault", f) /\ Tail(q) = AfterFault(f) /\ Head(q).variable = "fault"
    BY <1>2, Rests, Heads, Assignments
  <2>2. mode' = mode /\ valves' = valves /\ faults' = faults \ {f} /\ effects' = effects
    BY <2>1, Assignments
  <2>3. Tail(q) # <<>> /\ Head(Tail(q)).variable = "effect"
    <3>1. AfterFault(f) # <<>> /\ Head(AfterFault(f)).variable = "effect"
      BY Rests, Heads, Zenon
    <3> QED BY <2>1, <3>1
  <2>4. FaultRest(Tail(q))
    BY <2>1, <2>3 DEF FaultRest, Left
  <2>5. ValvesStand(q) => (ValvesStand(Tail(q)))'
    BY <2>1, <2>2, <2>4 DEF ValvesStand, Left
  <2>6. FaultsStand(q) => (FaultsStand(Tail(q)))'
    BY <2>1, <2>2, <2>3 DEF FaultsStand, Left
  <2> QED BY <2>2, <2>4, <2>5, <2>6
<1>3. CASE q = AfterFault(f)
  <2>1. Head(q) = To("effect", f) /\ Tail(q) = <<>> /\ Head(q).variable = "effect"
    BY <1>3, Rests, Heads, Assignments
  <2>2. mode' = mode /\ valves' = valves /\ faults' = faults /\ effects' = effects \ {f}
    BY <2>1, Assignments
  <2>3. ValvesStand(q) => (ValvesStand(Tail(q)))'
    BY <2>1, <2>2 DEF ValvesStand, Left
  <2>4. ASSUME FaultsStand(q) PROVE (FaultsStand(Tail(q)))'
    <3>1. CASE effects \subseteq faults
      BY <2>2, <3>1 DEF FaultsStand
    <3>2. ASSUME NEW g \in Faults, q = AfterFault(g), effects \ {g} \subseteq faults
          PROVE  (FaultsStand(Tail(q)))'
      <4>1. Head(AfterFault(f)).value = f /\ Head(AfterFault(g)).value = g
        BY Heads, Zenon
      <4>2. g = f
        BY <1>3, <3>2, <4>1
      <4> QED BY <2>2, <3>2, <4>2 DEF FaultsStand
    <3> QED BY <2>4, <3>1, <3>2 DEF FaultsStand, Left
  <2> QED BY <2>1, <2>2, <2>3, <2>4
<1> QED BY <1>1, <1>2, <1>3

\* What an update decides on is what the mode is to be.
LEMMA DecidedIsAim ==
    ASSUME SimTypeOK, Decide
    PROVE  AutoMode \in ThermalModes /\ Aim' = AutoMode
<1>1. AutoMode \in ThermalModes
  BY DEF SimTypeOK, AutoMode, ModeByDemand, ThermalModes
<1>2. loop'.todo = IF AutoMode = mode THEN <<>> ELSE SetMode(AutoMode)
  BY DEF Decide, SimTypeOK
<1>3. SetMode(AutoMode) # <<>> /\ Head(SetMode(AutoMode)).variable = "mode" /\ Head(SetMode(AutoMode)).value = AutoMode
  BY Rests, Heads, Zenon
<1>4. mode' = mode
  BY DEF Decide, plcVars
<1> QED BY <1>1, <1>2, <1>3, <1>4 DEF Aim

LEMMA DecideKeeps == ASSUME SimInv, Decide PROVE SimInv'
<1> USE DEF plcVars, obsVars
<1>1. /\ loop' = [at |-> "serve", todo |-> loop'.todo, seen |-> loop.seen]
      /\ loop'.todo = IF AutoMode = mode THEN <<>> ELSE SetMode(AutoMode)
      /\ loop.at = "auto" /\ loop.todo = <<>>
  BY DEF Decide, Stands, SimInv, SimTypeOK
<1>2. AutoMode \in ThermalModes /\ Aim' = AutoMode
  BY DecidedIsAim DEF SimInv
<1>3. loop'.todo # <<>> => Left(loop'.todo, "mode", SetMode(AutoMode))
  <2>1. Head(SetMode(AutoMode)).variable = "mode"
    BY Heads, Zenon
  <2> QED BY <1>1, <2>1 DEF Left
<1>4. SimTypeOK'
  BY <1>1, <1>2, <1>3 DEF Decide, SimInv, SimTypeOK, ModeRest
<1>5. LeakRejects'
  <2>1. Leaking => AutoMode = "REJECT"
    BY DEF AutoMode
  <2> QED BY <1>2, <2>1 DEF LeakRejects, Leaking, Decide
<1>6. DemandEnds'
  <2>1. ~demand => /\ AutoMode # "MIXED"
                   /\ mode # "MIXED" => AutoMode # "EXPORT"
    BY DEF AutoMode, ModeByDemand
  <2> QED BY <1>1, <1>2, <2>1 DEF DemandEnds, Decide, SimInv, SimTypeOK
<1>7. Apart'
  <2> SUFFICES ASSUME ~raced
               PROVE  /\ prompt' = <<>> \/ Whole(prompt')
                      /\ (ValvesStand(loop.todo))'
                      /\ effects' = faults'
    BY <1>1 DEF Apart, Decide
  <2>1. /\ prompt = <<>> \/ Whole(prompt)
        /\ valves = ValvesFor(mode) /\ effects = faults
    BY <1>1 DEF SimInv, Apart, ValvesStand, Left
  <2>2. loop'.todo = <<>> \/ Whole(loop'.todo)
    BY <1>2, <1>3 DEF Whole
  <2> QED BY <2>1, <2>2 DEF Decide, ValvesStand
<1> QED BY <1>4, <1>5, <1>6, <1>7 DEF SimInv

LEMMA LoopAssignsKeeps == ASSUME SimInv, LoopAssigns PROVE SimInv'
<1> USE DEF obsVars
<1>0. PICK q : q = loop.todo
  OBVIOUS
<1>1. /\ SimTypeOK /\ q # <<>> /\ ModeRest(q) /\ Assign(Head(q)) /\ loop.at = "serve"
      /\ loop' = [at |-> "serve", todo |-> Tail(q), seen |-> loop.seen]
  BY <1>0 DEF LoopAssigns, SimInv, SimTypeOK
<1>2. /\ Tail(q) # <<>> => ModeRest(Tail(q)) /\ Head(Tail(q)).variable # "mode"
      /\ mode' \in ThermalModes /\ valves' \in Nat \X Nat /\ faults' = faults /\ effects' = effects
      /\ mode' = IF Head(q).variable = "mode" THEN Head(q).value ELSE mode
      /\ ValvesStand(q) => (ValvesStand(Tail(q)))'
  BY <1>1, ModeAssigned
<1>3. SimTypeOK'
  <2>1. /\ loop' = [at |-> loop'.at, todo |-> loop'.todo, seen |-> loop'.seen]
        /\ loop'.at = "serve" /\ (loop'.todo # <<>> => ModeRest(loop'.todo))
    BY <1>1, <1>2
  <2> QED BY <1>2, <2>1 DEF LoopAssigns, SimInv, SimTypeOK
<1>4. Aim' = Aim
  BY <1>0, <1>1, <1>2 DEF Aim
<1>5. LeakRejects'
  BY <1>1, <1>2, <1>4 DEF LoopAssigns, SimInv, LeakRejects, Leaking
<1>6. DemandEnds'
  BY <1>1, <1>2, <1>4 DEF LoopAssigns, SimInv, DemandEnds
<1>7. Apart'
  <2>1. (ValvesStand(loop.todo))' = (ValvesStand(Tail(q)))'
    BY <1>1
  <2> QED BY <1>0, <1>1, <1>2 DEF LoopAssigns, SimInv, Apart, ValvesStand
<1> QED BY <1>3, <1>5, <1>6, <1>7 DEF SimInv

LEMMA PromptAssignsKeeps == ASSUME SimInv, PromptAssigns PROVE SimInv'
<1>0. PICK q : q = prompt
  OBVIOUS
<1>1. /\ SimTypeOK /\ q # <<>> /\ (ModeRest(q) \/ FaultRest(q))
      /\ Assign(Head(q)) /\ prompt' = Tail(q) /\ loop' = loop /\ unmet' = unmet /\ demand' = demand
      /\ quiet' = IF Head(q).variable \in {"fault", "effect"} THEN quiet ELSE 0
  BY <1>0 DEF PromptAssigns, SimInv, SimTypeOK
<1>2. /\ Tail(q) # <<>> => ModeRest(Tail(q)) \/ FaultRest(Tail(q))
      /\ mode' \in ThermalModes /\ valves' \in Nat \X Nat /\ faults' \subseteq faults
      /\ ValvesStand(q) => (ValvesStand(Tail(q)))'
      /\ FaultsStand(q) => (FaultsStand(Tail(q)))'
  <2>1. CASE ModeRest(q)
    <3>1. Head(q).variable # "effect"
      BY <2>1 DEF ModeRest, Left
    <3>2. FaultsStand(q) => effects \subseteq faults
      BY <3>1 DEF FaultsStand, Left
    <3>3. faults' = faults /\ effects' = effects
      BY <1>1, <2>1, ModeAssigned
    <3>4. FaultsStand(q) => (FaultsStand(Tail(q)))'
      BY <3>2, <3>3 DEF FaultsStand
    <3> QED BY <1>1, <2>1, <3>3, <3>4, ModeAssigned
  <2>2. CASE FaultRest(q)
    BY <1>1, <2>2, FaultAssigned DEF SimTypeOK
  <2> QED BY <1>1, <2>1, <2>2
<1>3. raced' \in BOOLEAN /\ (~raced' => ~raced /\ loop.at = "sleep")
  BY DEF PromptAssigns, SimInv, SimTypeOK
<1>4. SimTypeOK'
  BY <1>1, <1>2, <1>3 DEF SimTypeOK
<1>8. quiet' = 0 \/ (quiet' = quiet /\ mode' = mode /\ effects' \subseteq effects)
  <2>1. CASE Head(q).variable \in {"fault", "effect"}
    <3>1. FaultRest(q)
      BY <1>1, <2>1 DEF ModeRest, Left
    <3> QED BY <1>1, <2>1, <3>1, FaultAssigned DEF SimTypeOK
  <2>2. CASE Head(q).variable \notin {"fault", "effect"}
    BY <1>1, <2>2
  <2> QED BY <2>1, <2>2
<1>5. LeakRejects'
  BY <1>1, <1>8 DEF SimInv, LeakRejects, Leaking, Aim
<1>6. DemandEnds'
  BY <1>1, <1>8 DEF SimInv, DemandEnds, Aim
<1>7. Apart'
  <2>1. (ValvesStand(prompt))' = (ValvesStand(Tail(q)))' /\ (FaultsStand(prompt))' = (FaultsStand(Tail(q)))'
    BY <1>1
  <2> QED BY <1>0, <1>1, <1>2, <1>3, <2>1 DEF SimInv, Apart
<1> QED BY <1>4, <1>5, <1>6, <1>7 DEF SimInv

LEMMA TickKeeps == ASSUME SimInv, Tick PROVE SimInv'
<1>1. /\ loop' = [at |-> "effects", todo |-> <<>>, seen |-> faults]
      /\ loop.at = "sleep" /\ loop.todo = <<>>
  BY DEF Tick, Stands, SimInv, SimTypeOK
<1>2. raced' \in BOOLEAN /\ (~raced' => ~raced /\ prompt = <<>>)
  BY DEF Tick, SimInv, SimTypeOK
<1>3. SimTypeOK'
  BY <1>1, <1>2 DEF Tick, SimInv, SimTypeOK
<1>4. LeakRejects'
  BY <1>1 DEF LeakRejects
<1>5. DemandEnds'
  BY <1>1 DEF Tick, SimInv, DemandEnds
<1>6. Apart'
  BY <1>1, <1>2 DEF Tick, SimInv, Apart, ValvesStand, FaultsStand, Left
<1> QED BY <1>3, <1>4, <1>5, <1>6 DEF SimInv

LEMMA TakeEffectKeeps == ASSUME SimInv, TakeEffect PROVE SimInv'
<1> USE DEF obsVars
<1>1. /\ loop' = [at |-> "auto", todo |-> <<>>, seen |-> {}]
      /\ loop.at = "effects" /\ loop.todo = <<>> /\ effects' = effects \cup loop.seen
  BY DEF TakeEffect, Stands, SimInv, SimTypeOK
<1>2. SimTypeOK'
  BY <1>1 DEF TakeEffect, SimInv, SimTypeOK
<1>3. LeakRejects'
  BY <1>1 DEF LeakRejects
<1>4. DemandEnds'
  BY <1>1 DEF TakeEffect, SimInv, DemandEnds
<1>5. Apart'
  BY <1>1 DEF TakeEffect, SimInv, Apart, ValvesStand
<1> QED BY <1>2, <1>3, <1>4, <1>5 DEF SimInv

LEMMA UpdateKeeps == ASSUME SimInv, UpdateRegisters PROVE SimInv'
<1> USE DEF plcVars
<1>1. /\ loop' = [at |-> "sleep", todo |-> <<>>, seen |-> loop.seen]
      /\ loop.at = "serve" /\ loop.todo = <<>> /\ Aim = mode
  BY DEF UpdateRegisters, Stands, Move, SimInv, SimTypeOK, Aim
<1>2. quiet' \in 0..2 /\ unmet' \in 0..2
  BY DEF UpdateRegisters, Least, SimInv, SimTypeOK
<1>3. SimTypeOK'
  BY <1>1, <1>2 DEF UpdateRegisters, SimInv, SimTypeOK
<1>4. LeakRejects'
  BY <1>1 DEF LeakRejects
<1>5. DemandEnds'
  <2>1. unmet' >= 1 => ~demand
    BY DEF UpdateRegisters
  <2>2. quiet' = 2 => quiet >= 1
    BY DEF UpdateRegisters, Least, SimInv, SimTypeOK
  <2>3. unmet' = 2 => unmet >= 1
    BY DEF UpdateRegisters, Least, SimInv, SimTypeOK
  <2> QED BY <1>1, <2>1, <2>2, <2>3 DEF UpdateRegisters, SimInv, DemandEnds
<1>6. Apart'
  <2>1. raced' = raced /\ mode' = mode /\ valves' = valves /\ prompt' = prompt /\ effects' = effects /\ faults' = faults
    BY DEF UpdateRegisters
  <2>2. ~raced => valves = ValvesFor(mode) /\ effects = faults /\ (prompt = <<>> \/ Whole(prompt))
    BY <1>1 DEF SimInv, Apart, ValvesStand, Left
  <2> QED BY <1>1, <2>1, <2>2 DEF Apart, ValvesStand, FaultsStand
<1> QED BY <1>3, <1>4, <1>5, <1>6 DEF SimInv

LEMMA TimedEventKeeps == ASSUME SimInv, NEW e \in Scenario, TimedEvent(e) PROVE SimInv'
<1>1. /\ loop' = loop /\ loop.at = "sleep" /\ prompt' = prompt /\ mode' = mode /\ valves' = valves /\ quiet' = quiet
  BY DEF TimedEvent, Stands
<1>2. raced' \in BOOLEAN /\ (~raced' => ~raced /\ prompt = <<>>)
  BY DEF TimedEvent, SimInv, SimTypeOK
<1>3. /\ faults' \subseteq Faults /\ unmet' \in 0..2
      /\ unmet' = 0 \/ (unmet' = unmet /\ demand' = demand)
      /\ effects \subseteq faults => effects' \subseteq faults'
  <2>1. CASE e = "demand"
    BY <2>1 DEF TimedEvent, HostTurns, SimInv, SimTypeOK
  <2>2. CASE e # "demand"
    <3>1. e \in Faults
      BY <2>2, DwellAssumption DEF Faults
    <3>2. /\ faults' = IF e \in faults THEN faults \ {e} ELSE faults \cup {e}
          /\ effects' = effects \ (faults \cap {e}) /\ unmet' = unmet /\ demand' = demand
      BY <2>2 DEF TimedEvent
    <3>3. faults' \subseteq Faults
      BY <3>1, <3>2 DEF SimInv, SimTypeOK
    <3>4. effects \subseteq faults => effects' \subseteq faults'
      BY <3>2
    <3> QED BY <3>2, <3>3, <3>4 DEF SimInv, SimTypeOK
  <2> QED BY <2>1, <2>2
<1>4. SimTypeOK'
  BY <1>1, <1>2, <1>3 DEF SimInv, SimTypeOK
<1>5. LeakRejects'
  BY <1>1 DEF LeakRejects
<1>6. DemandEnds'
  BY <1>1, <1>3 DEF SimInv, DemandEnds
<1>7. Apart'
  BY <1>1, <1>2, <1>3 DEF SimInv, Apart, ValvesStand, FaultsStand, Left
<1> QED BY <1>4, <1>5, <1>6, <1>7 DEF SimInv

LEMMA CommandKeeps == ASSUME SimInv, NEW q, Whole(q), Command(q) PROVE SimInv'
<1> USE DEF plcVars
<1>1. q # <<>> /\ (ModeRest(q) \/ FaultRest(q))
  BY DEF Whole, ModeRest, FaultRest, Left
<1>2. prompt = <<>> /\ prompt' = q
  BY DEF Command, NewCommand
<1>3. /\ mode' = mode /\ valves' = valves /\ faults' = faults /\ effects' = effects /\ loop' = loop
      /\ demand' = demand /\ raced' = raced /\ quiet' = quiet /\ unmet' = unmet
  BY DEF Command
<1>4. SimTypeOK'
  BY <1>1, <1>2, <1>3 DEF SimInv, SimTypeOK
<1>5. LeakRejects' /\ DemandEnds'
  BY <1>3 DEF SimInv, LeakRejects, DemandEnds, Leaking, Aim
<1>6. Apart'
  BY <1>2, <1>3 DEF SimInv, Apart, ValvesStand, FaultsStand, Left
<1> QED BY <1>4, <1>5, <1>6 DEF SimInv

\* A single assignment of the prompt, of the host's demand or of a fault.
LEMMA AtOnceKeeps ==
    ASSUME SimInv, prompt = <<>>, quiet' = quiet, unmet' = 0 \/ (unmet' = unmet /\ demand' = demand),
           raced' = (raced \/ loop.at # "sleep"), faults \subseteq faults', faults' \subseteq Faults,
           UNCHANGED <<mode, valves, effects, loop, prompt>>
    PROVE  SimInv'
<1>1. raced' \in BOOLEAN /\ (~raced' => ~raced /\ loop.at = "sleep")
  BY DEF SimInv, SimTypeOK
<1>2. unmet' \in 0..2
  BY DEF SimInv, SimTypeOK
<1>3. SimTypeOK'
  BY <1>1, <1>2 DEF SimInv, SimTypeOK
<1>4. LeakRejects' /\ DemandEnds'
  BY DEF SimInv, LeakRejects, DemandEnds, Leaking, Aim
<1>5. Apart'
  BY <1>1 DEF SimInv, Apart, ValvesStand, FaultsStand, Left
<1> QED BY <1>3, <1>4, <1>5 DEF SimInv

LEMMA SimStep == SimInv /\ [SimNext]_simVars => SimInv'
<1> SUFFICES ASSUME SimInv, [SimNext]_simVars PROVE SimInv'
  OBVIOUS
<1>1. ASSUME NEW m \in ThermalModes, Command(SetMode(m)) PROVE SimInv'
  <2>1. SetMode(m) # <<>> /\ Head(SetMode(m)).variable = "mode"
    BY Rests, Heads, Zenon
  <2>2. Whole(SetMode(m))
    BY <2>1 DEF Whole, Left
  <2> QED BY <1>1, <2>2, CommandKeeps
<1>2. ASSUME NEW f \in Faults, Command(ClearFault(f)) PROVE SimInv'
  <2>1. ClearFault(f) # <<>> /\ Head(ClearFault(f)).variable = "fault" /\ f \in Faults
    BY Rests, Heads, Zenon DEF SimInv, SimTypeOK
  <2>2. Whole(ClearFault(f))
    BY <2>1 DEF Whole, Left
  <2> QED BY <1>2, <2>2, CommandKeeps
<1>3. ASSUME NEW f \in Faults, InjectFault(f) PROVE SimInv'
  BY <1>3, AtOnceKeeps DEF InjectFault, NewCommand, SimInv, SimTypeOK
<1>4. CASE ToggleDemand
  BY <1>4, AtOnceKeeps DEF ToggleDemand, NewCommand, HostTurns, plcVars, SimInv, SimTypeOK
<1>5. CASE UNCHANGED simVars
  <2> USE DEF simVars, plcVars, obsVars
  <2>1. SimTypeOK'
    BY <1>5 DEF SimInv, SimTypeOK
  <2>2. LeakRejects' /\ DemandEnds'
    BY <1>5 DEF SimInv, LeakRejects, DemandEnds, Leaking, Aim
  <2>3. Apart'
    BY <1>5 DEF SimInv, Apart, ValvesStand, FaultsStand
  <2> QED BY <2>1, <2>2, <2>3 DEF SimInv
<1> QED BY <1>1, <1>2, <1>3, <1>4, <1>5, TickKeeps, TakeEffectKeeps, DecideKeeps, LoopAssignsKeeps,
           UpdateKeeps, TimedEventKeeps, PromptAssignsKeeps DEF SimNext

\* What is decided is what will be served, the two threads' assignments each arrive in their
\* order, and as long as the threads do not meet each finds the other's complete
\* (modbus_simulator.py).
THEOREM SimulatorInvariant == SimSpec => []SimInv
<1>1. SimInit => SimInv
  <2> SUFFICES ASSUME SimInit PROVE SimInv
    OBVIOUS
  <2>1. SimTypeOK
    <3>1. mode \in ThermalModes /\ valves \in Nat \X Nat
      BY ValvesTyped DEF SimInit, ThermalModes
    <3>2. /\ loop = [at |-> loop.at, todo |-> loop.todo, seen |-> loop.seen]
          /\ loop.at = "sleep" /\ loop.todo = <<>>
      BY DEF SimInit
    <3>3. faults \subseteq Faults /\ prompt = <<>> /\ raced \in BOOLEAN
      BY DEF SimInit
    <3>4. quiet \in 0..2 /\ unmet \in 0..2
      BY DEF SimInit
    <3> QED BY <3>1, <3>2, <3>3, <3>4 DEF SimTypeOK
  <2> QED BY <2>1 DEF SimInit, SimInv, LeakRejects, DemandEnds, Apart, ValvesStand, FaultsStand
<1> QED BY <1>1, SimStep, PTL DEF SimSpec

\* A block that leaks is served as REJECT and a host that wants no heat as given none, whatever
\* is typed when; valves and faults are served as they are until the threads meet
\* (auto_mode_transitions, build_register_block).
THEOREM RegistersStaySafe == SimSpec => []RegistersAreSafe
<1>1. SimInv => RegistersAreSafe
  <2> SUFFICES ASSUME SimInv, Stands("serve") PROVE RegistersAreSafe
    BY DEF RegistersAreSafe
  <2>1. Aim = mode /\ loop.at = "serve" /\ loop.todo = <<>>
    BY DEF Stands, Aim
  <2>2. Registers.leak = Leaking /\ Registers.mode = mode /\ Registers.valves = valves
        /\ Registers.standby = ("pump_trip" \in effects) /\ Registers.hostValve = IF demand THEN 100 ELSE 0
    BY DEF Registers
  <2>3. Leaking /\ quiet >= 1 => mode = "REJECT"
    BY <2>1 DEF SimInv, LeakRejects
  <2>4. quiet = 2 /\ unmet = 2 => ~demand /\ mode \notin {"EXPORT", "MIXED"}
    BY <2>1 DEF SimInv, DemandEnds
  <2>5. ~raced => valves = ValvesFor(mode) /\ effects = faults
    BY <2>1 DEF SimInv, Apart, ValvesStand, Left
  <2> QED BY <2>2, <2>3, <2>4, <2>5 DEF RegistersAreSafe, Leaking
<1> QED BY <1>1, SimulatorInvariant, PTL

-----------------------------------------------------------------------------
(* Sums.  SumFunction of the community modules takes the elements in the    *)
(* order CHOOSE gives; which order that is does not matter.                *)

\* A set of naturals has a least one.
LEMMA LeastNatural ==
    ASSUME NEW N \in SUBSET Nat, N # {}
    PROVE  \E n \in N : \A m \in N : n <= m
<1>1. PICK n \in N : \A m \in N : <<m, n>> \notin OpToRel(<, Nat)
  BY NatLessThanWellFounded, WFMin
<1>2. \A m \in N : ~ (m < n)
  BY <1>1 DEF OpToRel
<1> QED BY <1>2

\* A set of subsets of a finite set has a smallest one.
LEMMA SmallestSubset ==
    ASSUME NEW S, IsFiniteSet(S), NEW B \in SUBSET SUBSET S, B # {}
    PROVE  \E s \in B : \A t \in B : t \subseteq s => t = s
<1>1. IsWellFoundedOn(StrictSubsetOrdering(S), SUBSET S)
  BY FS_StrictSubsetOrderingWellFounded, FS_FiniteSubsetsOfFinite
<1>2. PICK s \in B : \A t \in B : <<t, s>> \notin StrictSubsetOrdering(S)
  BY <1>1, WFMin
<1> QED BY <1>2 DEF StrictSubsetOrdering

\* The partial sums of f: the element left out next is the one CHOOSE gives.
NextOf(s) == CHOOSE x \in s : TRUE
IsSums(g, f, B) == g = [s \in B |-> IF s = {} THEN 0 ELSE f[NextOf(s)] + g[s \ {NextOf(s)}]]

LEMMA NextIn == ASSUME NEW s, s # {} PROVE NextOf(s) \in s
BY DEF NextOf

LEMMA SumsExist ==
    ASSUME NEW S, IsFiniteSet(S), NEW f
    PROVE  \E g : IsSums(g, f, SUBSET S)
<1> DEFINE Upto(n) == {s \in SUBSET S : Cardinality(s) <= n}
           Unlike == {n \in Nat : ~ \E g : IsSums(g, f, Upto(n))}
<1>0. \A s \in SUBSET S : IsFiniteSet(s) /\ Cardinality(s) \in Nat /\ Cardinality(s) <= Cardinality(S)
  BY FS_Subset, FS_CardinalityType
<1>1. Unlike = {}
  <2> SUFFICES ASSUME Unlike # {} PROVE FALSE
    OBVIOUS
  <2>1. PICK n \in Unlike : \A m \in Unlike : n <= m
    BY LeastNatural
  <2>2. CASE n = 0
    <3>1. \A s \in Upto(0) : s = {}
      BY <1>0, FS_EmptySet
    <3>2. IsSums([s \in Upto(0) |-> 0], f, Upto(0))
      BY <3>1 DEF IsSums
    <3> QED BY <2>1, <2>2, <3>2
  <2>3. CASE n # 0
    <3>0. Unlike \subseteq Nat
      OBVIOUS
    <3>1. n - 1 \in Nat /\ n - 1 \notin Unlike
      <4> HIDE DEF Unlike
      <4> QED BY <2>1, <2>3, <3>0
    <3>2. PICK g : IsSums(g, f, Upto(n - 1))
      BY <3>1
    <3> DEFINE h == [s \in Upto(n) |-> IF s \in Upto(n - 1) THEN g[s] ELSE f[NextOf(s)] + g[s \ {NextOf(s)}]]
    <3>3. \A s \in Upto(n) : s # {} => s \ {NextOf(s)} \in Upto(n - 1)
      <4> SUFFICES ASSUME NEW s \in Upto(n), s # {} PROVE s \ {NextOf(s)} \in Upto(n - 1)
        OBVIOUS
      <4>1. Cardinality(s \ {NextOf(s)}) = Cardinality(s) - 1
        BY <1>0, FS_RemoveElement, NextIn
      <4> QED BY <1>0, <4>1, <3>1
    <3>4. \A s \in Upto(n) : h[s] = IF s = {} THEN 0 ELSE f[NextOf(s)] + h[s \ {NextOf(s)}]
      <4> SUFFICES ASSUME NEW s \in Upto(n) PROVE h[s] = IF s = {} THEN 0 ELSE f[NextOf(s)] + h[s \ {NextOf(s)}]
        OBVIOUS
      <4>1. Upto(n - 1) \subseteq Upto(n)
        BY <1>0, <3>1
      <4>2. {} \in Upto(n - 1)
        BY <3>1, FS_EmptySet
      <4>3. s # {} => h[s \ {NextOf(s)}] = g[s \ {NextOf(s)}]
        BY <3>3, <4>1
      <4>4. CASE s \in Upto(n - 1)
        <5>1. h[s] = g[s]
          BY <4>4
        <5>2. g[s] = IF s = {} THEN 0 ELSE f[NextOf(s)] + g[s \ {NextOf(s)}]
          BY <3>2, <4>4 DEF IsSums
        <5> HIDE DEF h
        <5> QED BY <5>1, <5>2, <4>3
      <4>5. CASE s \notin Upto(n - 1)
        <5>1. s # {} /\ h[s] = f[NextOf(s)] + g[s \ {NextOf(s)}]
          BY <4>5, <4>2
        <5> HIDE DEF h
        <5> QED BY <5>1, <4>3
      <4> QED BY <4>4, <4>5
    <3>5. IsSums(h, f, Upto(n))
      <4>1. h = [s \in Upto(n) |-> h[s]]
        OBVIOUS
      <4> HIDE DEF h
      <4> QED BY <3>4, <4>1 DEF IsSums
    <3> QED BY <2>1, <3>5
  <2> QED BY <2>2, <2>3
<1>2. SUBSET S = Upto(Cardinality(S)) /\ Cardinality(S) \in Nat
  BY <1>0
<1> QED BY <1>1, <1>2

LEMMA SumIsLast ==
    ASSUME NEW f, IsFiniteSet(DOMAIN f)
    PROVE  \E g : IsSums(g, f, SUBSET DOMAIN f) /\ SumFunction(f) = g[DOMAIN f]
<1> DEFINE S == DOMAIN f
           P(h) == h = [s \in SUBSET S |-> IF s = {} THEN 0 ELSE f[CHOOSE x \in s : TRUE] + h[s \ {CHOOSE x \in s : TRUE}]]
<1>1. \E h : P(h)
  <2>1. \E h : IsSums(h, f, SUBSET S)
    BY SumsExist
  <2> QED BY <2>1, Zenon DEF IsSums, NextOf
<1>2. P(CHOOSE h : P(h))
  BY <1>1, Zenon
<1>3. SumFunction(f) = (CHOOSE h : P(h))[S]
  BY DEF SumFunction, SumFunctionOnSet, FoldFunctionOnSet, MapThenFoldSet
<1>4. IsSums(CHOOSE h : P(h), f, SUBSET S)
  BY <1>2 DEF IsSums, NextOf
<1> QED BY <1>3, <1>4

\* The order in which a sum is taken does not matter.
LEMMA SumsInAnyOrder ==
    ASSUME NEW f, NEW S, IsFiniteSet(S), \A x \in S : f[x] \in Int, NEW g, IsSums(g, f, SUBSET S)
    PROVE  \A s \in SUBSET S : g[s] \in Int /\ \A x \in s : g[s] = f[x] + g[s \ {x}]
<1> DEFINE Holds(s) == g[s] \in Int /\ \A x \in s : g[s] = f[x] + g[s \ {x}]
           Unlike == {s \in SUBSET S : ~Holds(s)}
<1>0. \A s \in SUBSET S : g[s] = IF s = {} THEN 0 ELSE f[NextOf(s)] + g[s \ {NextOf(s)}]
  BY DEF IsSums
<1> SUFFICES ASSUME Unlike # {} PROVE FALSE
  OBVIOUS
<1>1. PICK s \in Unlike : \A t \in Unlike : t \subseteq s => t = s
  <2>1. Unlike \in SUBSET SUBSET S
    OBVIOUS
  <2> HIDE DEF Unlike
  <2> QED BY <2>1, SmallestSubset
<1>2. s \in SUBSET S /\ ~Holds(s)
  BY <1>1
<1>3. \A t \in SUBSET s : t # s => Holds(t)
  BY <1>1
<1>4. s # {}
  <2>1. g[{}] = 0
    BY <1>0
  <2>2. Holds({})
    BY <2>1
  <2> HIDE DEF Holds
  <2> QED BY <1>2, <2>2
<1>5. PICK c : c = NextOf(s) /\ c \in s
  BY <1>4, NextIn
<1>6. g[s] = f[c] + g[s \ {c}] /\ Holds(s \ {c}) /\ f[c] \in Int
  BY <1>0, <1>2, <1>3, <1>4, <1>5
<1>7. ASSUME NEW x \in s PROVE g[s] = f[x] + g[s \ {x}]
  <2>1. CASE x = c
    BY <1>6, <2>1
  <2>2. CASE x # c
    <3>1. (s \ {c}) \ {x} = (s \ {x}) \ {c} /\ x \in s \ {c} /\ c \in s \ {x}
      BY <1>5, <2>2
    <3>2. Holds(s \ {x}) /\ f[x] \in Int /\ Holds((s \ {x}) \ {c})
      BY <1>2, <1>3
    <3>3. g[s \ {c}] = f[x] + g[(s \ {c}) \ {x}]
      BY <1>6, <3>1
    <3>4. g[s \ {x}] = f[c] + g[(s \ {x}) \ {c}]
      BY <3>1, <3>2
    <3>5. g[(s \ {x}) \ {c}] \in Int
      BY <3>2
    <3>6. g[s] = f[c] + g[s \ {c}] /\ f[c] \in Int /\ f[x] \in Int
      BY <1>6, <3>2
    <3>7. g[s \ {c}] = f[x] + g[(s \ {x}) \ {c}]
      BY <3>1, <3>3
    <3> HIDE DEF Holds, Unlike
    <3> QED BY <3>4, <3>5, <3>6, <3>7
  <2> QED BY <2>1, <2>2
<1>8. g[s] \in Int
  BY <1>6
<1> QED BY <1>2, <1>7, <1>8

Agree(e, f, T) == \A x \in T : e[x] = f[x]

LEMMA SumsAgree ==
    ASSUME NEW f, NEW S, NEW g, NEW e, NEW T, NEW h,
           IsFiniteSet(S), IsSums(g, f, SUBSET S),
           T \subseteq S, IsSums(h, e, SUBSET T), Agree(e, f, T)
    PROVE  h[T] = g[T]
<1> DEFINE Unlike == {s \in SUBSET T : h[s] # g[s]}
<1>1. /\ \A s \in SUBSET S : g[s] = IF s = {} THEN 0 ELSE f[NextOf(s)] + g[s \ {NextOf(s)}]
      /\ \A s \in SUBSET T : h[s] = IF s = {} THEN 0 ELSE e[NextOf(s)] + h[s \ {NextOf(s)}]
  BY DEF IsSums
<1> SUFFICES ASSUME Unlike # {} PROVE FALSE
  OBVIOUS
<1>2. PICK s \in Unlike : \A t \in Unlike : t \subseteq s => t = s
  <2>1. Unlike \in SUBSET SUBSET T /\ IsFiniteSet(T)
    BY FS_Subset
  <2> HIDE DEF Unlike
  <2> QED BY <2>1, SmallestSubset
<1>3. s \in SUBSET T /\ s \in SUBSET S /\ h[s] # g[s] /\ s # {}
  BY <1>1, <1>2
<1>4. NextOf(s) \in s
  BY <1>3, NextIn
<1>5. h[s \ {NextOf(s)}] = g[s \ {NextOf(s)}]
  <2>1. s \ {NextOf(s)} \in SUBSET T /\ s \ {NextOf(s)} # s /\ s \ {NextOf(s)} \subseteq s
    BY <1>3, <1>4
  <2> QED BY <2>1, <1>2
<1>6. e[NextOf(s)] = f[NextOf(s)]
  BY <1>3, <1>4 DEF Agree
<1> QED BY <1>1, <1>3, <1>4, <1>5, <1>6

IntSum(f) == IsFiniteSet(DOMAIN f) /\ \A x \in DOMAIN f : f[x] \in Int
On(f, s)  == [x \in s |-> f[x]]

LEMMA SumEmpty == ASSUME NEW f, DOMAIN f = {} PROVE SumFunction(f) = 0
<1>1. IsFiniteSet(DOMAIN f)
  BY FS_EmptySet
<1>2. PICK g : IsSums(g, f, SUBSET DOMAIN f) /\ SumFunction(f) = g[DOMAIN f]
  BY <1>1, SumIsLast
<1> QED BY <1>2 DEF IsSums

\* A sum is an integer, and any element of it can be taken apart.
LEMMA SumSplit ==
    ASSUME NEW f, IntSum(f)
    PROVE  /\ SumFunction(f) \in Int
           /\ \A x \in DOMAIN f : SumFunction(f) = f[x] + SumFunction(On(f, DOMAIN f \ {x}))
<1>1. PICK g : IsSums(g, f, SUBSET DOMAIN f) /\ SumFunction(f) = g[DOMAIN f]
  BY SumIsLast DEF IntSum
<1>2. \A s \in SUBSET DOMAIN f : g[s] \in Int /\ \A x \in s : g[s] = f[x] + g[s \ {x}]
  BY <1>1, SumsInAnyOrder DEF IntSum
<1>3. ASSUME NEW x \in DOMAIN f PROVE SumFunction(On(f, DOMAIN f \ {x})) = g[DOMAIN f \ {x}]
  <2>0. PICK T : T = DOMAIN f \ {x}
    OBVIOUS
  <2>1. IsFiniteSet(T) /\ IsFiniteSet(DOMAIN f) /\ T \subseteq DOMAIN f
    BY <2>0, FS_Subset DEF IntSum
  <2>2. PICK e : e = On(f, T)
    OBVIOUS
  <2>3. DOMAIN e = T /\ Agree(e, f, T)
    BY <2>2 DEF On, Agree
  <2>4. PICK h : IsSums(h, e, SUBSET T) /\ SumFunction(e) = h[T]
    BY <2>1, <2>3, SumIsLast
  <2>5. PICK S : S = DOMAIN f /\ IsFiniteSet(S) /\ IsSums(g, f, SUBSET S) /\ T \subseteq S
    BY <1>1, <2>1
  <2>6. h[T] = g[T]
    BY <2>3, <2>4, <2>5, SumsAgree
  <2> QED BY <2>0, <2>2, <2>4, <2>6
<1> QED BY <1>1, <1>2, <1>3

\* A sum with one more element.
LEMMA SumMore ==
    ASSUME NEW f, IntSum(f), NEW x \in DOMAIN f, NEW g, g = [y \in DOMAIN f \ {x} |-> f[y]]
    PROVE  SumFunction(f) = f[x] + SumFunction(g)
<1>1. SumFunction(f) = f[x] + SumFunction(On(f, DOMAIN f \ {x}))
  BY SumSplit
<1> QED BY <1>1 DEF On

\* A sum of natural numbers is one.
LEMMA SumOfNaturals ==
    ASSUME NEW D, IsFiniteSet(D), NEW f \in [D -> Nat]
    PROVE  SumFunction(f) \in Nat
<1> DEFINE Wrong == {s \in SUBSET D : SumFunction(On(f, s)) \notin Nat}
<1>0. On(f, D) = f
  BY DEF On
<1>1. ASSUME Wrong # {} PROVE FALSE
  <2>1. PICK s \in Wrong : \A t \in Wrong : t \subseteq s => t = s
    <3>1. Wrong \in SUBSET SUBSET D
      OBVIOUS
    <3> HIDE DEF Wrong
    <3> QED BY <1>1, <3>1, SmallestSubset
  <2>2. s \in SUBSET D /\ SumFunction(On(f, s)) \notin Nat
    BY <2>1
  <2>3. DOMAIN On(f, s) = s /\ \A y \in s : On(f, s)[y] = f[y] /\ f[y] \in Nat
    BY <2>2 DEF On
  <2>4. s # {}
    <3>1. ASSUME s = {} PROVE SumFunction(On(f, s)) = 0
      <4>1. DOMAIN On(f, s) = {}
        BY <2>3, <3>1
      <4> QED BY <4>1, SumEmpty
    <3> QED BY <2>2, <3>1
  <2>5. PICK x : x \in s
    BY <2>4
  <2>6. IntSum(On(f, s))
    BY <2>2, <2>3, FS_Subset DEF IntSum
  <2>7. On(f, s \ {x}) = [y \in s \ {x} |-> On(f, s)[y]]
    BY <2>3, <2>5 DEF On
  <2>8. SumFunction(On(f, s)) = f[x] + SumFunction(On(f, s \ {x}))
    BY <2>3, <2>5, <2>6, <2>7, SumMore
  <2>9. SumFunction(On(f, s \ {x})) \in Nat
    BY <2>1, <2>2, <2>5
  <2> QED BY <2>2, <2>3, <2>5, <2>8, <2>9
<1>2. SumFunction(On(f, D)) \in Nat
  BY <1>1
<1> QED BY <1>0, <1>2

\* The number of elements of a union is at most the sum of the numbers, and is the sum
\* when no two sets meet.
LEMMA CountUnion ==
    ASSUME NEW F, IsFiniteSet(DOMAIN F), \A x \in DOMAIN F : IsFiniteSet(F[x])
    PROVE  LET U == UNION {F[x] : x \in DOMAIN F}
               n == SumFunction([x \in DOMAIN F |-> Cardinality(F[x])])
           IN  /\ IsFiniteSet(U) /\ n \in Int /\ Cardinality(U) <= n
               /\ (\A x, y \in DOMAIN F : x # y => F[x] \cap F[y] = {}) => Cardinality(U) = n
<1> DEFINE D == DOMAIN F
           U(s) == UNION {F[x] : x \in s}
           n(s) == SumFunction([x \in s |-> Cardinality(F[x])])
           NoTwoMeet == \A x, y \in DOMAIN F : x # y => F[x] \cap F[y] = {}
           Holds(s) == /\ IsFiniteSet(U(s)) /\ n(s) \in Int /\ Cardinality(U(s)) <= n(s)
                       /\ NoTwoMeet => Cardinality(U(s)) = n(s)
           Wrong == {s \in SUBSET D : ~Holds(s)}
<1> SUFFICES ASSUME Wrong # {} PROVE FALSE
  <2>1. D \in SUBSET D
    OBVIOUS
  <2> QED BY <2>1
<1>1. PICK s \in Wrong : \A t \in Wrong : t \subseteq s => t = s
  <2>1. Wrong \in SUBSET SUBSET D
    OBVIOUS
  <2> HIDE DEF Wrong
  <2> QED BY <2>1, SmallestSubset
<1>2. s \in SUBSET D /\ ~Holds(s) /\ \A t \in SUBSET s : t # s => Holds(t)
  BY <1>1
<1>3. s # {}
  <2>1. n({}) = 0
    BY SumEmpty
  <2>2. U({}) = {} /\ IsFiniteSet({}) /\ Cardinality({}) = 0
    BY FS_EmptySet
  <2>3. Holds({})
    <3> HIDE DEF U, n
    <3> QED BY <2>1, <2>2
  <2> QED BY <1>2, <2>3
<1>4. PICK x : x \in s
  BY <1>3
<1>5. PICK t : t = s \ {x}
  OBVIOUS
<1>6. Holds(t) /\ t \in SUBSET D /\ x \in D /\ x \notin t
  BY <1>2, <1>4, <1>5
<1>7. n(s) = Cardinality(F[x]) + n(t)
  <2>1. PICK f : f = [y \in s |-> Cardinality(F[y])]
    OBVIOUS
  <2>2. IntSum(f)
    <3>1. IsFiniteSet(s)
      BY <1>2, FS_Subset
    <3>2. \A y \in s : Cardinality(F[y]) \in Int
      BY <1>2, FS_CardinalityType
    <3> QED BY <2>1, <3>1, <3>2 DEF IntSum
  <2>3. SumFunction(f) = f[x] + SumFunction(On(f, s \ {x}))
    BY <1>4, <2>1, <2>2, SumSplit
  <2>4. On(f, s \ {x}) = [y \in t |-> Cardinality(F[y])]
    BY <1>5, <2>1 DEF On
  <2> QED BY <1>4, <2>1, <2>3, <2>4
<1>8. U(s) = F[x] \cup U(t)
  BY <1>4, <1>5
<1>9. IsFiniteSet(F[x]) /\ Cardinality(F[x]) \in Nat /\ IsFiniteSet(F[x] \cap U(t))
  BY <1>6, FS_CardinalityType, FS_Intersection
<1>10. PICK u, c, k : /\ u = U(t) /\ c = Cardinality(F[x]) /\ k = Cardinality(F[x] \cap u)
  OBVIOUS
<1>11. /\ IsFiniteSet(u) /\ IsFiniteSet(F[x] \cup u)
       /\ Cardinality(F[x] \cup u) = c + Cardinality(u) - k
       /\ c \in Nat /\ k \in Nat /\ Cardinality(u) \in Nat
  BY <1>6, <1>9, <1>10, FS_Union, FS_CardinalityType
<1>12. NoTwoMeet => F[x] \cap u = {}
  <2> SUFFICES ASSUME NoTwoMeet, NEW z \in F[x], z \in u PROVE FALSE
    OBVIOUS
  <2>1. PICK y \in t : z \in F[y]
    BY <1>10
  <2> QED BY <1>6, <2>1
<1>13. NoTwoMeet => k = 0
  BY <1>10, <1>12, FS_EmptySet
<1>14. PICK m, p : m = n(t) /\ p = n(s)
  OBVIOUS
<1>15. /\ m \in Int /\ Cardinality(u) <= m /\ (NoTwoMeet => Cardinality(u) = m) /\ p = c + m
       /\ U(s) = F[x] \cup u
  <2> HIDE DEF U, n
  <2> QED BY <1>6, <1>7, <1>8, <1>10, <1>14
<1>16. p \in Int /\ Cardinality(F[x] \cup u) <= p /\ (NoTwoMeet => Cardinality(F[x] \cup u) = p)
  <2> HIDE DEF NoTwoMeet, U, n, Holds
  <2> QED BY <1>11, <1>13, <1>15
<1>17. Holds(s)
  <2> HIDE DEF U, n
  <2> QED BY <1>11, <1>14, <1>15, <1>16
<1> QED BY <1>2, <1>17

-----------------------------------------------------------------------------
(* Sums over the parts of a set, and the greatest and least of a set.      *)

\* What holds of the empty set and of a set with one more element holds of a finite set.
LEMMA PartByPart ==
    ASSUME NEW D, IsFiniteSet(D), NEW Good, {} \in Good,
           \A s \in SUBSET D : \A x \in s : s \ {x} \in Good => s \in Good
    PROVE  D \in Good
<1> DEFINE Wrong == {s \in SUBSET D : s \notin Good}
<1> SUFFICES ASSUME Wrong # {} PROVE FALSE
  OBVIOUS
<1>1. PICK s \in Wrong : \A t \in Wrong : t \subseteq s => t = s
  <2>1. Wrong \in SUBSET SUBSET D
    OBVIOUS
  <2> HIDE DEF Wrong
  <2> QED BY <2>1, SmallestSubset
<1>2. PICK x : x \in s
  BY <1>1
<1>3. s \ {x} \in Good
  BY <1>1, <1>2
<1> QED BY <1>1, <1>2, <1>3

\* The sum of f over a part of its domain.
SumOver(f, S) == SumFunction(On(f, S))
IntOn(f, S)   == IsFiniteSet(S) /\ \A x \in S : f[x] \in Int

LEMMA SumOverNone == \A f : SumOver(f, {}) = 0
<1> SUFFICES ASSUME NEW f PROVE SumFunction(On(f, {})) = 0
  BY DEF SumOver
<1> QED BY SumEmpty DEF On

LEMMA SumOverMore ==
    ASSUME NEW f, NEW S, IntOn(f, S)
    PROVE  /\ SumOver(f, S) \in Int
           /\ \A x \in S : f[x] \in Int /\ SumOver(f, S \ {x}) \in Int
                           /\ SumOver(f, S) = f[x] + SumOver(f, S \ {x})
<1>1. PICK g : g = On(f, S)
  OBVIOUS
<1>2. DOMAIN g = S /\ \A x \in S : g[x] = f[x]
  BY <1>1 DEF On
<1>3. IntSum(g)
  BY <1>2 DEF IntSum, IntOn
<1>4. ASSUME NEW x \in S PROVE On(g, S \ {x}) = On(f, S \ {x}) /\ SumOver(f, S \ {x}) \in Int
  <2>1. On(g, S \ {x}) = On(f, S \ {x})
    BY <1>2 DEF On
  <2>2. PICK h : h = On(f, S \ {x})
    OBVIOUS
  <2>3. DOMAIN h = S \ {x} /\ \A y \in S \ {x} : h[y] = f[y]
    BY <2>2 DEF On
  <2>4. IntSum(h)
    BY <2>3, FS_Subset DEF IntSum, IntOn
  <2> QED BY <2>1, <2>2, <2>4, SumSplit DEF SumOver
<1>5. SumFunction(g) \in Int /\ \A x \in S : SumFunction(g) = g[x] + SumFunction(On(g, S \ {x}))
  BY <1>2, <1>3, SumSplit
<1> QED BY <1>1, <1>2, <1>4, <1>5 DEF SumOver, IntOn

LEMMA SumIsOver == \A f : \A D : f = [x \in D |-> f[x]] => SumFunction(f) = SumOver(f, D)
BY DEF SumOver, On

\* Sums are equal when what is summed is.
LEMMA SameSum == \A e, f : \A S : Agree(e, f, S) => SumOver(e, S) = SumOver(f, S)
<1> SUFFICES ASSUME NEW e, NEW f, NEW S, Agree(e, f, S) PROVE On(e, S) = On(f, S)
  BY DEF SumOver
<1> QED BY DEF On, Agree

LEMMA SumOfSums ==
    ASSUME NEW D, NEW f, NEW g, NEW h, IntOn(f, D), IntOn(g, D), \A x \in D : h[x] = f[x] + g[x]
    PROVE  SumOver(h, D) = SumOver(f, D) + SumOver(g, D)
<1> DEFINE Good == {s \in SUBSET D : SumOver(h, s) = SumOver(f, s) + SumOver(g, s)}
<1>1. {} \in Good
  BY SumOverNone
<1>2. ASSUME NEW s \in SUBSET D, NEW x \in s, s \ {x} \in Good PROVE s \in Good
  <2>1. IntOn(f, s) /\ IntOn(g, s) /\ IntOn(h, s)
    BY FS_Subset DEF IntOn
  <2>2. PICK a, b, c : a = SumOver(f, s \ {x}) /\ b = SumOver(g, s \ {x}) /\ c = SumOver(h, s \ {x})
    OBVIOUS
  <2>3. /\ SumOver(f, s) = f[x] + a /\ SumOver(g, s) = g[x] + b /\ SumOver(h, s) = h[x] + c
        /\ a \in Int /\ b \in Int /\ f[x] \in Int /\ g[x] \in Int
    BY <2>1, <2>2, SumOverMore
  <2>4. c = a + b /\ h[x] = f[x] + g[x]
    BY <1>2, <2>2
  <2>5. SumOver(h, s) = SumOver(f, s) + SumOver(g, s)
    BY <2>3, <2>4
  <2> QED BY <2>5
<1>3. IsFiniteSet(D)
  BY DEF IntOn
<1>4. D \in Good
  <2> HIDE DEF Good
  <2> QED BY <1>1, <1>2, <1>3, PartByPart
<1> QED BY <1>4

LEMMA SumScaled ==
    ASSUME NEW D, NEW f, NEW h, NEW c \in Int, IntOn(f, D), \A x \in D : h[x] = c * f[x]
    PROVE  SumOver(h, D) = c * SumOver(f, D)
<1> DEFINE Good == {s \in SUBSET D : SumOver(h, s) = c * SumOver(f, s)}
<1>1. {} \in Good
  BY SumOverNone
<1>2. ASSUME NEW s \in SUBSET D, NEW x \in s, s \ {x} \in Good PROVE s \in Good
  <2>1. IntOn(f, s) /\ IntOn(h, s)
    BY FS_Subset DEF IntOn
  <2>2. PICK a, b, y : a = SumOver(f, s \ {x}) /\ b = SumOver(h, s \ {x}) /\ y = f[x]
    OBVIOUS
  <2>3. /\ SumOver(f, s) = y + a /\ SumOver(h, s) = h[x] + b
        /\ a \in Int /\ y \in Int
    BY <2>1, <2>2, SumOverMore
  <2>4. b = c * a /\ h[x] = c * y
    BY <1>2, <2>2
  <2>5. c * (y + a) = c * y + c * a
    BY <2>3
  <2>6. SumOver(h, s) = c * SumOver(f, s)
    BY <2>3, <2>4, <2>5
  <2> QED BY <2>6
<1>3. IsFiniteSet(D)
  BY DEF IntOn
<1>4. D \in Good
  <2> HIDE DEF Good
  <2> QED BY <1>1, <1>2, <1>3, PartByPart
<1> QED BY <1>4

LEMMA SumOfOnes ==
    ASSUME NEW D, IsFiniteSet(D), NEW f, \A x \in D : f[x] = 1
    PROVE  SumOver(f, D) = Cardinality(D)
<1> DEFINE Good == {s \in SUBSET D : SumOver(f, s) = Cardinality(s)}
<1>1. {} \in Good
  BY SumOverNone, FS_EmptySet
<1>2. ASSUME NEW s \in SUBSET D, NEW x \in s, s \ {x} \in Good PROVE s \in Good
  <2>1. IntOn(f, s) /\ IsFiniteSet(s) /\ f[x] = 1
    BY FS_Subset DEF IntOn
  <2>2. PICK a : a = SumOver(f, s \ {x})
    OBVIOUS
  <2>3. SumOver(f, s) = 1 + a
    BY <2>1, <2>2, SumOverMore
  <2>4. Cardinality(s) = a + 1
    <3>1. Cardinality(s \ {x}) = Cardinality(s) - 1 /\ Cardinality(s) \in Nat
      BY <2>1, FS_RemoveElement, FS_CardinalityType
    <3>2. a = Cardinality(s \ {x})
      BY <1>2, <2>2
    <3> QED BY <3>1, <3>2
  <2>5. SumOver(f, s) = Cardinality(s)
    <3>1. a \in Int
      BY <2>1, <2>2, SumOverMore
    <3> QED BY <2>3, <2>4, <3>1
  <2> QED BY <2>5
<1>4. D \in Good
  <2> HIDE DEF Good
  <2> QED BY <1>1, <1>2, PartByPart
<1> QED BY <1>4

\* A sum over two sets that do not meet.
LEMMA SumJoin ==
    ASSUME NEW A, NEW B, NEW f, IntOn(f, A), IntOn(f, B), A \cap B = {}
    PROVE  SumOver(f, A \cup B) = SumOver(f, A) + SumOver(f, B)
<1> DEFINE Good == {s \in SUBSET B : SumOver(f, A \cup s) = SumOver(f, A) + SumOver(f, s)}
<1>0. SumOver(f, A) \in Int
  BY SumOverMore
<1>1. {} \in Good
  <2>1. A \cup {} = A
    OBVIOUS
  <2> QED BY <1>0, <2>1, SumOverNone
<1>2. ASSUME NEW s \in SUBSET B, NEW x \in s, s \ {x} \in Good PROVE s \in Good
  <2>1. IntOn(f, s) /\ IntOn(f, A \cup s)
    BY FS_Subset, FS_Union DEF IntOn
  <2>2. PICK t, u, a, b, c : /\ t = A \cup s /\ u = s \ {x} /\ a = SumOver(f, u) /\ b = SumOver(f, A)
                             /\ c = SumOver(f, A \cup u)
    OBVIOUS
  <2>3. t \ {x} = A \cup u /\ x \in t
    BY <2>2
  <2>4. /\ SumOver(f, s) = f[x] + a /\ f[x] \in Int /\ a \in Int /\ b \in Int
        /\ SumOver(f, t) = f[x] + c
    BY <1>0, <2>1, <2>2, <2>3, SumOverMore
  <2>5. c = b + a
    BY <1>2, <2>2
  <2>6. SumOver(f, A \cup s) = SumOver(f, A) + SumOver(f, s)
    BY <2>2, <2>4, <2>5
  <2> QED BY <2>6
<1>3. IsFiniteSet(B)
  BY DEF IntOn
<1>4. B \in Good
  <2> HIDE DEF Good
  <2> QED BY <1>1, <1>2, <1>3, PartByPart
<1> QED BY <1>4

LEMMA SumAtLeastZero ==
    ASSUME NEW D, NEW f, IntOn(f, D), \A x \in D : f[x] >= 0
    PROVE  SumOver(f, D) \in Nat
<1> DEFINE Good == {s \in SUBSET D : SumOver(f, s) \in Nat}
<1>1. {} \in Good
  BY SumOverNone
<1>2. ASSUME NEW s \in SUBSET D, NEW x \in s, s \ {x} \in Good PROVE s \in Good
  <2>1. IntOn(f, s)
    BY FS_Subset DEF IntOn
  <2>3. SumOver(f, s) = f[x] + SumOver(f, s \ {x}) /\ f[x] \in Int /\ f[x] >= 0
    BY <2>1, SumOverMore
  <2> QED BY <1>2, <2>3
<1>3. IsFiniteSet(D)
  BY DEF IntOn
<1>4. D \in Good
  <2> HIDE DEF Good
  <2> QED BY <1>1, <1>2, <1>3, PartByPart
<1> QED BY <1>4

LEMMA SumGrows ==
    ASSUME NEW D, NEW f, NEW g, IntOn(f, D), IntOn(g, D), \A x \in D : f[x] <= g[x]
    PROVE  SumOver(f, D) <= SumOver(g, D)
<1>1. PICK d : d = [x \in D |-> g[x] - f[x]]
  OBVIOUS
<1>2. \A x \in D : f[x] \in Int /\ g[x] \in Int
  BY DEF IntOn
<1>3. \A x \in D : d[x] \in Int /\ d[x] >= 0 /\ g[x] = f[x] + d[x]
  BY <1>1, <1>2
<1>4. IntOn(d, D)
  BY <1>3 DEF IntOn
<1>5. SumOver(d, D) \in Nat
  BY <1>3, <1>4, SumAtLeastZero
<1>6. SumOver(g, D) = SumOver(f, D) + SumOver(d, D)
  BY <1>3, <1>4, SumOfSums
<1>7. SumOver(f, D) \in Int
  BY SumOverMore
<1> QED BY <1>5, <1>6, <1>7

LEMMA SumOfZeros ==
    ASSUME NEW D, IsFiniteSet(D), NEW f, \A x \in D : f[x] = 0
    PROVE  SumOver(f, D) = 0
<1>1. IntOn(f, D) /\ \A x \in D : f[x] = 0 * f[x]
  BY DEF IntOn
<1>2. SumOver(f, D) = 0 * SumOver(f, D) /\ SumOver(f, D) \in Int
  BY <1>1, SumScaled, SumOverMore
<1> QED BY <1>2

\* A sum over a part of a set, where nothing is negative.
LEMMA SumOfPart ==
    ASSUME NEW D, NEW S, S \subseteq D, NEW f, IntOn(f, D), \A x \in D : f[x] >= 0
    PROVE  SumOver(f, S) <= SumOver(f, D)
<1>1. PICK T : T = D \ S
  OBVIOUS
<1>2. IntOn(f, S) /\ IntOn(f, T) /\ S \cap T = {} /\ D = S \cup T /\ \A x \in T : f[x] >= 0
  BY <1>1, FS_Subset DEF IntOn
<1>3. SumOver(f, D) = SumOver(f, S) + SumOver(f, T)
  BY <1>2, SumJoin
<1>4. SumOver(f, S) \in Int /\ SumOver(f, T) \in Nat
  BY <1>2, SumOverMore, SumAtLeastZero
<1> QED BY <1>3, <1>4

\* What is left out of a sum is zero.
LEMMA SumWithoutZeros ==
    ASSUME NEW D, NEW S, S \subseteq D, NEW f, IntOn(f, D), \A x \in D \ S : f[x] = 0
    PROVE  SumOver(f, S) = SumOver(f, D)
<1>1. PICK T : T = D \ S
  OBVIOUS
<1>2. /\ IntOn(f, S) /\ IntOn(f, T) /\ IsFiniteSet(T) /\ S \cap T = {} /\ D = S \cup T
      /\ \A x \in T : f[x] = 0
  BY <1>1, FS_Subset DEF IntOn
<1>3. SumOver(f, D) = SumOver(f, S) + SumOver(f, T)
  BY <1>2, SumJoin
<1>4. SumOver(f, S) \in Int /\ SumOver(f, T) = 0
  BY <1>2, SumOverMore, SumOfZeros
<1> QED BY <1>3, <1>4

LEMMA SumBounded ==
    ASSUME NEW D, NEW f, IntOn(f, D), NEW b \in Int, \A x \in D : f[x] <= b
    PROVE  SumOver(f, D) <= b * Cardinality(D)
<1>1. PICK one, g : one = [x \in D |-> 1] /\ g = [x \in D |-> b]
  OBVIOUS
<1>2. /\ IntOn(one, D) /\ IntOn(g, D) /\ IsFiniteSet(D)
      /\ \A x \in D : one[x] = 1 /\ g[x] = b * one[x] /\ f[x] <= g[x]
  BY <1>1 DEF IntOn
<1>3. SumOver(one, D) = Cardinality(D) /\ SumOver(g, D) = b * SumOver(one, D)
  BY <1>2, SumOfOnes, SumScaled
<1>4. SumOver(f, D) <= SumOver(g, D)
  BY <1>2, SumGrows
<1> QED BY <1>3, <1>4

\* A sum by parts that do not meet: n[i] is the sum over part P[i].
LEMMA SumByParts ==
    ASSUME NEW I, IsFiniteSet(I), NEW P, NEW f, NEW n,
           \A i \in I : IntOn(f, P[i]) /\ n[i] = SumOver(f, P[i]),
           \A i, j \in I : i # j => P[i] \cap P[j] = {}
    PROVE  /\ IntOn(f, UNION {P[i] : i \in I})
           /\ SumOver(f, UNION {P[i] : i \in I}) = SumOver(n, I)
<1> DEFINE U(s) == UNION {P[i] : i \in s}
           Good == {s \in SUBSET I : IntOn(f, U(s)) /\ SumOver(f, U(s)) = SumOver(n, s)}
<1>1. {} \in Good
  <2>1. U({}) = {} /\ IntOn(f, {})
    BY FS_EmptySet DEF IntOn
  <2> HIDE DEF U
  <2> QED BY <2>1, SumOverNone
<1>2. ASSUME NEW s \in SUBSET I, NEW x \in s, s \ {x} \in Good PROVE s \in Good
  <2>1. PICK t : t = s \ {x}
    OBVIOUS
  <2>2. IntOn(f, U(t)) /\ SumOver(f, U(t)) = SumOver(n, t) /\ IntOn(f, P[x])
    BY <1>2, <2>1
  <2>3. U(s) = P[x] \cup U(t) /\ P[x] \cap U(t) = {}
    BY <2>1
  <2>4. IntOn(n, s)
    <3>1. \A i \in s : n[i] \in Int
      BY SumOverMore
    <3> QED BY <3>1, FS_Subset DEF IntOn
  <2>5. SumOver(n, s) = n[x] + SumOver(n, t)
    BY <2>1, <2>4, SumOverMore
  <2> HIDE DEF U
  <2>6. IntOn(f, P[x] \cup U(t))
    BY <2>2, FS_Union DEF IntOn
  <2>7. SumOver(f, P[x] \cup U(t)) = SumOver(f, P[x]) + SumOver(f, U(t))
    BY <2>2, <2>3, SumJoin
  <2>8. n[x] = SumOver(f, P[x])
    OBVIOUS
  <2> QED BY <2>2, <2>3, <2>5, <2>6, <2>7, <2>8
<1>4. I \in Good
  <2> HIDE DEF Good
  <2> QED BY <1>1, <1>2, PartByPart
<1> QED BY <1>4

\* A sum over what b makes of each element of a set.
LEMMA SumRenamed ==
    ASSUME NEW D, IsFiniteSet(D), NEW f, NEW g, NEW b,
           \A x, y \in D : b[x] = b[y] => x = y,
           \A x \in D : f[b[x]] \in Int /\ g[x] = f[b[x]]
    PROVE  SumOver(g, D) = SumOver(f, {b[x] : x \in D})
<1> DEFINE Image(s) == {b[x] : x \in s}
           Good == {s \in SUBSET D : SumOver(g, s) = SumOver(f, Image(s))}
<1>1. {} \in Good
  <2>1. Image({}) = {}
    OBVIOUS
  <2> HIDE DEF Image
  <2> QED BY <2>1, SumOverNone
<1>2. ASSUME NEW s \in SUBSET D, NEW x \in s, s \ {x} \in Good PROVE s \in Good
  <2>1. PICK t, u : t = s \ {x} /\ u = Image(s)
    OBVIOUS
  <2>2. u \ {b[x]} = Image(t) /\ b[x] \in u
    BY <2>1
  <2>3. IntOn(g, s) /\ IntOn(f, u)
    <3>1. IsFiniteSet(s)
      BY FS_Subset
    <3>2. IsFiniteSet(u)
      <4>1. PICK h : h = [y \in s |-> b[y]]
        OBVIOUS
      <4>2. h \in Surjection(s, u)
        BY <2>1, <4>1 DEF Surjection
      <4> QED BY <3>1, <4>2, FS_Surjection
    <3> QED BY <2>1, <3>1, <3>2 DEF IntOn
  <2>4. SumOver(g, s) = g[x] + SumOver(g, t)
    BY <2>1, <2>3, SumOverMore
  <2>5. SumOver(f, u) = f[b[x]] + SumOver(f, Image(t))
    BY <2>2, <2>3, SumOverMore
  <2>6. SumOver(g, t) = SumOver(f, Image(t)) /\ g[x] = f[b[x]]
    BY <1>2, <2>1
  <2> HIDE DEF Image
  <2> QED BY <2>1, <2>4, <2>5, <2>6
<1>4. D \in Good
  <2> HIDE DEF Good
  <2> QED BY <1>1, <1>2, PartByPart
<1> QED BY <1>4

LEMMA MaxExists ==
    ASSUME NEW S, IsFiniteSet(S), S # {}, S \subseteq Int
    PROVE  Max(S) \in S /\ \A x \in S : x <= Max(S)
<1> DEFINE Good == {s \in SUBSET S : s # {} => \E m \in s : \A x \in s : x <= m}
<1>1. {} \in Good
  OBVIOUS
<1>2. ASSUME NEW s \in SUBSET S, NEW x \in s, s \ {x} \in Good PROVE s \in Good
  <2>1. CASE s \ {x} = {}
    BY <2>1
  <2>2. CASE s \ {x} # {}
    <3>1. PICK m \in s \ {x} : \A y \in s \ {x} : y <= m
      BY <1>2, <2>2
    <3>2. m \in Int /\ x \in Int
      OBVIOUS
    <3> QED BY <3>1, <3>2
  <2> QED BY <2>1, <2>2
<1>3. S \in Good
  <2> HIDE DEF Good
  <2> QED BY <1>1, <1>2, PartByPart
<1>4. PICK m \in S : \A x \in S : m >= x
  BY <1>3
<1> QED BY <1>4 DEF Max

LEMMA MinExists ==
    ASSUME NEW S, IsFiniteSet(S), S # {}, S \subseteq Int
    PROVE  Min(S) \in S /\ \A x \in S : Min(S) <= x
<1> DEFINE Good == {s \in SUBSET S : s # {} => \E m \in s : \A x \in s : m <= x}
<1>1. {} \in Good
  OBVIOUS
<1>2. ASSUME NEW s \in SUBSET S, NEW x \in s, s \ {x} \in Good PROVE s \in Good
  <2>1. CASE s \ {x} = {}
    BY <2>1
  <2>2. CASE s \ {x} # {}
    <3>1. PICK m \in s \ {x} : \A y \in s \ {x} : m <= y
      BY <1>2, <2>2
    <3>2. m \in Int /\ x \in Int
      OBVIOUS
    <3> QED BY <3>1, <3>2
  <2> QED BY <2>1, <2>2
<1>3. S \in Good
  <2> HIDE DEF Good
  <2> QED BY <1>1, <1>2, PartByPart
<1>4. PICK m \in S : \A x \in S : m <= x
  BY <1>3
<1> QED BY <1>4 DEF Min

-----------------------------------------------------------------------------
(* Products, quotients and the two roundings of Rounding.                  *)

LEMMA TimesGrows ==
    ASSUME NEW d \in Nat, NEW a \in Int, NEW b \in Int, a <= b
    PROVE  d * a <= d * b
<1>1. PICK k \in Nat : b = a + k
  <2>1. b - a \in Nat /\ b = a + (b - a)
    OBVIOUS
  <2> QED BY <2>1
<1>2. d * b = d * a + d * k /\ d * k \in Nat /\ d * a \in Int
  BY <1>1
<1> QED BY <1>2

\* The larger of two multiples is that of the larger number.
LEMMA TimesOrder ==
    ASSUME NEW d \in Nat \ {0}, NEW a \in Int, NEW b \in Int, d * a < d * b + d
    PROVE  a <= b
<1> SUFFICES ASSUME b + 1 <= a PROVE FALSE
  OBVIOUS
<1>1. d * (b + 1) <= d * a
  BY TimesGrows
<1>2. d * (b + 1) = d * b + d /\ d * a \in Int /\ d * b \in Int
  OBVIOUS
<1> QED BY <1>1, <1>2

LEMMA Quotient ==
    ASSUME NEW a \in Int, NEW b \in Nat \ {0}
    PROVE  a \div b \in Int /\ b * (a \div b) <= a /\ a < b * (a \div b) + b
OBVIOUS

LEMMA Remainder ==
    ASSUME NEW a \in Int, NEW b \in Nat \ {0}
    PROVE  a % b \in Int /\ a = b * (a \div b) + (a % b)
BY SMT

LEMMA QuotientIs ==
    ASSUME NEW a \in Int, NEW b \in Nat \ {0}, NEW q \in Int, b * q <= a, a < b * q + b
    PROVE  a \div b = q
<1>1. PICK p : p = a \div b
  OBVIOUS
<1>2. p \in Int /\ b * p <= a /\ a < b * p + b
  BY <1>1, Quotient
<1>3. b * p \in Int /\ b * q \in Int
  BY <1>2
<1>4. b * p < b * q + b /\ b * q < b * p + b
  BY <1>2, <1>3
<1>5. p <= q /\ q <= p
  BY <1>2, <1>4, TimesOrder
<1> QED BY <1>1, <1>2, <1>5

LEMMA QuotientGrows ==
    ASSUME NEW a \in Int, NEW c \in Int, a <= c, NEW b \in Nat \ {0}
    PROVE  a \div b <= c \div b
<1>1. PICK p, q : p = a \div b /\ q = c \div b
  OBVIOUS
<1>2. p \in Int /\ q \in Int /\ b * p <= a /\ c < b * q + b
  BY <1>1, Quotient
<1>3. b * p \in Int /\ b * q \in Int
  BY <1>2
<1>4. b * p < b * q + b
  BY <1>2, <1>3
<1>5. p <= q
  BY <1>2, <1>4, TimesOrder
<1> QED BY <1>1, <1>5

\* A rounded quotient is within half a unit, and for a natural number strictly so above.
LEMMA HalfUpNear ==
    ASSUME NEW n \in Int, NEW d \in Nat \ {0}, NEW h, h = HalfUp(n, d)
    PROVE  /\ h \in Int
           /\ 2 * (d * h) <= 2 * n + d
           /\ 2 * n - d <= 2 * (d * h)
           /\ n >= 0 => h >= 0 /\ 2 * n < 2 * (d * h) + d
<1>1. CASE n >= 0
  <2>1. h = (2 * n + d) \div (2 * d)
    BY <1>1 DEF HalfUp
  <2>2. PICK a, b : a = 2 * n + d /\ b = 2 * d
    OBVIOUS
  <2>3. a \in Int /\ a \in Nat /\ b \in Nat \ {0}
    BY <1>1, <2>2
  <2>4. h \in Int /\ b * h <= a /\ a < b * h + b
    BY <2>1, <2>2, <2>3, Quotient
  <2>5. b * h = 2 * (d * h) /\ d * h \in Int
    BY <2>2, <2>4
  <2>6. 2 * (d * h) <= 2 * n + d /\ 2 * n < 2 * (d * h) + d /\ 2 * n - d <= 2 * (d * h)
    BY <1>1, <2>2, <2>4, <2>5
  <2>7. h >= 0
    <3>1. b * 0 < b * h + b
      BY <2>3, <2>4, <2>5
    <3> QED BY <2>3, <2>4, <3>1, TimesOrder
  <2> QED BY <2>4, <2>6, <2>7
<1>2. CASE n < 0
  <2>1. h = -((d - 2 * n) \div (2 * d))
    BY <1>2 DEF HalfUp
  <2>2. PICK a, b, q : a = d - 2 * n /\ b = 2 * d /\ q = a \div b
    OBVIOUS
  <2>3. a \in Int /\ a \in Nat /\ b \in Nat \ {0}
    BY <1>2, <2>2
  <2>4. q \in Int /\ b * q <= a /\ a < b * q + b
    BY <2>2, <2>3, Quotient
  <2>5. h = -q /\ b * q = 2 * (d * q) /\ d * h = -(d * q) /\ d * q \in Int
    BY <2>1, <2>2, <2>4
  <2> QED BY <1>2, <2>2, <2>4, <2>5
<1> QED BY <1>1, <1>2

LEMMA HalfUpGrows ==
    ASSUME NEW n \in Int, NEW k \in Int, n <= k, NEW d \in Nat \ {0}
    PROVE  HalfUp(n, d) <= HalfUp(k, d)
<1>1. CASE n >= 0
  <2>1. (2 * n + d) \div (2 * d) <= (2 * k + d) \div (2 * d)
    <3>1. 2 * n + d <= 2 * k + d /\ 2 * d \in Nat \ {0} /\ 2 * n + d \in Int /\ 2 * k + d \in Int
      OBVIOUS
    <3> QED BY <3>1, QuotientGrows
  <2> QED BY <1>1, <2>1 DEF HalfUp
<1>2. CASE k < 0
  <2>1. (d - 2 * k) \div (2 * d) <= (d - 2 * n) \div (2 * d)
    <3>1. d - 2 * k <= d - 2 * n /\ 2 * d \in Nat \ {0} /\ d - 2 * n \in Int /\ d - 2 * k \in Int
      OBVIOUS
    <3> QED BY <3>1, QuotientGrows
  <2>2. (d - 2 * k) \div (2 * d) \in Int /\ (d - 2 * n) \div (2 * d) \in Int
    <3>1. 2 * d \in Nat \ {0} /\ d - 2 * n \in Int /\ d - 2 * k \in Int
      OBVIOUS
    <3> QED BY <3>1, Quotient
  <2> QED BY <1>2, <2>1, <2>2 DEF HalfUp
<1>3. CASE n < 0 /\ k >= 0
  <2>1. HalfUp(k, d) \in Int /\ HalfUp(k, d) >= 0
    BY <1>3, HalfUpNear
  <2>2. HalfUp(n, d) = -((d - 2 * n) \div (2 * d))
    BY <1>3 DEF HalfUp
  <2>3. PICK a, b, q : a = d - 2 * n /\ b = 2 * d /\ q = a \div b
    OBVIOUS
  <2>4. q \in Int /\ a < b * q + b /\ a \in Nat /\ b \in Nat \ {0}
    <3>1. a \in Int /\ a \in Nat /\ b \in Nat \ {0}
      BY <1>3, <2>3
    <3> QED BY <2>3, <3>1, Quotient
  <2>5. b * 0 < b * q + b
    BY <2>4
  <2>6. 0 <= q
    BY <2>4, <2>5, TimesOrder
  <2> QED BY <2>1, <2>2, <2>3, <2>4, <2>6
<1> QED BY <1>1, <1>2, <1>3

\* To even: a half may also go down.
LEMMA HalfEvenNear ==
    ASSUME NEW n \in Nat, NEW d \in Nat \ {0}, NEW h, h = HalfEven(n, d)
    PROVE  /\ h \in Int
           /\ 2 * (d * h) <= 2 * n + d
           /\ 2 * n <= 2 * (d * h) + d
<1>1. CASE h = HalfUp(n, d)
  <2>1. h \in Int /\ 2 * (d * h) <= 2 * n + d /\ 2 * n - d <= 2 * (d * h) /\ n \in Int
    BY <1>1, HalfUpNear
  <2> QED BY <2>1
<1>2. CASE 2 * n % (2 * d) = d /\ h = n \div d
  <2>1. PICK a, b, q, r : a = 2 * n /\ b = 2 * d /\ q = a \div b /\ r = a % b
    OBVIOUS
  <2>2. a \in Int /\ b \in Nat \ {0}
    BY <2>1
  <2>3. q \in Int /\ a = b * q + r
    BY <2>1, <2>2, Remainder, Quotient
  <2>4. 2 * n = b * q + d
    <3>1. r = d
      BY <1>2, <2>1
    <3> QED BY <2>1, <2>3, <3>1
  <2>5. b * q = 2 * (d * q) /\ d * q \in Int
    BY <2>1, <2>3
  <2>6. h \in Int /\ d * h <= n /\ n < d * h + d
    <3>1. n \in Int
      OBVIOUS
    <3> QED BY <1>2, <3>1, Quotient
  <2>7. d * h \in Int
    BY <2>6
  <2>8. d * q < d * h + d /\ d * h < d * q + d
    BY <2>4, <2>5, <2>6, <2>7
  <2>9. q = h
    <3>0. d \in Nat \ {0} /\ q \in Int /\ h \in Int
      BY <2>3, <2>6
    <3>1. q <= h
      BY <3>0, <2>8, TimesOrder
    <3>2. h <= q
      BY <3>0, <2>8, TimesOrder
    <3> QED BY <2>3, <2>6, <3>1, <3>2
  <2> QED BY <2>4, <2>5, <2>6, <2>9
<1> QED BY <1>1, <1>2 DEF HalfEven

-----------------------------------------------------------------------------
(* Availability.                                                           *)

Ends       == {Never} \cup {<<t>> : t \in Nat}
AlarmRows  == [block : {k.block : k \in AlarmKinds}, priority : {k.priority : k \in AlarmKinds},
               raised : Nat, cleared : Ends]
WindowRows == [block : {m.block : m \in MaintenancePlans}, start : Nat, end : Nat, notice : Ends]

SlaInv ==
    /\ clock \in Nat /\ alarms \in Seq(AlarmRows)
    /\ windows \subseteq WindowRows /\ IsFiniteSet(windows)
    /\ \A i \in DOMAIN alarms :
         alarms[i].raised <= clock /\ (alarms[i].cleared # Never => alarms[i].cleared[1] <= clock)

LEMMA MaxOfTwo == ASSUME NEW a \in Int, NEW b \in Int PROVE Max({a, b}) = IF a >= b THEN a ELSE b
<1>1. ASSUME NEW x \in {a, b}, \A y \in {a, b} : x >= y PROVE Max({a, b}) = x
  <2>1. \A z \in {a, b} : (\A y \in {a, b} : z >= y) => z = x
    BY <1>1
  <2> QED BY <1>1, <2>1 DEF Max
<1> QED BY <1>1

LEMMA MinOfTwo == ASSUME NEW a \in Int, NEW b \in Int PROVE Min({a, b}) = IF a <= b THEN a ELSE b
<1>1. ASSUME NEW x \in {a, b}, \A y \in {a, b} : x <= y PROVE Min({a, b}) = x
  <2>1. \A z \in {a, b} : (\A y \in {a, b} : z <= y) => z = x
    BY <1>1
  <2> QED BY <1>1, <2>1 DEF Min
<1> QED BY <1>1

\* An end is none or an instant.
LEMMA EndIs ==
    ASSUME NEW e \in Ends, e # Never
    PROVE  e[1] \in Nat /\ e = <<e[1]>>
BY DEF Ends, Never

LEMMA InstantEnds == ASSUME NEW t \in Nat PROVE <<t>> \in Ends /\ <<t>> # Never /\ <<t>>[1] = t
BY DEF Ends, Never

LEMMA NeverEnds == Never \in Ends
BY DEF Ends

LEMMA EarliestInstant == Min(Instants) \in Instants
<1>1. PICK n \in Instants : \A m \in Instants : n <= m
  BY LeastNatural, PeriodAssumption
<1> QED BY <1>1 DEF Min

LEMMA SlaStarts == SlaInit => SlaInv
<1> SUFFICES ASSUME SlaInit PROVE SlaInv
  OBVIOUS
<1>1. clock \in Nat
  BY EarliestInstant, PeriodAssumption DEF SlaInit
<1>2. alarms \in Seq(AlarmRows) /\ DOMAIN alarms = {}
  BY DEF SlaInit
<1> QED BY <1>1, <1>2, FS_EmptySet DEF SlaInit, SlaInv

LEMMA RaiseKeeps == ASSUME SlaInv, NEW k \in AlarmKinds, RaiseAlarm(k) PROVE SlaInv'
<1>1. PICK a : a = [block |-> k.block, priority |-> k.priority, raised |-> clock, cleared |-> Never]
  OBVIOUS
<1>2. a \in AlarmRows /\ a.raised = clock /\ a.cleared = Never
  BY <1>1, NeverEnds DEF AlarmRows, SlaInv
<1>3. alarms' = Append(alarms, a) /\ UNCHANGED <<clock, windows>>
  BY <1>1 DEF RaiseAlarm
<1>4. alarms' \in Seq(AlarmRows)
  BY <1>2, <1>3 DEF SlaInv
<1>5. \A i \in DOMAIN alarms' : alarms'[i] = a \/ (i \in DOMAIN alarms /\ alarms'[i] = alarms[i])
  BY <1>3 DEF SlaInv
<1> QED BY <1>2, <1>3, <1>4, <1>5 DEF SlaInv

LEMMA ClearKeeps == ASSUME SlaInv, NEW i \in DOMAIN alarms, ClearAlarm(i) PROVE SlaInv'
<1>1. alarms' = [alarms EXCEPT ![i].cleared = <<clock>>] /\ UNCHANGED <<clock, windows>>
  BY DEF ClearAlarm
<1>2. <<clock>> \in Ends /\ <<clock>>[1] = clock
  BY InstantEnds DEF SlaInv
<1>3. DOMAIN alarms' = DOMAIN alarms /\ \A j \in DOMAIN alarms : j # i => alarms'[j] = alarms[j]
  BY <1>1 DEF SlaInv
<1>4. alarms[i] \in AlarmRows
  BY DEF SlaInv
<1>5. /\ alarms'[i] \in AlarmRows /\ alarms'[i].raised = alarms[i].raised
      /\ alarms'[i].cleared = <<clock>>
  BY <1>1, <1>2, <1>4 DEF AlarmRows, SlaInv
<1>6. alarms' \in Seq(AlarmRows)
  <2>1. alarms \in Seq(AlarmRows) /\ i \in 1..Len(alarms)
    BY DEF SlaInv
  <2>2. alarms' = [alarms EXCEPT ![i] = alarms'[i]]
    BY <1>1, <2>1
  <2> QED BY <1>5, <2>1, <2>2, ExceptSeq
<1> QED BY <1>1, <1>2, <1>3, <1>5, <1>6 DEF SlaInv

\* A notice is none or an instant.
Notices == {Never} \cup {<<t>> : t \in Instants}

LEMMA EnterKeeps ==
    ASSUME SlaInv, NEW m \in MaintenancePlans, NEW n \in Notices, EnterWindow(m, n)
    PROVE  SlaInv'
<1>1. PICK w : /\ w = [block |-> m.block, start |-> m.start, end |-> m.end, notice |-> n]
               /\ windows' = windows \cup {w} /\ UNCHANGED <<clock, alarms>>
  BY DEF EnterWindow
<1>2. n \in Ends
  BY InstantEnds, NeverEnds, PeriodAssumption DEF Notices
<1>3. w \in WindowRows
  BY <1>1, <1>2, PeriodAssumption DEF WindowRows
<1>4. IsFiniteSet(windows')
  BY <1>1, FS_AddElement DEF SlaInv
<1> QED BY <1>1, <1>3, <1>4 DEF SlaInv

LEMMA SlaStep == SlaInv /\ [SlaNext]_slaVars => SlaInv'
<1> SUFFICES ASSUME SlaInv, [SlaNext]_slaVars PROVE SlaInv'
  OBVIOUS
<1>1. CASE Pass
  <2>1. clock' \in Nat /\ clock < clock' /\ UNCHANGED <<alarms, windows>>
    BY <1>1, PeriodAssumption DEF Pass
  <2>2. \A i \in DOMAIN alarms : alarms[i].raised \in Nat /\ alarms[i].cleared \in Ends
    <3>1. \A i \in DOMAIN alarms : alarms[i] \in AlarmRows
      BY DEF SlaInv
    <3> QED BY <3>1 DEF AlarmRows
  <2>3. ASSUME NEW i \in DOMAIN alarms
        PROVE  alarms[i].raised <= clock' /\ (alarms[i].cleared # Never => alarms[i].cleared[1] <= clock')
    BY <2>1, <2>2, EndIs DEF SlaInv
  <2> QED BY <2>1, <2>3 DEF SlaInv
<1>2. CASE UNCHANGED slaVars
  BY <1>2 DEF slaVars, SlaInv
<1> QED BY <1>1, <1>2, RaiseKeeps, ClearKeeps, EnterKeeps DEF SlaNext, Notices

\* What the report reads is well-formed, there are finitely many windows, and nothing is raised
\* or cleared after now (calculate).
THEOREM SlaInvariant == SlaSpec => []SlaInv
<1> QED BY SlaStarts, SlaStep, PTL DEF SlaSpec

\* Where an incident ends as far as the overlap goes, what it shares with a window, and the sum
\* of that over windows.
EndNow(a)  == IF a.cleared = Never THEN clock ELSE a.cleared[1]
Shared(a, e, w) == AtLeastZero(Min({e, w.end}) - Max({a.raised, w.start}))

LEMMA SharedIs ==
    ASSUME NEW a, NEW e \in Int, NEW w, a.raised \in Int, w.start \in Int, w.end \in Int
    PROVE  /\ Shared(a, e, w) \in Nat
           /\ (e <= w.start \/ w.end <= a.raised) => Shared(a, e, w) = 0
           /\ \A d \in Int : w.end <= e /\ w.end <= d => Shared(a, d, w) = Shared(a, e, w)
<1>1. ASSUME NEW d \in Int
      PROVE  Shared(a, d, w) = LET n == (IF d <= w.end THEN d ELSE w.end)
                                        - (IF a.raised >= w.start THEN a.raised ELSE w.start)
                               IN  IF n > 0 THEN n ELSE 0
  BY MaxOfTwo, MinOfTwo DEF Shared, AtLeastZero
<1> QED BY <1>1

OverlapUpto(a, e, W) == SumFunction([w \in W |-> Shared(a, e, w)])

LEMMA OverlapIs == ASSUME NEW a PROVE MaintenanceOverlap(a) = OverlapUpto(a, EndNow(a), ValidWindows)
BY DEF MaintenanceOverlap, OverlapUpto, EndNow, Shared

\* A window an incident does not reach adds nothing to its overlap.
LEMMA BeyondReach ==
    ASSUME NEW a, a.raised \in Int, NEW e \in Int, NEW W, IsFiniteSet(W), W \subseteq WindowRows,
           NEW w \in WindowRows, e <= w.start
    PROVE  OverlapUpto(a, e, W \cup {w}) = OverlapUpto(a, e, W)
<1>1. CASE w \in W
  <2>1. W \cup {w} = W
    BY <1>1
  <2> QED BY <2>1
<1>2. CASE w \notin W
  <2>1. PICK f : f = [v \in W \cup {w} |-> Shared(a, e, v)]
    OBVIOUS
  <2>2. \A v \in W \cup {w} : v.start \in Int /\ v.end \in Int
    BY DEF WindowRows
  <2>3. \A v \in W \cup {w} : Shared(a, e, v) \in Int
    BY <2>2, SharedIs
  <2>4. IntSum(f) /\ DOMAIN f = W \cup {w}
    BY <2>1, <2>3, FS_AddElement DEF IntSum
  <2>5. PICK g : g = [v \in W |-> Shared(a, e, v)]
    OBVIOUS
  <2>6. g = [v \in DOMAIN f \ {w} |-> f[v]]
    BY <1>2, <2>1, <2>4, <2>5
  <2>7. SumFunction(f) = f[w] + SumFunction(g)
    BY <2>4, <2>6, SumMore
  <2>8. f[w] = 0
    BY <2>1, <2>2, SharedIs
  <2>9. SumFunction(g) \in Int
    <3>1. IntSum(g)
      BY <2>3, <2>5 DEF IntSum
    <3> QED BY <3>1, SumSplit
  <2> QED BY <2>1, <2>5, <2>7, <2>8, <2>9 DEF OverlapUpto
<1> QED BY <1>1, <1>2

\* What a step does to the windows that count.
LEMMA WindowsGrow ==
    ASSUME SlaInv, [SlaNext]_slaVars, NoticedNow
    PROVE  \/ ValidWindows' = ValidWindows
           \/ /\ clock' = clock
              /\ \E w \in WindowRows : clock + 48 <= w.start /\ w.start < MonthEnd
                                     /\ ValidWindows' = ValidWindows \cup {w}
<1>1. CASE UNCHANGED windows
  BY <1>1 DEF ValidWindows, PlannedMaintenance, IsValidExclusion
<1>2. ASSUME NEW m \in MaintenancePlans, NEW n \in Notices, EnterWindow(m, n)
      PROVE \/ ValidWindows' = ValidWindows
            \/ /\ clock' = clock
               /\ \E w \in WindowRows : clock + 48 <= w.start /\ w.start < MonthEnd
                                      /\ ValidWindows' = ValidWindows \cup {w}
  <2>1. PICK w : /\ w = [block |-> m.block, start |-> m.start, end |-> m.end, notice |-> n]
                 /\ windows' = windows \cup {w} /\ UNCHANGED <<clock, alarms>>
    BY <1>2 DEF EnterWindow
  <2>2. w \in WindowRows /\ w.start \in Nat
    <3>1. n \in Ends
      BY InstantEnds, NeverEnds, PeriodAssumption DEF Notices
    <3> QED BY <2>1, <3>1, PeriodAssumption DEF WindowRows
  <2>3. CASE /\ w.block \in Blocks /\ w.start < MonthEnd /\ w.end > MonthStart /\ IsValidExclusion(w)
             /\ w \notin windows
    <3>1. ValidWindows' = ValidWindows \cup {w}
      BY <2>1, <2>3 DEF ValidWindows, PlannedMaintenance, IsValidExclusion
    <3>2. w.notice # Never /\ w.notice \in {Never, <<clock>>}
      BY <2>1, <2>3 DEF IsValidExclusion, NoticedNow
    <3>3. w.notice[1] = clock
      BY <3>2, InstantEnds DEF SlaInv
    <3>4. clock + 48 <= w.start
      BY <2>2, <2>3, <3>3 DEF IsValidExclusion, SlaInv
    <3> QED BY <2>1, <2>2, <2>3, <3>1, <3>4
  <2>4. CASE ~(/\ w.block \in Blocks /\ w.start < MonthEnd /\ w.end > MonthStart
               /\ IsValidExclusion(w))
    BY <2>1, <2>4 DEF ValidWindows, PlannedMaintenance, IsValidExclusion
  <2>5. CASE w \in windows
    <3>1. windows' = windows
      BY <2>1, <2>5
    <3> QED BY <1>1, <3>1
  <2> QED BY <2>3, <2>4, <2>5
<1>3. UNCHANGED windows \/ \E m \in MaintenancePlans, n \in Notices : EnterWindow(m, n)
  BY DEF SlaNext, Notices, Pass, RaiseAlarm, ClearAlarm, slaVars
<1> QED BY <1>1, <1>2, <1>3

LEMMA ValidTyped == SlaInv => IsFiniteSet(ValidWindows) /\ ValidWindows \subseteq WindowRows
BY FS_Subset DEF SlaInv, ValidWindows, PlannedMaintenance

\* The alarm of an index is changed by its end only.
LEMMA AlarmStays ==
    ASSUME SlaInv, [SlaNext]_slaVars, NEW i \in DOMAIN alarms
    PROVE  /\ i \in DOMAIN alarms' /\ alarms[i] \in AlarmRows
           /\ \/ alarms'[i] = alarms[i]
              \/ /\ alarms[i].cleared = Never /\ alarms'[i] = [alarms[i] EXCEPT !.cleared = <<clock>>]
                 /\ UNCHANGED <<clock, windows>>
<1>0. alarms \in Seq(AlarmRows) /\ alarms[i] \in AlarmRows
  BY DEF SlaInv
<1>1. CASE UNCHANGED alarms
  BY <1>0, <1>1
<1>2. ASSUME NEW k \in AlarmKinds, RaiseAlarm(k) PROVE i \in DOMAIN alarms' /\ alarms'[i] = alarms[i]
  BY <1>0, <1>2 DEF RaiseAlarm
<1>3. ASSUME NEW j \in DOMAIN alarms, ClearAlarm(j)
      PROVE  /\ i \in DOMAIN alarms'
             /\ \/ alarms'[i] = alarms[i]
                \/ /\ alarms[i].cleared = Never /\ alarms'[i] = [alarms[i] EXCEPT !.cleared = <<clock>>]
                   /\ UNCHANGED <<clock, windows>>
  BY <1>0, <1>3 DEF ClearAlarm
<1>4. UNCHANGED alarms \/ (\E k \in AlarmKinds : RaiseAlarm(k)) \/ \E j \in DOMAIN alarms : ClearAlarm(j)
  BY DEF SlaNext, Pass, EnterWindow, slaVars
<1> QED BY <1>0, <1>1, <1>2, <1>3, <1>4

\* What an alarm costs in the next state, by the alarm it is then.
LEMMA NextCost ==
    ASSUME NEW a, NEW i, alarms'[i] = a
    PROVE  Unplanned(alarms[i])' = Unplanned(a)'
BY DEF Unplanned, ExcludedDowntime, Duration, MaintenanceOverlap, ValidWindows, PlannedMaintenance,
       IsValidExclusion

\* The cost of a cleared incident does not change.
LEMMA ClearedCostStays ==
    ASSUME SlaInv, [SlaNext]_slaVars, NoticedNow, NEW i \in DOMAIN alarms, alarms[i].cleared # Never
    PROVE  Unplanned(alarms[i])' = Unplanned(alarms[i])
<1>1. PICK a \in AlarmRows : a = alarms[i] /\ alarms'[i] = a
  BY AlarmStays
<1>2. /\ a.raised \in Nat /\ a.cleared # Never /\ a.cleared[1] \in Nat /\ a.cleared[1] <= clock
      /\ clock \in Nat
  BY <1>1, EndIs DEF SlaInv, AlarmRows
<1>3. MaintenanceOverlap(a)' = MaintenanceOverlap(a)
  <2>1. PICK e \in Nat : e = a.cleared[1]
    BY <1>2
  <2>2. MaintenanceOverlap(a) = OverlapUpto(a, e, ValidWindows)
    BY <1>2, <2>1, OverlapIs DEF EndNow
  <2>3. MaintenanceOverlap(a)' = OverlapUpto(a, e, ValidWindows')
    BY <1>2, <2>1 DEF MaintenanceOverlap, OverlapUpto, Shared
  <2>4. OverlapUpto(a, e, ValidWindows') = OverlapUpto(a, e, ValidWindows)
    <3>1. CASE ValidWindows' = ValidWindows
      BY <3>1
    <3>2. ASSUME NEW w \in WindowRows, clock + 48 <= w.start, ValidWindows' = ValidWindows \cup {w}
          PROVE  OverlapUpto(a, e, ValidWindows') = OverlapUpto(a, e, ValidWindows)
      <4>1. e <= w.start
        BY <1>2, <2>1, <3>2 DEF WindowRows
      <4> QED BY <1>2, <3>2, <4>1, BeyondReach, ValidTyped
    <3> QED BY <3>1, <3>2, WindowsGrow
  <2> QED BY <2>2, <2>3, <2>4
<1>4. Unplanned(a)' = Unplanned(a)
  BY <1>3 DEF Unplanned, ExcludedDowntime, Duration
<1> QED BY <1>1, <1>4, NextCost

LEMMA OverlapIsNatural ==
    ASSUME NEW a, a.raised \in Nat, NEW e \in Nat, NEW W, IsFiniteSet(W), W \subseteq WindowRows
    PROVE  OverlapUpto(a, e, W) \in Nat
<1>1. PICK f : f = [w \in W |-> Shared(a, e, w)]
  OBVIOUS
<1>2. \A w \in W : w.start \in Nat /\ w.end \in Nat
  BY DEF WindowRows
<1>3. f \in [W -> Nat]
  BY <1>1, <1>2, SharedIs
<1> QED BY <1>1, <1>3, SumOfNaturals DEF OverlapUpto

LEMMA CostIsNatural ==
    ASSUME SlaInv, NEW a \in AlarmRows
    PROVE  Duration(a) \in Nat /\ MaintenanceOverlap(a) \in Nat /\ Unplanned(a) \in Nat
<1>1. a.raised \in Nat /\ a.cleared \in Ends /\ EndNow(a) \in Nat
  BY EndIs DEF AlarmRows, SlaInv, EndNow
<1>2. Duration(a) \in Nat
  <2>1. Max({a.raised, MonthStart}) \in Nat
    BY <1>1, MaxOfTwo, MinOfTwo, PeriodAssumption
  <2>2. (IF a.cleared = Never THEN MonthEnd ELSE Min({a.cleared[1], MonthEnd})) \in Nat
    <3>1. ASSUME a.cleared # Never PROVE Min({a.cleared[1], MonthEnd}) \in Nat
      <4>1. PICK e \in Ends : e = a.cleared
        BY <1>1
      <4>2. e[1] \in Nat
        BY <3>1, <4>1, EndIs
      <4>3. a.cleared[1] \in Nat
        BY <4>1, <4>2
      <4> QED BY <4>3, MaxOfTwo, MinOfTwo, PeriodAssumption
    <3> QED BY <3>1, PeriodAssumption
  <2> QED BY <2>1, <2>2 DEF Duration, AtLeastZero
<1>3. MaintenanceOverlap(a) \in Nat
  BY <1>1, ValidTyped, OverlapIs, OverlapIsNatural
<1>4. PICK m \in Nat, d \in Nat : m = MaintenanceOverlap(a) /\ d = Duration(a)
  BY <1>2, <1>3
<1>5. d - Min({m, d}) \in Nat
  BY MaxOfTwo, MinOfTwo
<1> QED BY <1>4, <1>5 DEF Unplanned, ExcludedDowntime

\* When the month is over, neither the clock nor an end changes what an alarm costs.
LEMMA CostSettles ==
    ASSUME SlaInv, [SlaNext]_slaVars, NoticedNow, clock >= MonthEnd, OrderlyWindows,
           NEW i \in DOMAIN alarms
    PROVE  Unplanned(alarms[i])' = Unplanned(alarms[i])
<1>1. PICK a, b : a \in AlarmRows /\ a = alarms[i] /\ b = alarms'[i]
  BY AlarmStays
<1>2. CASE a.cleared # Never
  BY <1>1, <1>2, ClearedCostStays
<1>3. CASE a.cleared = Never
  <2>1. a.raised \in Nat /\ clock \in Nat /\ clock' \in Nat /\ clock' >= clock
    <3>1. clock' >= clock
      <4>1. UNCHANGED clock \/ Pass
        BY DEF SlaNext, RaiseAlarm, ClearAlarm, EnterWindow, slaVars
      <4>2. clock \in Nat /\ Instants \subseteq Nat
        BY PeriodAssumption DEF SlaInv
      <4>3. CASE Pass
        BY <4>2, <4>3 DEF Pass
      <4>4. CASE UNCHANGED clock
        BY <4>2, <4>4
      <4> QED BY <4>1, <4>3, <4>4
    <3>2. SlaInv'
      BY SlaStep
    <3>3. clock' \in Nat
      BY <3>2 DEF SlaInv
    <3>4. clock \in Nat /\ alarms[i] \in AlarmRows
      BY DEF SlaInv
    <3> QED BY <1>1, <3>1, <3>3, <3>4 DEF AlarmRows
  <2>2. PICK D : D = ValidWindows /\ D \subseteq WindowRows
    BY ValidTyped
  <2>3. ValidWindows' = D
    BY <2>1, <2>2, WindowsGrow, PeriodAssumption DEF WindowRows
  <2>4. \A w \in D : w.start \in Nat /\ w.end \in Nat /\ w.end <= clock
    BY <2>1, <2>2, PeriodAssumption DEF WindowRows, OrderlyWindows, InsideMonth
  <2>5. PICK e \in Nat : e = (IF b.cleared = Never THEN clock' ELSE b.cleared[1]) /\ e >= clock
    BY <1>1, <1>3, <2>1, AlarmStays, InstantEnds DEF AlarmRows
  <2>6. b.raised = a.raised
    BY <1>1, AlarmStays DEF AlarmRows
  <2>7. \A w \in D : Shared(b, e, w) = Shared(a, clock, w)
    <3>1. \A w \in D : Shared(a, e, w) = Shared(a, clock, w)
      BY <2>1, <2>4, <2>5, SharedIs
    <3> QED BY <2>6, <3>1 DEF Shared
  <2>8. MaintenanceOverlap(b)' = MaintenanceOverlap(a)
    <3>1. MaintenanceOverlap(a) = SumFunction([w \in D |-> Shared(a, clock, w)])
      BY <1>3, <2>2, OverlapIs DEF OverlapUpto, EndNow
    <3>2. MaintenanceOverlap(b)' = SumFunction([w \in D |-> Shared(b, e, w)])
      BY <2>3, <2>5 DEF MaintenanceOverlap, Shared
    <3>3. [w \in D |-> Shared(b, e, w)] = [w \in D |-> Shared(a, clock, w)]
      BY <2>7
    <3> QED BY <3>1, <3>2, <3>3
  <2>9. Duration(b) = Duration(a)
    <3>1. (IF b.cleared = Never THEN MonthEnd ELSE Min({b.cleared[1], MonthEnd})) = MonthEnd
      <4>1. CASE b.cleared = Never
        BY <4>1
      <4>2. CASE b.cleared # Never
        <5>1. b.cleared[1] \in Nat /\ b.cleared[1] >= MonthEnd
          BY <2>1, <2>5, <4>2, PeriodAssumption
        <5> QED BY <4>2, <5>1, MaxOfTwo, MinOfTwo, PeriodAssumption
      <4> QED BY <4>1, <4>2
    <3> QED BY <1>3, <2>6, <3>1 DEF Duration
  <2>10. Unplanned(b)' = Unplanned(a)
    BY <2>8, <2>9 DEF Unplanned, ExcludedDowntime, Duration
  <2> QED BY <1>1, <2>10, NextCost
<1> QED BY <1>2, <1>3

\* A report that can be made is made of the outages.
LEMMA IncidentsAre == ASSUME Calculated PROVE Incidents = Outages /\ Incidents' = Outages'
BY DEF Calculated, Incidents, Outages, Answer, History

LEMMA IncidentsFinite ==
    ASSUME Calculated, SlaInv
    PROVE  IsFiniteSet(Incidents) /\ Incidents \subseteq DOMAIN alarms
<1>1. IsFiniteSet(1..Len(alarms)) /\ DOMAIN alarms = 1..Len(alarms)
  BY FS_Interval DEF SlaInv
<1> QED BY <1>1, FS_Subset, IncidentsAre DEF Outages

LEMMA DowntimeSettles ==
    ASSUME Calculated, SlaInv, [SlaNext]_slaVars, NoticedNow, clock >= MonthEnd, OrderlyWindows
    PROVE  UnplannedDowntime' = UnplannedDowntime
<1>1. \A i \in DOMAIN alarms : /\ i \in DOMAIN alarms'
                               /\ alarms'[i].block = alarms[i].block
                               /\ alarms'[i].priority = alarms[i].priority
  BY AlarmStays DEF AlarmRows
<1>2. PICK I : I = Incidents /\ IsFiniteSet(I) /\ I \subseteq DOMAIN alarms
  BY IncidentsFinite
<1>3. PICK f : f = [i \in I |-> Unplanned(alarms[i])]
  OBVIOUS
<1>4. UnplannedDowntime = SumFunction(f)
  BY <1>2, <1>3 DEF UnplannedDowntime
<1>5. PICK g : g = [i \in Incidents' |-> Unplanned(alarms[i])'] /\ UnplannedDowntime' = SumFunction(g)
  BY DEF UnplannedDowntime
<1>6. \A i \in I : Unplanned(alarms[i])' = Unplanned(alarms[i])
  BY <1>2, CostSettles
<1>7. CASE DOMAIN alarms' = DOMAIN alarms
  <2>1. Incidents' = I
    BY <1>1, <1>2, <1>7, IncidentsAre DEF Outages
  <2>2. g = f
    BY <1>3, <1>5, <1>6, <2>1
  <2> QED BY <1>4, <1>5, <2>2
<1>8. ASSUME NEW k \in AlarmKinds, RaiseAlarm(k) PROVE UnplannedDowntime' = UnplannedDowntime
  <2>1. PICK n : n = Len(alarms) + 1 /\ n \in Nat /\ n \notin DOMAIN alarms /\ DOMAIN alarms' = DOMAIN alarms \cup {n}
    BY <1>8 DEF RaiseAlarm, SlaInv
  <2>2. Incidents' = I \/ Incidents' = I \cup {n}
    BY <1>1, <1>2, <2>1, IncidentsAre DEF Outages
  <2>3. CASE Incidents' = I
    <3>1. g = f
      BY <1>3, <1>5, <1>6, <2>3
    <3> QED BY <1>4, <1>5, <3>1
  <2>4. CASE Incidents' = I \cup {n}
    <3>0. /\ clock \in Nat /\ clock' = clock /\ alarms' \in Seq(AlarmRows)
          /\ IsFiniteSet(ValidWindows') /\ ValidWindows' \subseteq WindowRows
      <4>1. ValidWindows' = ValidWindows
        BY <1>8 DEF RaiseAlarm, ValidWindows, PlannedMaintenance, IsValidExclusion
      <4> QED BY <1>8, <4>1, SlaStep, ValidTyped DEF RaiseAlarm, SlaInv
    <3>1. PICK a \in AlarmRows : a = alarms'[n] /\ a.raised = clock /\ a.cleared = Never
      BY <1>8, <2>1, <3>0 DEF RaiseAlarm, SlaInv
    <3>2. Duration(a) = 0
      <4>1. Max({clock, MonthStart}) = clock /\ AtLeastZero(MonthEnd - clock) = 0
        BY <3>0, MaxOfTwo, MinOfTwo, PeriodAssumption DEF AtLeastZero
      <4> QED BY <3>1, <4>1 DEF Duration
    <3>3. Unplanned(a)' = 0
      <4>1. MaintenanceOverlap(a)' = OverlapUpto(a, clock, ValidWindows')
        BY <3>0, <3>1 DEF MaintenanceOverlap, OverlapUpto, Shared
      <4>2. PICK m \in Nat : m = MaintenanceOverlap(a)'
        BY <3>0, <3>1, <4>1, OverlapIsNatural
      <4>3. Min({m, 0}) = 0
        BY MaxOfTwo, MinOfTwo
      <4>4. Duration(a)' = 0
        BY <3>2 DEF Duration
      <4> QED BY <4>2, <4>3, <4>4 DEF Unplanned, ExcludedDowntime
    <3>4. g[n] = 0
      BY <1>5, <2>4, <3>1, <3>3, NextCost
    <3>5. f = [i \in DOMAIN g \ {n} |-> g[i]]
      BY <1>2, <1>3, <1>5, <1>6, <2>1, <2>4
    <3>6. \A i \in I : f[i] \in Nat
      BY <1>2, <1>3, CostIsNatural, AlarmStays
    <3>7. DOMAIN f = I /\ DOMAIN g = I \cup {n} /\ IsFiniteSet(I \cup {n})
      BY <1>2, <1>3, <1>5, <2>4, FS_AddElement
    <3>8. IntSum(f) /\ IntSum(g) /\ n \in DOMAIN g
      <4>1. \A i \in I : g[i] = f[i]
        BY <2>1, <1>2, <3>5, <3>7
      <4> QED BY <1>2, <3>4, <3>6, <3>7, <4>1 DEF IntSum
    <3>9. SumFunction(g) = g[n] + SumFunction(f) /\ SumFunction(f) \in Int
      BY <3>5, <3>8, SumMore, SumSplit
    <3> QED BY <1>4, <1>5, <3>4, <3>9
  <2> QED BY <2>2, <2>3, <2>4
<1>9. DOMAIN alarms' = DOMAIN alarms \/ \E k \in AlarmKinds : RaiseAlarm(k)
  BY DEF SlaNext, Pass, EnterWindow, ClearAlarm, slaVars, SlaInv
<1> QED BY <1>7, <1>8, <1>9

LEMMA ReportStays ==
    ASSUME Calculated, SlaInv, [SlaNext]_slaVars, NoticedNow, clock >= MonthEnd, OrderlyWindows
    PROVE  [Report EXCEPT !.active = 0]' = [Report EXCEPT !.active = 0]
<1>1. UnplannedDowntime' = UnplannedDowntime
  BY DowntimeSettles
<1>2. ~InMonth /\ ~InMonth'
  <2>1. clock' \in Nat /\ (clock' = clock \/ clock' > clock)
    BY SlaStep DEF SlaInv, SlaNext, Pass, RaiseAlarm, ClearAlarm, EnterWindow, slaVars
  <2> QED BY <2>1, PeriodAssumption DEF InMonth, SlaInv
<1>3. \A d, met : BreachWarning(d, met)' = BreachWarning(d, met)
  BY <1>2 DEF BreachWarning
<1>4. PICK d : d = UnplannedDowntime /\ d = UnplannedDowntime'
  BY <1>1
<1>5. PICK pct, credit, fee, met, warning :
        /\ pct = AvailabilityPct(d) /\ credit = SlaCreditPct(pct) /\ fee = HalfUp(Fee * credit, 100)
        /\ met = (pct >= Target) /\ warning = BreachWarning(d, met)
  OBVIOUS
<1>6. Report = [downtime |-> d, availability |-> pct, met |-> met, tier |-> credit, credit |-> fee,
                warning |-> warning, active |-> Cardinality({i \in Incidents : alarms[i].cleared = Never})]
  BY <1>4, <1>5 DEF Report
<1>7. Report' = [downtime |-> d, availability |-> pct, met |-> met, tier |-> credit, credit |-> fee,
                 warning |-> warning, active |-> Cardinality({i \in Incidents : alarms[i].cleared = Never})']
  <2>1. warning = BreachWarning(d, met)'
    BY <1>3, <1>5
  <2> QED BY <1>4, <1>5, <2>1 DEF Report
<1> QED BY <1>6, <1>7

\* What a cleared incident costs stays what it is, and the report of a month that is over with
\* it, whatever is raised, cleared or announced later, where the alarms are answered as the
\* engine reads them and no notice is entered for another time (calculate).
THEOREM ReportIsFinal == SlaSpec => ReportSettles
<1>1. ASSUME SlaInv, [SlaNext]_slaVars
      PROVE  Calculated /\ NoticedNow =>
             /\ \A i \in DOMAIN alarms :
                  alarms[i].cleared # Never => Unplanned(alarms[i])' >= Unplanned(alarms[i])
             /\ clock >= MonthEnd /\ OrderlyWindows =>
                  [Report EXCEPT !.active = 0]' = [Report EXCEPT !.active = 0]
  <2>1. ASSUME NoticedNow, NEW i \in DOMAIN alarms, alarms[i].cleared # Never
        PROVE  Unplanned(alarms[i])' >= Unplanned(alarms[i])
    <3>1. Unplanned(alarms[i])' = Unplanned(alarms[i])
      BY <1>1, <2>1, ClearedCostStays
    <3>2. Unplanned(alarms[i]) \in Nat
      BY <1>1, CostIsNatural, AlarmStays
    <3> QED BY <3>1, <3>2
  <2> QED BY <1>1, <2>1, ReportStays
<1> QED BY <1>1, SlaInvariant, PTL DEF SlaSpec, ReportSettles

-----------------------------------------------------------------------------

LEMMA HoursCounted ==
    ASSUME NEW a \in Int, NEW b \in Int
    PROVE  IsFiniteSet(Hours(a, b)) /\ Cardinality(Hours(a, b)) = AtLeastZero(b - a)
<1>1. CASE a < b
  BY <1>1, FS_Interval DEF Hours, AtLeastZero
<1>2. CASE ~(a < b)
  <2>1. Hours(a, b) = {}
    BY <1>2 DEF Hours
  <2> QED BY <1>2, <2>1, FS_EmptySet DEF AtLeastZero
<1> QED BY <1>1, <1>2

\* The hours of the month in which an alarm stood, and those of them that maintenance excuses.
HoursOf(a) == Hours(MonthStart, MonthEnd) \cap
              Hours(a.raised, IF a.cleared = Never THEN MonthEnd ELSE a.cleared[1])

LEMMA DurationCounts ==
    ASSUME SlaInv, NEW a \in AlarmRows
    PROVE  IsFiniteSet(HoursOf(a)) /\ Cardinality(HoursOf(a)) = Duration(a)
<1>1. a.raised \in Nat /\ a.cleared \in Ends
  BY DEF AlarmRows
<1>2. PICK s : s = Max({a.raised, MonthStart})
  OBVIOUS
<1>3. PICK e : e = IF a.cleared = Never THEN MonthEnd ELSE Min({a.cleared[1], MonthEnd})
  OBVIOUS
<1>4. s \in Nat /\ e \in Nat /\ HoursOf(a) = Hours(s, e)
  <2>1. s = IF a.raised >= MonthStart THEN a.raised ELSE MonthStart
    BY <1>1, <1>2, MaxOfTwo, PeriodAssumption
  <2>2. CASE a.cleared = Never
    BY <1>1, <1>3, <2>1, <2>2, PeriodAssumption DEF HoursOf, Hours
  <2>3. CASE a.cleared # Never
    <3>1. a.cleared[1] \in Nat
      BY <1>1, <2>3, EndIs
    <3>2. e = IF a.cleared[1] <= MonthEnd THEN a.cleared[1] ELSE MonthEnd
      BY <1>3, <2>3, <3>1, MinOfTwo, PeriodAssumption
    <3> QED BY <1>1, <2>1, <2>3, <3>1, <3>2, PeriodAssumption DEF HoursOf, Hours
  <2> QED BY <2>2, <2>3
<1>5. Duration(a) = AtLeastZero(e - s)
  BY <1>2, <1>3 DEF Duration
<1> QED BY <1>4, <1>5, HoursCounted

\* The hours gone by that were announced in time.
Excused == Past(Announced)

\* The windows of the month excuse the hours they share with the alarm, each once.
LEMMA OverlapCounts ==
    ASSUME SlaInv, OrderlyWindows, NEW a \in AlarmRows,
           a.cleared # Never => a.cleared[1] <= clock
    PROVE  MaintenanceOverlap(a) = Cardinality(HoursOf(a) \cap Excused)
<1>1. /\ a.raised \in Nat /\ a.cleared \in Ends /\ clock \in Nat
      /\ (a.cleared # Never => a.cleared[1] \in Nat)
  BY EndIs DEF AlarmRows, SlaInv
<1>2. PICK D, e : D = ValidWindows /\ e = EndNow(a)
  OBVIOUS
<1>3. e \in Nat /\ e <= clock /\ IsFiniteSet(D) /\ D \subseteq WindowRows
  BY <1>1, <1>2, ValidTyped DEF EndNow
<1>4. PICK F : F = [w \in D |-> Hours(Max({a.raised, w.start}), Min({e, w.end}))]
  OBVIOUS
<1>5. \A w \in D : w.start \in Nat /\ w.end \in Nat
  BY <1>3 DEF WindowRows
<1>6. ASSUME NEW w \in D
      PROVE  /\ IsFiniteSet(F[w]) /\ Cardinality(F[w]) = Shared(a, e, w)
             /\ F[w] = {h \in Int : a.raised <= h /\ h < e /\ w.start <= h /\ h < w.end}
  <2>1. PICK s, t : s = Max({a.raised, w.start}) /\ t = Min({e, w.end})
    OBVIOUS
  <2>2. /\ s = IF a.raised >= w.start THEN a.raised ELSE w.start
        /\ t = IF e <= w.end THEN e ELSE w.end
    BY <1>1, <1>3, <1>5, <2>1, MaxOfTwo, MinOfTwo
  <2>3. s \in Int /\ t \in Int /\ F[w] = Hours(s, t)
    <3>1. F[w] = Hours(s, t)
      BY <1>4, <2>1
    <3> QED BY <1>1, <1>3, <1>5, <2>2, <3>1
  <2>4. F[w] = {h \in Int : a.raised <= h /\ h < e /\ w.start <= h /\ h < w.end}
    BY <1>1, <1>3, <1>5, <2>2, <2>3 DEF Hours
  <2>5. Shared(a, e, w) = AtLeastZero(t - s)
    BY <2>1 DEF Shared
  <2> QED BY <2>3, <2>4, <2>5, HoursCounted
<1>7. DOMAIN F = D
  BY <1>4
<1>8. \A v, w \in D : v # w => F[v] \cap F[w] = {}
  <2> SUFFICES ASSUME NEW v \in D, NEW w \in D, v # w, NEW h \in F[v], h \in F[w] PROVE FALSE
    OBVIOUS
  <2>1. h \in Int /\ v.start <= h /\ h < v.end /\ w.start <= h /\ h < w.end
    BY <1>6
  <2>2. v.end <= w.start \/ w.end <= v.start
    BY <1>2 DEF OrderlyWindows, Disjoint
  <2> QED BY <1>5, <2>1, <2>2
<1>9. PICK U : U = UNION {F[w] : w \in D}
  OBVIOUS
<1>10. Cardinality(U) = SumFunction([w \in D |-> Cardinality(F[w])])
  <2>1. /\ IsFiniteSet(DOMAIN F) /\ \A w \in DOMAIN F : IsFiniteSet(F[w])
        /\ \A v, w \in DOMAIN F : v # w => F[v] \cap F[w] = {}
    BY <1>3, <1>6, <1>7, <1>8
  <2>2. Cardinality(UNION {F[w] : w \in DOMAIN F}) = SumFunction([w \in DOMAIN F |-> Cardinality(F[w])])
    BY <2>1, CountUnion
  <2> QED BY <1>7, <1>9, <2>2
<1>11. [w \in D |-> Cardinality(F[w])] = [w \in D |-> Shared(a, e, w)]
  BY <1>6
<1>12. MaintenanceOverlap(a) = Cardinality(U)
  BY <1>2, <1>10, <1>11, OverlapIs DEF OverlapUpto
<1>13. U = HoursOf(a) \cap Excused
  <2>1. ASSUME NEW h \in U PROVE h \in HoursOf(a) \cap Excused
    <3>1. PICK w \in D : h \in F[w]
      BY <1>9
    <3>2. h \in Int /\ a.raised <= h /\ h < e /\ w.start <= h /\ h < w.end
      BY <1>6, <3>1
    <3>3. MonthStart <= w.start /\ w.end <= MonthEnd
      BY <1>2 DEF OrderlyWindows, InsideMonth
    <3>4. h \in Hours(MonthStart, MonthEnd)
      BY <1>5, <3>2, <3>3, PeriodAssumption DEF Hours
    <3>5. h \in Hours(a.raised, IF a.cleared = Never THEN MonthEnd ELSE a.cleared[1])
      BY <1>1, <1>2, <1>5, <3>2, <3>3, PeriodAssumption DEF Hours, EndNow
    <3>6. w \in windows /\ w.block \in Blocks /\ w.notice # Never /\ w.notice[1] <= w.start - 48
      BY <1>2 DEF ValidWindows, PlannedMaintenance, IsValidExclusion
    <3>7. w.notice[1] \in Nat
      BY <1>3, <3>6, EndIs DEF WindowRows
    <3>8. h \in Announced
      <4>1. w.start - w.notice[1] >= 48
        BY <1>5, <3>6, <3>7
      <4>2. h \in Hours(w.start, w.end)
        BY <1>5, <3>2 DEF Hours
      <4> QED BY <3>6, <4>1, <4>2 DEF Announced
    <3>9. h < clock
      BY <1>1, <1>3, <3>2
    <3> QED BY <3>4, <3>5, <3>8, <3>9 DEF HoursOf, Excused, Past
  <2>2. ASSUME NEW h \in HoursOf(a) \cap Excused PROVE h \in U
    <3>1. PICK w \in windows : /\ w.block \in Blocks /\ w.notice # Never
                               /\ w.start - w.notice[1] >= 48 /\ h \in Hours(w.start, w.end)
      BY <2>2 DEF Excused, Past, Announced
    <3>2. w \in WindowRows /\ w.start \in Nat /\ w.end \in Nat /\ w.notice[1] \in Nat
      BY <3>1, EndIs DEF SlaInv, WindowRows
    <3>3. h < clock /\ h \in Hours(MonthStart, MonthEnd)
      BY <2>2 DEF Excused, Past, HoursOf
    <3>4. /\ h \in Int /\ w.start <= h /\ h < w.end /\ MonthStart <= h /\ h < MonthEnd
      BY <3>1, <3>2, <3>3, PeriodAssumption DEF Hours
    <3>5. w \in D
      <4>1. w.start < MonthEnd /\ w.end > MonthStart
        BY <3>2, <3>4, PeriodAssumption
      <4>2. w.notice[1] <= w.start - 48
        BY <3>1, <3>2
      <4> QED BY <1>2, <3>1, <4>1, <4>2 DEF ValidWindows, PlannedMaintenance, IsValidExclusion
    <3>6. a.raised <= h /\ h < e
      <4>1. h \in Hours(a.raised, IF a.cleared = Never THEN MonthEnd ELSE a.cleared[1])
        BY <2>2 DEF HoursOf
      <4> QED BY <1>1, <1>2, <3>3, <3>4, <4>1, PeriodAssumption DEF Hours, EndNow
    <3>7. h \in F[w]
      BY <1>6, <3>4, <3>5, <3>6
    <3> QED BY <1>9, <3>5, <3>7
  <2> QED BY <2>1, <2>2
<1> QED BY <1>12, <1>13

\* What an alarm costs is the hours in which it stood that no maintenance excuses.
LEMMA CostCounts ==
    ASSUME SlaInv, OrderlyWindows, NEW a \in AlarmRows, a.cleared # Never => a.cleared[1] <= clock
    PROVE  IsFiniteSet(HoursOf(a) \ Excused) /\ Unplanned(a) = Cardinality(HoursOf(a) \ Excused)
<1>1. PICK H : H = HoursOf(a) /\ IsFiniteSet(H) /\ Cardinality(H) = Duration(a)
  BY DurationCounts
<1>2. /\ IsFiniteSet(H \cap Excused) /\ IsFiniteSet(H \ Excused)
      /\ Cardinality(H \cap Excused) <= Cardinality(H)
      /\ Cardinality(H \ Excused) = Cardinality(H) - Cardinality(H \cap Excused)
      /\ Cardinality(H) \in Nat /\ Cardinality(H \cap Excused) \in Nat
  BY <1>1, FS_Difference, FS_Intersection, FS_CardinalityType
<1>3. PICK m \in Nat, d \in Nat : m = Cardinality(H \cap Excused) /\ d = Cardinality(H) /\ m <= d
  BY <1>2
<1>4. MaintenanceOverlap(a) = m /\ Duration(a) = d
  BY <1>1, <1>3, OverlapCounts
<1>5. Min({m, d}) = m
  <2>1. m \in Int /\ d \in Int /\ m <= d
    BY <1>3
  <2> QED BY <2>1, MinOfTwo
<1> QED BY <1>1, <1>2, <1>3, <1>4, <1>5 DEF Unplanned, ExcludedDowntime

LEMMA DowntimeNatural == ASSUME Calculated, SlaInv PROVE UnplannedDowntime \in Nat
<1>1. PICK I : I = Incidents /\ IsFiniteSet(I) /\ I \subseteq DOMAIN alarms
  BY IncidentsFinite
<1>2. PICK f : f = [i \in I |-> Unplanned(alarms[i])]
  OBVIOUS
<1>3. f \in [I -> Nat] /\ UnplannedDowntime = SumFunction(f)
  <2>1. \A i \in I : alarms[i] \in AlarmRows
    BY <1>1 DEF SlaInv
  <2> QED BY <1>1, <1>2, <2>1, CostIsNatural DEF UnplannedDowntime
<1> QED BY <1>1, <1>3, SumOfNaturals

\* The downtime reported is at least the hours due, and exactly they when no two incidents
\* overlap.
LEMMA DowntimeCounts ==
    ASSUME Calculated, SlaInv, OrderlyWindows
    PROVE  /\ UnplannedDowntime \in Nat
           /\ UnplannedDowntime >= Cardinality(DownHours \ Excused)
           /\ (\A i, j \in Incidents : i # j => HoursOf(alarms[i]) \cap HoursOf(alarms[j]) = {})
                => UnplannedDowntime = Cardinality(DownHours \ Excused)
<1>1. PICK I : I = Incidents /\ IsFiniteSet(I) /\ I \subseteq DOMAIN alarms
  BY IncidentsFinite
<1>2. PICK F : F = [i \in I |-> HoursOf(alarms[i]) \ Excused]
  OBVIOUS
<1>3. \A i \in I : /\ IsFiniteSet(F[i]) /\ Unplanned(alarms[i]) = Cardinality(F[i])
                   /\ Unplanned(alarms[i]) \in Nat
  <2> SUFFICES ASSUME NEW i \in I
               PROVE  /\ IsFiniteSet(F[i]) /\ Unplanned(alarms[i]) = Cardinality(F[i])
                      /\ Unplanned(alarms[i]) \in Nat
    OBVIOUS
  <2>1. PICK a \in AlarmRows : a = alarms[i] /\ (a.cleared # Never => a.cleared[1] <= clock)
    BY <1>1 DEF SlaInv
  <2> QED BY <1>2, <2>1, CostCounts, CostIsNatural
<1>4. DOMAIN F = I
  BY <1>2
<1>5. UnplannedDowntime = SumFunction([i \in I |-> Cardinality(F[i])])
  <2>1. [i \in Incidents |-> Unplanned(alarms[i])] = [i \in I |-> Cardinality(F[i])]
    BY <1>1, <1>3
  <2> QED BY <2>1 DEF UnplannedDowntime
<1>6. PICK U : U = UNION {F[i] : i \in I}
  OBVIOUS
<1>7. U = DownHours \ Excused
  BY <1>1, <1>2, <1>6, IncidentsAre DEF DownHours, HoursOf
<1>8. /\ Cardinality(U) <= UnplannedDowntime
      /\ (\A i, j \in I : i # j => F[i] \cap F[j] = {}) => Cardinality(U) = UnplannedDowntime
  <2>1. IsFiniteSet(DOMAIN F) /\ \A i \in DOMAIN F : IsFiniteSet(F[i])
    BY <1>1, <1>3, <1>4
  <2>2. LET V == UNION {F[i] : i \in DOMAIN F}
            n == SumFunction([i \in DOMAIN F |-> Cardinality(F[i])])
        IN  /\ Cardinality(V) <= n
            /\ (\A i, j \in DOMAIN F : i # j => F[i] \cap F[j] = {}) => Cardinality(V) = n
    BY <2>1, CountUnion
  <2> QED BY <1>4, <1>5, <1>6, <2>2
<1>9. UnplannedDowntime \in Nat
  BY DowntimeNatural
<1>10. ASSUME \A i, j \in Incidents : i # j => HoursOf(alarms[i]) \cap HoursOf(alarms[j]) = {}
       PROVE  \A i, j \in I : i # j => F[i] \cap F[j] = {}
  BY <1>1, <1>2, <1>10
<1>11. Cardinality(U) \in Nat
  <2>1. IsFiniteSet(U)
    <3>1. IsFiniteSet(DOMAIN F) /\ \A i \in DOMAIN F : IsFiniteSet(F[i])
      BY <1>1, <1>3, <1>4
    <3>2. IsFiniteSet(UNION {F[i] : i \in DOMAIN F})
      BY <3>1, CountUnion
    <3> QED BY <1>4, <1>6, <3>2
  <2> QED BY <2>1, FS_CardinalityType
<1> QED BY <1>7, <1>8, <1>9, <1>10, <1>11

\* Two incidents of which the first is over when the second begins share no hour.
LEMMA ApartIncidents ==
    ASSUME SlaInv, NEW a \in AlarmRows, NEW b \in AlarmRows,
           ~(Duration(a) > 0 /\ Duration(b) > 0 /\ (a.cleared = Never \/ a.cleared[1] > b.raised))
    PROVE  HoursOf(a) \cap HoursOf(b) = {}
<1>1. /\ IsFiniteSet(HoursOf(a)) /\ Cardinality(HoursOf(a)) = Duration(a) /\ Duration(a) \in Nat
      /\ IsFiniteSet(HoursOf(b)) /\ Cardinality(HoursOf(b)) = Duration(b) /\ Duration(b) \in Nat
  BY DurationCounts, CostIsNatural
<1>2. CASE ~(Duration(a) > 0)
  <2>1. HoursOf(a) = {}
    BY <1>1, <1>2, FS_EmptySet
  <2> QED BY <2>1
<1>3. CASE ~(Duration(b) > 0)
  <2>1. HoursOf(b) = {}
    BY <1>1, <1>3, FS_EmptySet
  <2> QED BY <2>1
<1>4. CASE a.cleared # Never /\ ~(a.cleared[1] > b.raised)
  <2>1. a.cleared[1] \in Nat /\ b.raised \in Nat /\ b.cleared \in Ends
    BY <1>4, EndIs DEF AlarmRows
  <2> SUFFICES ASSUME NEW h \in HoursOf(a), h \in HoursOf(b) PROVE FALSE
    OBVIOUS
  <2>2. h \in Int /\ h < a.cleared[1] /\ h >= b.raised
    BY <1>4, <2>1, PeriodAssumption DEF HoursOf, Hours
  <2> QED BY <1>4, <2>1, <2>2
<1> QED BY <1>2, <1>3, <1>4

\* The highest of the targets is one of them.
LEMMA TargetIsOne == Target \in {990000, 999000, 999900}
<1>1. PICK x, y, z : x = 990000 /\ y = 999000 /\ z = 999900
  BY SMT
<1>2. x \in Int /\ y \in Int /\ z \in Int /\ x < y /\ y < z
  BY <1>1, SMT
<1>3. PICK S : S = {SlaTargets[Class[b]] : b \in Blocks}
  BY Zenon
<1>4. S \subseteq {x, y, z} /\ S # {}
  BY <1>1, <1>3, PeriodAssumption, SMT DEF SlaTargets
<1>5. \E u \in S : \A v \in S : u >= v
  <2>1. CASE z \in S
    BY <1>2, <1>4, <2>1, SMT
  <2>2. CASE z \notin S /\ y \in S
    BY <1>2, <1>4, <2>2, SMT
  <2>3. CASE z \notin S /\ y \notin S
    <3>1. S = {x}
      BY <1>4, <2>3, Zenon
    <3> QED BY <1>2, <3>1, SMT
  <2> QED BY <2>1, <2>2, <2>3, SMT
<1>6. Max(S) \in S
  BY <1>5, SMT DEF Max
<1> QED BY <1>1, <1>3, <1>4, <1>6, SMT DEF Target

\* Below the target there is a tier, and each tier has a credit.
LEMMA CreditIsDue ==
    ASSUME NEW pct \in Int
    PROVE  ((pct >= Target) <=> SlaCreditPct(pct) = 0) /\ SlaCreditPct(pct) \in Nat
<1>1. PICK t \in Int : t = Target
  BY TargetIsOne
<1>2. CASE pct >= Target
  BY <1>2, SMT DEF SlaCreditPct
<1>3. CASE ~(pct >= Target)
  <2>1. PICK T : T = {i \in DOMAIN SlaCreditTiers : pct < Target - SlaCreditTiers[i].below}
    OBVIOUS
  <2>2. DOMAIN SlaCreditTiers = 1..4 /\ SlaCreditTiers[4].below = 0
    BY SMT DEF SlaCreditTiers
  <2>3. 4 \in T /\ T \subseteq 1..4 /\ T \in SUBSET Nat
    BY <1>1, <1>3, <2>1, <2>2, SMT
  <2>4. Min(T) \in T
    <3>1. \E n \in T : \A m \in T : n <= m
      BY <2>3, LeastNatural
    <3> QED BY <3>1 DEF Min
  <2>5. PICK i \in 1..4 : i = Min(T)
    BY <2>3, <2>4
  <2>6. SlaCreditPct(pct) = SlaCreditTiers[i].credit
    BY <1>3, <2>1, <2>5, SMT DEF SlaCreditPct
  <2>7. SlaCreditTiers[i].credit \in Nat \ {0}
    BY <2>5, SMT DEF SlaCreditTiers
  <2> QED BY <1>3, <2>6, <2>7
<1> QED BY <1>2, <1>3

LEMMA WarnedBelow ==
    ASSUME NEW d, NEW met \in BOOLEAN, ~InMonth
    PROVE  BreachWarning(d, met) <=> ~met
BY SMT DEF BreachWarning

\* Where the alarms are answered as the engine reads them, the downtime reported is what the
\* customer really had and nobody announced, credit is due exactly below the target, and
\* outside the month exactly then a breach is announced (calculate, _maintenance_overlap,
\* get_sla_credit_pct).
THEOREM DowntimeIsAsAgreed == SlaSpec => []AvailabilityAsAgreed
<1>1. ASSUME SlaInv, Calculated PROVE AvailabilityAsAgreed
  <2>1. PICK d, pct : d = UnplannedDowntime /\ pct = AvailabilityPct(d)
    OBVIOUS
  <2>2. /\ Report.downtime = d /\ Report.met = (pct >= Target) /\ Report.tier = SlaCreditPct(pct)
        /\ Report.warning = BreachWarning(d, pct >= Target)
    BY <2>1 DEF Report
  <2>3. ASSUME OrderlyWindows
        PROVE  LET due     == Cardinality(DownHours \ Past(Announced))
                   overlap == \E i, j \in Outages :
                                 /\ i < j
                                 /\ Duration(alarms[i]) > 0 /\ Duration(alarms[j]) > 0
                                 /\ \/ alarms[i].cleared = Never
                                    \/ alarms[i].cleared[1] > alarms[j].raised
               IN  Report.downtime >= due /\ (~overlap => Report.downtime = due)
    <3>1. d \in Nat /\ d >= Cardinality(DownHours \ Excused)
      BY <1>1, <2>1, <2>3, DowntimeCounts
    <3>2. ASSUME ~\E i, j \in Outages :
                     /\ i < j
                     /\ Duration(alarms[i]) > 0 /\ Duration(alarms[j]) > 0
                     /\ \/ alarms[i].cleared = Never
                        \/ alarms[i].cleared[1] > alarms[j].raised
          PROVE  d = Cardinality(DownHours \ Excused)
      <4>1. Outages \subseteq Nat /\ \A i \in Outages : alarms[i] \in AlarmRows
        BY <1>1 DEF SlaInv, Outages
      <4>2. ASSUME NEW i \in Outages, NEW j \in Outages, i < j
            PROVE  HoursOf(alarms[i]) \cap HoursOf(alarms[j]) = {}
        BY <1>1, <3>2, <4>1, <4>2, ApartIncidents
      <4>3. \A i, j \in Outages : i # j => HoursOf(alarms[i]) \cap HoursOf(alarms[j]) = {}
        BY <4>1, <4>2
      <4> QED BY <1>1, <2>1, <2>3, <4>3, IncidentsAre, DowntimeCounts
    <3> QED BY <2>2, <3>1, <3>2 DEF Excused
  <2>4. (Report.met <=> Report.tier = 0) /\ (~InMonth => (Report.warning <=> Report.tier > 0))
    <3>1. d \in Int
      BY <1>1, <2>1, DowntimeNatural
    <3>2. pct \in Int
      BY <2>1, <3>1, PeriodAssumption, SMT DEF AvailabilityPct, HalfUp, Minutes
    <3>3. (pct >= Target) <=> SlaCreditPct(pct) = 0
      BY <3>2, CreditIsDue
    <3>4. PICK met : met = (pct >= Target)
      OBVIOUS
    <3>5. Target \in Int
      BY TargetIsOne, SMT
    <3>6. met \in BOOLEAN
      BY <3>2, <3>4, <3>5
    <3>7. ~InMonth => (BreachWarning(d, met) <=> ~met)
      BY <3>6, WarnedBelow
    <3>8. PICK n \in Nat : n = SlaCreditPct(pct) /\ (met <=> n = 0)
      BY <3>2, <3>3, <3>4, CreditIsDue
    <3>9. (n = 0 <=> ~(n > 0)) /\ Report.tier = n
      BY <2>2, <3>8
    <3>10. (Report.met <=> met) /\ (Report.warning <=> BreachWarning(d, met))
      BY <2>2, <3>4
    <3>11. Report.met <=> Report.tier = 0
      BY <3>8, <3>9, <3>10
    <3>12. ~InMonth => (Report.warning <=> Report.tier > 0)
      BY <3>7, <3>8, <3>9, <3>10
    <3> QED BY <3>11, <3>12
  <2> QED BY <2>3, <2>4 DEF AvailabilityAsAgreed
<1>2. SlaInv => AvailabilityAsAgreed
  BY <1>1 DEF AvailabilityAsAgreed
<1> QED BY <1>2, SlaInvariant, PTL DEF SlaSpec

-----------------------------------------------------------------------------
(* HeatExport and CarbonReport.  The plant and its history.                *)

\* q is a sequence of events: those that happened by t, and what the latest of them says.
Happened(q, t) == {i \in DOMAIN q : q[i].at <= t}
ModeOf(q, t)   == IF Happened(q, t) = {} THEN FirstMode ELSE q[Max(Happened(q, t))].mode
RunsAt(q, t)   == Happened(q, t) # {} /\ q[Max(Happened(q, t))].generator

HeatOfSample(s) == ValueOf(s.flow) * AtLeastZero(ValueOf(s.supply) - ValueOf(s.back))
Products        == [t \in DOMAIN readings |-> HeatOfSample(readings[t])]
Delivering(m)   == {t \in Intervals(m) : t < now /\ ModeOf(events, t) \in ExportModes /\ Usable(readings[t])}
Running(m)      == {t \in Intervals(m) : t < now /\ RunsAt(events, t)}

EventRows  == [at : Nat, mode : {m.mode : m \in Modes}, generator : BOOLEAN]
InOrder(q) == \A i, j \in DOMAIN q : i < j => q[i].at < q[j].at

\* What was delivered, and how long a generator ran, is what the events and the samples say.
PlantInv ==
    /\ now \in Nat /\ readings \in [0..(now - 1) -> Samples]
    /\ events \in Seq(EventRows) /\ InOrder(events) /\ \A i \in DOMAIN events : events[i].at <= now
    /\ running = (events # <<>> /\ events[Len(events)].generator)
    /\ delivered = [m \in Months |-> SumOver(Products, Delivering(m))]
    /\ ran = [m \in Months |-> Hour * Cardinality(Running(m))]

LEMMA MonthSize == MonthIntervals \in Nat \ {0} /\ Hour \in Nat
<1>1. Days \in Nat \ {0} /\ DayIntervals \in Nat \ {0}
  BY PlantAssumption
<1>2. Days * DayIntervals \in Nat \ {0}
  BY <1>1
<1>3. 24 \div DayIntervals \in Int /\ 24 \div DayIntervals >= 0
  <2>1. PICK q : q = 24 \div DayIntervals
    OBVIOUS
  <2>2. q \in Int /\ 24 < DayIntervals * q + DayIntervals
    BY <1>1, <2>1, Quotient
  <2>3. DayIntervals * 0 < DayIntervals * q + DayIntervals
    BY <1>1, <2>2
  <2> QED BY <1>1, <2>1, <2>2, <2>3, TimesOrder
<1> QED BY <1>2, <1>3 DEF MonthIntervals, Hour

LEMMA MonthIs == ASSUME NEW m \in Months PROVE m \in Nat \ {0}
<1>1. Months = 1..Cardinality(Months) /\ IsFiniteSet(Months)
  BY PlantAssumption
<1>2. Cardinality(Months) \in Nat
  BY <1>1, FS_CardinalityType
<1> QED BY <1>1, <1>2

\* The intervals of a month are those whose month it is.
LEMMA InItsMonth ==
    ASSUME NEW m \in Nat \ {0}, NEW t \in Nat
    PROVE  t \in Intervals(m) <=> MonthOf(t) = m
<1>1. PICK b : b = MonthIntervals
  OBVIOUS
<1>2. b \in Nat \ {0} /\ m - 1 \in Int /\ t \in Int
  BY <1>1, MonthSize
<1>3. PICK lo, up : lo = (m - 1) * b /\ up = m * b
  OBVIOUS
<1>4. lo = b * (m - 1) /\ up = b * (m - 1) + b /\ lo \in Int /\ up \in Int
  BY <1>2, <1>3
<1>5. Intervals(m) = lo..(up - 1) /\ MonthOf(t) = t \div b + 1
  BY <1>1, <1>3 DEF Intervals, MonthOf
<1>6. ASSUME t \in Intervals(m) PROVE MonthOf(t) = m
  <2>1. lo <= t /\ t < up
    BY <1>2, <1>4, <1>5, <1>6
  <2>2. b * (m - 1) <= t /\ t < b * (m - 1) + b
    BY <1>4, <2>1
  <2>3. t \div b = m - 1
    BY <1>2, <2>2, QuotientIs
  <2> QED BY <1>2, <1>5, <2>3
<1>7. ASSUME MonthOf(t) = m PROVE t \in Intervals(m)
  <2>1. t \div b \in Int /\ b * (t \div b) <= t /\ t < b * (t \div b) + b
    BY <1>2, Quotient
  <2>2. t \div b = m - 1
    BY <1>5, <1>7, <2>1
  <2>3. lo <= t /\ t < up
    BY <1>4, <2>1, <2>2
  <2> QED BY <1>2, <1>4, <1>5, <2>3
<1> QED BY <1>6, <1>7

LEMMA IntervalsFinite == ASSUME NEW m \in Nat \ {0} PROVE IsFiniteSet(Intervals(m)) /\ Intervals(m) \subseteq Nat
<1>1. PICK a, b : a = (m - 1) * MonthIntervals /\ b = m * MonthIntervals - 1
  OBVIOUS
<1>2. a \in Nat /\ b \in Int
  BY <1>1, MonthSize
<1> QED BY <1>1, <1>2, FS_Interval DEF Intervals

LEMMA ValueIs == ASSUME NEW S, NEW V, Says(S, V), S # {} PROVE ValueOf(S) \in V
<1>1. PICK r \in S : S = {r} /\ r.value \in V
  BY DEF Says
<1>2. (CHOOSE x \in S : TRUE) = r
  BY <1>1
<1> QED BY <1>1, <1>2 DEF ValueOf

LEMMA HeatIsNatural == ASSUME NEW s \in Samples, Usable(s) PROVE HeatOfSample(s) \in Nat
<1>1. Says(s.flow, Nat) /\ Says(s.supply, Int) /\ Says(s.back, Int)
  BY PlantAssumption
<1>2. ValueOf(s.flow) \in Nat /\ ValueOf(s.supply) \in Int /\ ValueOf(s.back) \in Int
  BY <1>1, ValueIs DEF Usable
<1>3. AtLeastZero(ValueOf(s.supply) - ValueOf(s.back)) \in Nat
  BY <1>2 DEF AtLeastZero
<1> QED BY <1>2, <1>3 DEF HeatOfSample

\* An event says nothing of the time before it.
LEMMA EventsLater ==
    ASSUME NEW R, NEW q \in Seq(R), NEW e, NEW t, ~ (e.at <= t)
    PROVE  /\ ModeOf(Append(q, e), t) = ModeOf(q, t)
           /\ RunsAt(Append(q, e), t) = RunsAt(q, t)
<1>1. PICK r : r = Append(q, e)
  OBVIOUS
<1>2. /\ Len(q) \in Nat /\ DOMAIN q = 1..Len(q) /\ DOMAIN r = 1..(Len(q) + 1)
      /\ \A i \in DOMAIN q : r[i] = q[i]
      /\ r[Len(q) + 1] = e
  BY <1>1
<1>3. Happened(r, t) = Happened(q, t)
  BY <1>2 DEF Happened
<1>4. Happened(q, t) # {} => Max(Happened(q, t)) \in Happened(q, t)
  <2>1. IsFiniteSet(1..Len(q))
    BY <1>2, FS_Interval
  <2>2. Happened(q, t) \subseteq 1..Len(q) /\ Happened(q, t) \subseteq Int
    BY <1>2 DEF Happened
  <2>3. IsFiniteSet(Happened(q, t))
    BY <2>1, <2>2, FS_Subset
  <2> QED BY <2>2, <2>3, MaxExists
<1>5. Happened(q, t) # {} => r[Max(Happened(q, t))] = q[Max(Happened(q, t))]
  BY <1>2, <1>4 DEF Happened
<1> QED BY <1>1, <1>3, <1>5 DEF ModeOf, RunsAt

\* When all events have happened the last of them tells.
LEMMA EventsSoFar ==
    ASSUME NEW R, NEW q \in Seq(R), NEW t, \A i \in DOMAIN q : q[i].at <= t
    PROVE  /\ ModeOf(q, t) = IF q = <<>> THEN FirstMode ELSE q[Len(q)].mode
           /\ RunsAt(q, t) <=> q # <<>> /\ q[Len(q)].generator
<1>1. Happened(q, t) = 1..Len(q) /\ Len(q) \in Nat /\ (q = <<>> <=> Len(q) = 0)
  BY DEF Happened
<1>2. Len(q) > 0 => Max(1..Len(q)) = Len(q)
  <2> SUFFICES ASSUME Len(q) > 0 PROVE Max(1..Len(q)) = Len(q)
    OBVIOUS
  <2>0. Len(q) \in Int /\ 1 \in Int
    BY <1>1
  <2>1. IsFiniteSet(1..Len(q)) /\ 1..Len(q) \subseteq Int /\ Len(q) \in 1..Len(q)
    BY <1>1, <2>0, FS_Interval
  <2>2. Max(1..Len(q)) \in 1..Len(q) /\ Len(q) <= Max(1..Len(q))
    BY <2>1, MaxExists
  <2> QED BY <1>1, <2>2
<1> QED BY <1>1, <1>2 DEF ModeOf, RunsAt

LEMMA PlantStarts == PlantInit => PlantInv
<1> SUFFICES ASSUME PlantInit PROVE PlantInv
  OBVIOUS
<1>1. /\ now = 0 /\ events = <<>> /\ readings = <<>> /\ running = FALSE
      /\ delivered = [m \in Months |-> 0] /\ ran = [m \in Months |-> 0]
  BY DEF PlantInit
<1>2. ASSUME NEW m \in Months PROVE Delivering(m) = {} /\ Running(m) = {}
  <2>1. Intervals(m) \subseteq Nat
    BY MonthIs, IntervalsFinite
  <2>2. \A t \in Intervals(m) : ~ (t < now)
    BY <1>1, <2>1
  <2> QED BY <2>2 DEF Delivering, Running
<1>3. ASSUME NEW m \in Months PROVE SumOver(Products, Delivering(m)) = 0 /\ Hour * Cardinality(Running(m)) = 0
  BY <1>2, SumOverNone, FS_EmptySet, MonthSize
<1>4. readings \in [0..(now - 1) -> Samples]
  <2>1. 0..(now - 1) = {} /\ DOMAIN readings = {}
    BY <1>1
  <2> QED BY <1>1, <2>1
<1>5. events \in Seq(EventRows) /\ DOMAIN events = {}
  BY <1>1
<1> QED BY <1>1, <1>3, <1>4, <1>5 DEF PlantInv, InOrder

LEMMA SampleKeeps == ASSUME PlantInv, NEW s \in Samples, Sample(s) PROVE PlantInv'
<1>0. /\ now \in Nat /\ readings \in [0..(now - 1) -> Samples]
      /\ events \in Seq(EventRows) /\ InOrder(events) /\ \A i \in DOMAIN events : events[i].at <= now
      /\ running = (events # <<>> /\ events[Len(events)].generator)
      /\ delivered = [m \in Months |-> SumOver(Products, Delivering(m))]
      /\ ran = [m \in Months |-> Hour * Cardinality(Running(m))]
  BY DEF PlantInv
<1>1. /\ now' = now + 1 /\ events' = events /\ running' = running
      /\ readings' = [t \in 0..now |-> IF t = now THEN s ELSE readings[t]]
  BY DEF Sample
<1>2. readings' \in [0..(now' - 1) -> Samples] /\ DOMAIN readings' = 0..now
  BY <1>0, <1>1
<1>3. /\ \A t \in 0..(now - 1) : readings'[t] = readings[t]
      /\ readings'[now] = s /\ DOMAIN readings = 0..(now - 1)
  BY <1>0, <1>1
<1>4. PICK e, f : e = Products' /\ f = Products
  OBVIOUS
<1>5. (\A t \in 0..(now - 1) : e[t] = f[t]) /\ e[now] = HeatOfSample(s)
  BY <1>0, <1>2, <1>3, <1>4 DEF Products, HeatOfSample
<1>6. PICK here : here = MonthOf(now)
  OBVIOUS
<1>7. /\ Exporting <=> ModeOf(events, now) \in ExportModes
      /\ running = RunsAt(events, now)
  <2>1. /\ ModeOf(events, now) = IF events = <<>> THEN FirstMode ELSE events[Len(events)].mode
        /\ RunsAt(events, now) <=> events # <<>> /\ events[Len(events)].generator
    BY <1>0, EventsSoFar
  <2>2. Last(events) = events[Len(events)]
    BY DEF Last
  <2> QED BY <1>0, <2>1, <2>2 DEF Exporting, RunsAt
<1>8. ASSUME NEW m \in Months
      PROVE  /\ Delivering(m)' = Delivering(m) \cup
                  (IF m = here /\ Exporting /\ Usable(s) THEN {now} ELSE {})
             /\ Running(m)' = Running(m) \cup (IF m = here /\ running THEN {now} ELSE {})
             /\ Delivering(m) \subseteq 0..(now - 1) /\ Running(m) \subseteq 0..(now - 1)
  <2>1. Intervals(m) \subseteq Nat /\ (now \in Intervals(m) <=> m = here) /\ Intervals(m)' = Intervals(m)
    BY <1>0, <1>6, MonthIs, IntervalsFinite, InItsMonth DEF Intervals, MonthIntervals
  <2>2. \A t \in Intervals(m) : t < now' <=> (t < now \/ t = now)
    BY <1>0, <1>1, <2>1
  <2>3. \A t \in Intervals(m) : t < now => t \in 0..(now - 1)
    BY <1>0, <2>1
  <2>4. Delivering(m)' = {t \in Intervals(m) : t < now' /\ ModeOf(events, t) \in ExportModes /\ Usable(readings'[t])}
    BY <1>1, <2>1 DEF Delivering
  <2>5. Running(m)' = {t \in Intervals(m) : t < now' /\ RunsAt(events, t)}
    BY <1>1, <2>1 DEF Running
  <2>6. ~ (now < now)
    BY <1>0
  <2> HIDE DEF Exporting
  <2>7. ASSUME NEW t
        PROVE  t \in Delivering(m)' <=> t \in Delivering(m) \/ (t = now /\ m = here /\ Exporting /\ Usable(s))
    BY <1>3, <1>7, <2>1, <2>2, <2>3, <2>4, <2>6 DEF Delivering
  <2>8. ASSUME NEW t
        PROVE  t \in Running(m)' <=> t \in Running(m) \/ (t = now /\ m = here /\ running)
    BY <1>7, <2>1, <2>2, <2>5, <2>6 DEF Running
  <2>9. Delivering(m) \subseteq 0..(now - 1) /\ Running(m) \subseteq 0..(now - 1)
    BY <2>3 DEF Delivering, Running
  <2>10. Delivering(m)' = Delivering(m) \cup (IF m = here /\ Exporting /\ Usable(s) THEN {now} ELSE {})
    BY <2>7
  <2>11. Running(m)' = Running(m) \cup (IF m = here /\ running THEN {now} ELSE {})
    BY <2>8
  <2> QED BY <2>9, <2>10, <2>11
<1>9. now \notin 0..(now - 1) /\ IsFiniteSet(0..(now - 1))
  <2>1. 0 \in Int /\ now - 1 \in Int /\ now \notin 0..(now - 1)
    BY <1>0
  <2>2. IsFiniteSet(0..(now - 1))
    BY <2>1, FS_Interval
  <2> QED BY <2>1, <2>2
<1>10. delivered' = [m \in Months |-> IF m = here /\ Exporting /\ Usable(s)
                                      THEN delivered[m] + HeatOfSample(s) ELSE delivered[m]]
  BY <1>0, <1>6 DEF Sample, HeatOfSample
<1>11. ran' = [m \in Months |-> IF m = here /\ running THEN ran[m] + Hour ELSE ran[m]]
  BY <1>0, <1>6 DEF Sample
<1>12. ASSUME NEW m \in Months PROVE delivered'[m] = SumOver(e, Delivering(m)')
  <2>1. PICK S, T : S = Delivering(m) /\ T = Delivering(m)'
    OBVIOUS
  <2>2. delivered[m] = SumOver(f, S) /\ S \subseteq 0..(now - 1)
    BY <1>0, <1>4, <1>8, <2>1
  <2>3. Agree(e, f, S)
    BY <1>5, <2>2 DEF Agree
  <2>4. delivered[m] = SumOver(e, S)
    BY <2>2, <2>3, SameSum
  <2>5. CASE m = here /\ Exporting /\ Usable(s)
    <3>1. T = S \cup {now} /\ now \notin S /\ T \ {now} = S /\ now \in T
      BY <1>8, <1>9, <2>1, <2>2, <2>5
    <3>2. IntOn(e, T)
      <4>1. \A t \in S : Usable(readings[t]) /\ t \in 0..(now - 1)
        BY <2>1, <2>2 DEF Delivering
      <4>2. \A t \in S : f[t] = HeatOfSample(readings[t]) /\ readings[t] \in Samples
        BY <1>0, <1>3, <1>4, <4>1 DEF Products
      <4>3. \A t \in S : e[t] \in Nat
        BY <1>5, <4>1, <4>2, HeatIsNatural
      <4>4. e[now] \in Nat
        BY <1>5, <2>5, HeatIsNatural
      <4>5. IsFiniteSet(T)
        <5>1. IsFiniteSet(S)
          BY <1>9, <2>2, FS_Subset
        <5> QED BY <3>1, <5>1, FS_AddElement
      <4> QED BY <3>1, <4>3, <4>4, <4>5 DEF IntOn
    <3>3. SumOver(e, T) = e[now] + SumOver(e, S) /\ e[now] \in Int /\ SumOver(e, S) \in Int
      BY <3>1, <3>2, SumOverMore
    <3>4. delivered'[m] = delivered[m] + HeatOfSample(s)
      BY <1>10, <2>5
    <3> QED BY <1>5, <2>1, <2>4, <3>3, <3>4
  <2>6. CASE ~(m = here /\ Exporting /\ Usable(s))
    <3>1. T = S
      BY <1>8, <2>1, <2>6
    <3>2. delivered'[m] = delivered[m]
      BY <1>10, <2>6
    <3> QED BY <2>1, <2>4, <3>1, <3>2
  <2> QED BY <2>5, <2>6
<1>13. ASSUME NEW m \in Months PROVE ran'[m] = Hour * Cardinality(Running(m)')
  <2>1. PICK S, T : S = Running(m) /\ T = Running(m)'
    OBVIOUS
  <2>2. ran[m] = Hour * Cardinality(S) /\ S \subseteq 0..(now - 1) /\ Hour \in Nat
    BY <1>0, <1>8, <2>1, MonthSize
  <2>3. CASE m = here /\ running
    <3>1. T = S \cup {now} /\ now \notin S
      BY <1>8, <1>9, <2>1, <2>2, <2>3
    <3>2. Cardinality(T) = Cardinality(S) + 1 /\ Cardinality(S) \in Nat
      BY <1>9, <2>2, <3>1, FS_Subset, FS_AddElement, FS_CardinalityType
    <3>3. ran'[m] = ran[m] + Hour
      BY <1>11, <2>3
    <3>4. Hour * (Cardinality(S) + 1) = Hour * Cardinality(S) + Hour
      BY <2>2, <3>2
    <3> QED BY <2>1, <2>2, <3>2, <3>3, <3>4
  <2>4. CASE ~(m = here /\ running)
    BY <1>8, <1>11, <2>1, <2>2, <2>4
  <2> QED BY <2>3, <2>4
<1>14. /\ delivered' = [m \in Months |-> SumOver(e, Delivering(m)')]
       /\ ran' = [m \in Months |-> Hour * Cardinality(Running(m)')]
  BY <1>10, <1>11, <1>12, <1>13
<1>15. \A i \in DOMAIN events : events[i].at <= now'
  <2>1. \A i \in DOMAIN events : events[i].at \in Nat
    <3>1. \A i \in DOMAIN events : events[i] \in EventRows
      BY <1>0
    <3> QED BY <3>1 DEF EventRows
  <2> QED BY <1>0, <1>1, <2>1
<1>16. Hour' = Hour
  BY DEF Hour
<1>17. now' \in Nat
  BY <1>0, <1>1
<1> QED BY <1>0, <1>1, <1>2, <1>4, <1>14, <1>15, <1>16, <1>17 DEF PlantInv, InOrder

LEMMA ChangeKeeps == ASSUME PlantInv, NEW m \in Modes, ChangeMode(m) PROVE PlantInv'
<1>0. /\ now \in Nat /\ readings \in [0..(now - 1) -> Samples]
      /\ events \in Seq(EventRows) /\ InOrder(events) /\ \A i \in DOMAIN events : events[i].at <= now
      /\ delivered = [k \in Months |-> SumOver(Products, Delivering(k))]
      /\ ran = [k \in Months |-> Hour * Cardinality(Running(k))]
  BY DEF PlantInv
<1>1. PICK e : e = [at |-> now, mode |-> m.mode, generator |-> m.generator]
  OBVIOUS
<1>2. e \in EventRows /\ e.at = now /\ e.generator = m.generator
  <2>1. m.generator \in BOOLEAN
    BY PlantAssumption
  <2> QED BY <1>0, <1>1, <2>1 DEF EventRows
<1>3. /\ events' = Append(events, e) /\ running' = m.generator
      /\ UNCHANGED <<now, readings, delivered, ran>>
  BY <1>1 DEF ChangeMode
<1>4. /\ events' \in Seq(EventRows) /\ events' # <<>> /\ Len(events') = Len(events) + 1
      /\ events'[Len(events) + 1] = e /\ DOMAIN events' = 1..(Len(events) + 1)
      /\ DOMAIN events = 1..Len(events) /\ Len(events) \in Nat
      /\ \A i \in DOMAIN events : events'[i] = events[i] /\ events[i].at \in Nat
  <2>1. \A i \in DOMAIN events : events[i] \in EventRows
    BY <1>0
  <2>2. \A i \in DOMAIN events : events[i].at \in Nat
    BY <2>1 DEF EventRows
  <2> QED BY <1>0, <1>2, <1>3, <2>2
<1>5. \A i \in DOMAIN events : events[i].at < now
  <2>1. CASE events = <<>>
    BY <1>4, <2>1
  <2>2. CASE events # <<>>
    <3>1. events[Len(events)].at < now /\ Len(events) \in DOMAIN events
      BY <1>4, <2>2 DEF ChangeMode, Last
    <3>2. \A i \in DOMAIN events : i # Len(events) => events[i].at < events[Len(events)].at
      <4> SUFFICES ASSUME NEW i \in DOMAIN events, i # Len(events)
                   PROVE  events[i].at < events[Len(events)].at
        OBVIOUS
      <4>1. i < Len(events)
        BY <1>4
      <4>2. InOrder(events)
        BY <1>0
      <4> QED BY <3>1, <4>1, <4>2 DEF InOrder
    <3> QED BY <1>0, <1>4, <3>1, <3>2
  <2> QED BY <2>1, <2>2
<1>6. InOrder(events')
  <2> SUFFICES ASSUME NEW i \in DOMAIN events', NEW j \in DOMAIN events', i < j
               PROVE  events'[i].at < events'[j].at
    BY DEF InOrder
  <2>1. i \in DOMAIN events
    BY <1>4
  <2>2. CASE j \in DOMAIN events
    BY <1>0, <1>4, <2>1, <2>2 DEF InOrder
  <2>3. CASE j = Len(events) + 1
    BY <1>2, <1>4, <1>5, <2>1, <2>3
  <2> QED BY <1>4, <2>2, <2>3
<1>7. \A i \in DOMAIN events' : events'[i].at <= now
  BY <1>0, <1>2, <1>4
<1>8. ASSUME NEW k \in Months PROVE Delivering(k)' = Delivering(k) /\ Running(k)' = Running(k)
  <2>1. Intervals(k) \subseteq Nat /\ Intervals(k)' = Intervals(k)
    BY MonthIs, IntervalsFinite DEF Intervals, MonthIntervals
  <2>2. \A t \in Intervals(k) : t < now => ~ (e.at <= t)
    BY <1>0, <1>2, <2>1
  <2>3. \A t \in Intervals(k) : t < now => /\ ModeOf(events', t) = ModeOf(events, t)
                                           /\ RunsAt(events', t) = RunsAt(events, t)
    BY <1>0, <1>3, <2>2, EventsLater
  <2> QED BY <1>3, <2>1, <2>3 DEF Delivering, Running
<1>9. Products' = Products /\ Hour' = Hour
  BY <1>3 DEF Products, Hour
<1>10. /\ delivered' = [k \in Months |-> SumOver(Products', Delivering(k)')]
       /\ ran' = [k \in Months |-> Hour' * Cardinality(Running(k)')]
  BY <1>0, <1>3, <1>8, <1>9
<1>11. running' = (events' # <<>> /\ events'[Len(events')].generator)
  BY <1>2, <1>3, <1>4 DEF EventRows
<1> QED BY <1>0, <1>3, <1>4, <1>6, <1>7, <1>10, <1>11 DEF PlantInv

LEMMA PlantStep == PlantInv /\ [PlantNext]_plantVars => PlantInv'
<1> SUFFICES ASSUME PlantInv, [PlantNext]_plantVars PROVE PlantInv'
  OBVIOUS
<1>1. ASSUME UNCHANGED plantVars PROVE PlantInv'
  <2>1. UNCHANGED <<now, events, readings, running, delivered, ran>>
    BY <1>1 DEF plantVars
  <2>2. \A m \in Months : Delivering(m)' = Delivering(m) /\ Running(m)' = Running(m)
    BY <2>1 DEF Delivering, Running, Intervals, MonthIntervals
  <2>3. Products' = Products /\ Hour' = Hour
    BY <2>1 DEF Products, Hour
  <2> QED BY <2>1, <2>2, <2>3 DEF PlantInv
<1> QED BY <1>1, SampleKeeps, ChangeKeeps DEF PlantNext

\* Whatever is sampled and however the mode changes, what the plant delivered and how long its
\* generators ran in a month is what its samples and the events of all months say of it.
THEOREM PlantInvariant == PlantSpec => []PlantInv
<1> QED BY PlantStarts, PlantStep, PTL DEF PlantSpec

-----------------------------------------------------------------------------
(* HeatExport.  What a report of the heat says.                            *)

LEMMA Regroup ==
    ASSUME NEW a \in Int, NEW b \in Int, NEW c \in Int
    PROVE  /\ a * (b * c) = c * (a * b) /\ a * (b * c) = b * (a * c)
           /\ a * b \in Int /\ b * c \in Int /\ a * c \in Int /\ a * (b * c) \in Int
OBVIOUS

\* Rounded parts add up to the rounded whole, up to one unit a part.
LEMMA RoundedParts ==
    ASSUME NEW I, IsFiniteSet(I), I # {}, NEW A \in Int, NEW B \in Nat \ {0}, NEW p, NEW k,
           \A i \in I : p[i] \in Int /\ k[i] = HalfUp(p[i] * A, B)
    PROVE  /\ SumOver(k, I) - HalfUp(SumOver(p, I) * A, B) \in (-Cardinality(I))..Cardinality(I)
           /\ IntOn(p, I) /\ IntOn(k, I)
<1>1. PICK n : n = Cardinality(I)
  OBVIOUS
<1>2. n \in Nat /\ n >= 1
  BY <1>1, FS_CardinalityType, FS_EmptySet
<1>3. \A i \in I : /\ p[i] * A \in Int /\ k[i] \in Int
                   /\ 2 * (B * k[i]) <= 2 * (p[i] * A) + B /\ 2 * (p[i] * A) - B <= 2 * (B * k[i])
  <2> SUFFICES ASSUME NEW i \in I
               PROVE  /\ p[i] * A \in Int /\ k[i] \in Int
                      /\ 2 * (B * k[i]) <= 2 * (p[i] * A) + B /\ 2 * (p[i] * A) - B <= 2 * (B * k[i])
    OBVIOUS
  <2>1. p[i] * A \in Int /\ k[i] = HalfUp(p[i] * A, B)
    OBVIOUS
  <2> QED BY <2>1, HalfUpNear
<1>4. IntOn(p, I) /\ IntOn(k, I)
  BY <1>3 DEF IntOn
<1>5. PICK pa, kb, up, down : /\ pa = [i \in I |-> (2 * A) * p[i]] /\ kb = [i \in I |-> (2 * B) * k[i]]
                              /\ up = [i \in I |-> kb[i] + (-1) * pa[i]]
                              /\ down = [i \in I |-> pa[i] + (-1) * kb[i]]
  OBVIOUS
<1>6. PICK np, nk : np = [i \in I |-> (-1) * pa[i]] /\ nk = [i \in I |-> (-1) * kb[i]]
  OBVIOUS
<1>7. /\ \A i \in I : pa[i] \in Int /\ kb[i] \in Int /\ pa[i] = 2 * (p[i] * A) /\ kb[i] = 2 * (B * k[i])
      /\ IntOn(pa, I) /\ IntOn(kb, I) /\ IntOn(np, I) /\ IntOn(nk, I) /\ IntOn(up, I) /\ IntOn(down, I)
  <2>1. \A i \in I : pa[i] \in Int /\ kb[i] \in Int /\ pa[i] = 2 * (p[i] * A) /\ kb[i] = 2 * (B * k[i])
    BY <1>3, <1>5
  <2>2. \A i \in I : np[i] \in Int /\ nk[i] \in Int /\ up[i] \in Int /\ down[i] \in Int
    BY <1>5, <1>6, <2>1
  <2> QED BY <2>1, <2>2 DEF IntOn
<1>8. PICK sp, sk, h : sp = SumOver(p, I) /\ sk = SumOver(k, I) /\ h = HalfUp(sp * A, B)
  OBVIOUS
<1>9. sp \in Int /\ sk \in Int
  BY <1>4, <1>8, SumOverMore
<1>10. /\ SumOver(pa, I) = (2 * A) * sp /\ SumOver(kb, I) = (2 * B) * sk
  <2>1. \A i \in I : pa[i] = (2 * A) * p[i] /\ kb[i] = (2 * B) * k[i]
    BY <1>5
  <2>2. 2 * A \in Int /\ 2 * B \in Int
    OBVIOUS
  <2>3. SumOver(pa, I) = (2 * A) * sp
    BY <1>4, <1>8, <2>1, <2>2, SumScaled
  <2>4. SumOver(kb, I) = (2 * B) * sk
    BY <1>4, <1>8, <2>1, <2>2, SumScaled
  <2> QED BY <2>3, <2>4
<1>11. SumOver(up, I) = SumOver(kb, I) + (-1) * SumOver(pa, I)
  <2>1. \A i \in I : up[i] = kb[i] + np[i] /\ np[i] = (-1) * pa[i]
    BY <1>5, <1>6
  <2>2. SumOver(up, I) = SumOver(kb, I) + SumOver(np, I)
    BY <1>7, <2>1, SumOfSums
  <2>3. SumOver(np, I) = (-1) * SumOver(pa, I)
    BY <1>7, <2>1, SumScaled
  <2> QED BY <2>2, <2>3
<1>12. SumOver(down, I) = SumOver(pa, I) + (-1) * SumOver(kb, I)
  <2>1. \A i \in I : down[i] = pa[i] + nk[i] /\ nk[i] = (-1) * kb[i]
    BY <1>5, <1>6
  <2>2. SumOver(down, I) = SumOver(pa, I) + SumOver(nk, I)
    BY <1>7, <2>1, SumOfSums
  <2>3. SumOver(nk, I) = (-1) * SumOver(kb, I)
    BY <1>7, <2>1, SumScaled
  <2> QED BY <2>2, <2>3
<1>13. \A i \in I : up[i] <= B /\ down[i] <= B
  BY <1>3, <1>5, <1>7
<1>14. SumOver(up, I) <= B * n /\ SumOver(down, I) <= B * n
  <2>1. B \in Int
    OBVIOUS
  <2>2. SumOver(up, I) <= B * n
    BY <1>1, <1>7, <1>13, <2>1, SumBounded
  <2>3. SumOver(down, I) <= B * n
    BY <1>1, <1>7, <1>13, <2>1, SumBounded
  <2> QED BY <2>2, <2>3
<1>15. sp * A \in Int /\ h \in Int /\ 2 * (B * h) <= 2 * (sp * A) + B /\ 2 * (sp * A) - B <= 2 * (B * h)
  <2>1. sp * A \in Int
    BY <1>9
  <2> QED BY <1>8, <2>1, HalfUpNear
<1>16. PICK x, y, z : x = sp * A /\ y = B * sk /\ z = B * h
  OBVIOUS
<1>17. /\ x \in Int /\ y \in Int /\ z \in Int /\ B * n \in Int
       /\ 2 * y - 2 * x <= B * n /\ 2 * x - 2 * y <= B * n /\ 2 * z <= 2 * x + B /\ 2 * x - B <= 2 * z
  <2>1. (2 * A) * sp = 2 * x /\ (2 * B) * sk = 2 * y /\ x \in Int /\ y \in Int /\ z \in Int /\ B * n \in Int
    BY <1>2, <1>9, <1>15, <1>16
  <2>2. SumOver(up, I) = 2 * y - 2 * x /\ SumOver(down, I) = 2 * x - 2 * y
    BY <1>10, <1>11, <1>12, <2>1
  <2> QED BY <1>14, <1>15, <1>16, <2>1, <2>2
<1>18. 2 * (y - z) <= B * n + B /\ 2 * (z - y) <= B * n + B
  BY <1>17
<1>19. /\ B * (2 * (sk - h)) < B * (n + 1) + B /\ B * (2 * (h - sk)) < B * (n + 1) + B
  <2>1. /\ B * (2 * (sk - h)) = 2 * (y - z) /\ B * (2 * (h - sk)) = 2 * (z - y)
        /\ B * (n + 1) = B * n + B
    BY <1>2, <1>9, <1>15, <1>16
  <2> QED BY <1>17, <1>18, <2>1
<1>20. 2 * (sk - h) <= n + 1 /\ 2 * (h - sk) <= n + 1
  <2>1. 2 * (sk - h) \in Int /\ 2 * (h - sk) \in Int /\ n + 1 \in Int
    BY <1>2, <1>9, <1>15
  <2>2. 2 * (sk - h) <= n + 1
    BY <1>19, <2>1, TimesOrder
  <2>3. 2 * (h - sk) <= n + 1
    BY <1>19, <2>1, TimesOrder
  <2> QED BY <2>2, <2>3
<1>21. sk - h \in (-n)..n
  BY <1>2, <1>9, <1>15, <1>20
<1> QED BY <1>1, <1>4, <1>8, <1>21

\* The heat of intervals that were sampled.
LEMMA HeatIs == ASSUME NEW S, S \subseteq DOMAIN readings PROVE HeatOf(S) = SumOver(Products, S)
<1>1. PICK f : f = [t \in S |-> Product(t)]
  OBVIOUS
<1>2. f = On(Products, S)
  BY <1>1 DEF On, Products, Product, HeatOfSample, Flow, DeltaT
<1> QED BY <1>1, <1>2 DEF HeatOf, SumOver

LEMMA ThermalIs ==
    ASSUME PlantInv, NEW m \in Months, NEW t \in ThermalReadings(m)
    PROVE  /\ t \in Nat /\ t \in Intervals(m) /\ t < now /\ t \in DOMAIN readings
           /\ readings[t] \in Samples
           /\ Usable(readings[t]) <=> ~Bad(t)
<1>1. t \in Intervals(m) /\ t \in DOMAIN readings /\ {readings[t].flow, readings[t].supply, readings[t].back} \cap {{}} = {}
  BY DEF ThermalReadings
<1>2. now \in Nat /\ readings \in [0..(now - 1) -> Samples]
  BY DEF PlantInv
<1>3. readings[t].flow # {} /\ readings[t].supply # {} /\ readings[t].back # {}
  BY <1>1
<1> QED BY <1>1, <1>2, <1>3 DEF Usable, Bad

\* Where the month has an event by then, the month's latest is the latest of all.
LEMMA MonthModeIs ==
    ASSUME PlantInv, NEW m \in Months, NEW t \in Intervals(m), {i \in EventsOf(m) : events[i].at <= t} # {}
    PROVE  ModeAtTime(m, t) = ModeOf(events, t)
<1>0. /\ events \in Seq(EventRows) /\ InOrder(events) /\ m \in Nat \ {0} /\ t \in Nat /\ t \in Int
      /\ Len(events) \in Nat /\ DOMAIN events = 1..Len(events)
  BY MonthIs, IntervalsFinite DEF PlantInv
<1>1. \A i \in DOMAIN events : events[i].at \in Nat
  <2>1. \A i \in DOMAIN events : events[i] \in EventRows
    BY <1>0
  <2> QED BY <2>1 DEF EventRows
<1>2. PICK B, H : B = {i \in EventsOf(m) : events[i].at <= t} /\ H = Happened(events, t)
  OBVIOUS
<1>3. B # {} /\ H # {} /\ B \subseteq H /\ H \subseteq 1..Len(events) /\ H \subseteq Int /\ B \subseteq Int
  BY <1>0, <1>2 DEF EventsOf, Happened
<1>4. IsFiniteSet(H) /\ IsFiniteSet(B)
  <2>1. 1 \in Int /\ Len(events) \in Int
    BY <1>0
  <2>2. IsFiniteSet(1..Len(events))
    BY <2>1, FS_Interval
  <2> QED BY <1>3, <2>2, FS_Subset
<1>5. PICK b, h : b = Max(B) /\ h = Max(H)
  OBVIOUS
<1>6. b \in B /\ h \in H /\ (\A i \in B : i <= b) /\ (\A i \in H : i <= h)
  BY <1>3, <1>4, <1>5, MaxExists
<1>7. b = h
  <2> SUFFICES ASSUME b # h PROVE FALSE
    OBVIOUS
  <2>1. b < h /\ b \in DOMAIN events /\ h \in DOMAIN events
    BY <1>0, <1>3, <1>6
  <2>2. events[b].at < events[h].at /\ events[h].at <= t /\ MonthOf(events[b].at) = m
    BY <1>0, <1>2, <1>6, <2>1 DEF InOrder, Happened, EventsOf
  <2>3. events[b].at \in Nat /\ events[h].at \in Nat
    BY <1>1, <2>1
  <2>4. events[b].at \in Intervals(m)
    BY <1>0, <2>2, <2>3, InItsMonth
  <2>5. PICK lo, up : Intervals(m) = lo..up /\ lo \in Int /\ up \in Int
    BY <1>0, MonthSize DEF Intervals
  <2>6. events[h].at \in Intervals(m)
    BY <1>0, <2>2, <2>3, <2>4, <2>5
  <2>7. h \in B
    <3>1. MonthOf(events[h].at) = m
      BY <1>0, <2>3, <2>6, InItsMonth
    <3>2. h \in EventsOf(m)
      BY <2>1, <3>1 DEF EventsOf
    <3> QED BY <1>2, <2>2, <3>2
  <2>8. h <= b
    BY <1>6, <2>7
  <2>9. b \in Int /\ h \in Int
    BY <1>3, <1>6
  <2> QED BY <2>1, <2>8, <2>9
<1> QED BY <1>2, <1>3, <1>5, <1>7 DEF ModeAtTime, ModeOf

LEMMA CountedDelivered ==
    ASSUME PlantInv, NEW m \in Months
    PROVE  /\ Counted(m) \subseteq Delivering(m)
           /\ ModeKnown(m) => \A t \in Delivering(m) : t \in Counted(m) \/ Products[t] = 0
<1>0. /\ now \in Nat /\ readings \in [0..(now - 1) -> Samples] /\ m \in Nat \ {0} /\ Intervals(m) \subseteq Nat
      /\ "UNKNOWN" \notin ExportModes
  BY MonthIs, IntervalsFinite DEF PlantInv, ExportModes
<1>1. ASSUME NEW t \in Counted(m) PROVE t \in Delivering(m)
  <2>1. t \in ThermalReadings(m) /\ ~Bad(t) /\ ModeAtTime(m, t) \in ExportModes
    BY DEF Counted
  <2>2. t \in Intervals(m) /\ t < now /\ Usable(readings[t])
    BY <2>1, ThermalIs
  <2>3. {i \in EventsOf(m) : events[i].at <= t} # {}
    BY <1>0, <2>1 DEF ModeAtTime
  <2>4. ModeOf(events, t) \in ExportModes
    BY <2>1, <2>2, <2>3, MonthModeIs
  <2> QED BY <2>2, <2>4 DEF Delivering
<1>2. ASSUME ModeKnown(m), NEW t \in Delivering(m), Products[t] # 0 PROVE t \in Counted(m)
  <2>1. t \in Intervals(m) /\ t < now /\ ModeOf(events, t) \in ExportModes /\ Usable(readings[t])
    BY DEF Delivering
  <2>2. t \in DOMAIN readings /\ readings[t] \in Samples /\ t \in Nat
    BY <1>0, <2>1
  <2>3. t \in ThermalReadings(m) /\ ~Bad(t)
    BY <2>1, <2>2 DEF ThermalReadings, Usable, Bad
  <2>4. {i \in EventsOf(m) : events[i].at <= t} # {}
    <3>1. PICK E, lo : E = EventsOf(m) /\ lo = (m - 1) * MonthIntervals
      OBVIOUS
    <3>2. E # {} /\ events[Min(E)].at = lo /\ E \subseteq DOMAIN events
      BY <1>2, <3>1 DEF ModeKnown, EventsOf
    <3>3. DOMAIN events = 1..Len(events) /\ Len(events) \in Int /\ 1 \in Int
      BY DEF PlantInv
    <3>4. IsFiniteSet(E) /\ E \subseteq Int
      <4>1. IsFiniteSet(1..Len(events))
        BY <3>3, FS_Interval
      <4>2. E \subseteq 1..Len(events)
        BY <3>2, <3>3
      <4>3. IsFiniteSet(E)
        BY <4>1, <4>2, FS_Subset
      <4> QED BY <4>2, <4>3
    <3>5. Min(E) \in E
      BY <3>2, <3>4, MinExists
    <3>6. lo \in Int /\ m * MonthIntervals - 1 \in Int
      BY <1>0, <3>1, MonthSize
    <3>7. lo <= t
      BY <2>1, <3>1, <3>6 DEF Intervals
    <3> QED BY <3>1, <3>2, <3>5, <3>7
  <2>5. ModeAtTime(m, t) \in ExportModes
    BY <2>1, <2>4, MonthModeIs
  <2>6. DeltaT(t) >= -5
    <3>1. Says(readings[t].supply, Int) /\ Says(readings[t].back, Int) /\ Says(readings[t].flow, Nat)
      BY <2>2, PlantAssumption
    <3>2. DeltaT(t) \in Int /\ ValueOf(readings[t].flow) \in Nat
      BY <2>1, <3>1, ValueIs DEF DeltaT, Usable
    <3>3. Products[t] = ValueOf(readings[t].flow) * AtLeastZero(DeltaT(t))
      BY <2>2 DEF Products, HeatOfSample, DeltaT
    <3>4. DeltaT(t) > 0
      <4> SUFFICES ASSUME ~(DeltaT(t) > 0) PROVE FALSE
        OBVIOUS
      <4>1. AtLeastZero(DeltaT(t)) = 0
        BY <3>2 DEF AtLeastZero
      <4> QED BY <1>2, <3>2, <3>3, <4>1
    <3> QED BY <3>2, <3>4
  <2> QED BY <2>3, <2>5, <2>6 DEF Counted
<1> QED BY <1>1, <1>2

\* What a month delivered is finite, sampled, and natural.
LEMMA DeliveredNatural ==
    ASSUME PlantInv, NEW m \in Months
    PROVE  /\ IntOn(Products, Delivering(m)) /\ Delivering(m) \subseteq DOMAIN readings
           /\ \A t \in Delivering(m) : Products[t] \in Nat
<1>0. now \in Nat /\ readings \in [0..(now - 1) -> Samples] /\ Intervals(m) \subseteq Nat /\ IsFiniteSet(Intervals(m))
  BY MonthIs, IntervalsFinite DEF PlantInv
<1>1. \A t \in Delivering(m) : t \in DOMAIN readings /\ Usable(readings[t])
  BY <1>0 DEF Delivering
<1>2. \A t \in Delivering(m) : readings[t] \in Samples /\ Products[t] = HeatOfSample(readings[t])
  BY <1>0, <1>1 DEF Products
<1>3. \A t \in Delivering(m) : Products[t] \in Nat
  BY <1>1, <1>2, HeatIsNatural
<1>4. IsFiniteSet(Delivering(m))
  BY <1>0, FS_Subset DEF Delivering
<1> QED BY <1>1, <1>3, <1>4 DEF IntOn

LEMMA KWhtGrows ==
    ASSUME NEW p \in Nat, NEW q \in Nat, p <= q
    PROVE  KWht(p) <= KWht(q) /\ KWht(p) \in Nat /\ KWht(q) \in Nat
<1>1. PICK A, B : A = 416746 /\ B = 432000
  OBVIOUS
<1>2. A \in Nat /\ B \in Nat \ {0} /\ KWht(p) = HalfUp(p * A, B) /\ KWht(q) = HalfUp(q * A, B)
  BY <1>1, SMT DEF KWht
<1>3. A * p <= A * q
  BY <1>2, TimesGrows
<1>4. p * A \in Int /\ q * A \in Int /\ p * A >= 0 /\ q * A >= 0 /\ p * A <= q * A
  BY <1>2, <1>3
<1>5. HalfUp(p * A, B) <= HalfUp(q * A, B)
  BY <1>2, <1>4, HalfUpGrows
<1>6. HalfUp(p * A, B) \in Nat
  BY <1>2, <1>4, HalfUpNear
<1>7. HalfUp(q * A, B) \in Nat
  BY <1>2, <1>4, HalfUpNear
<1> QED BY <1>2, <1>5, <1>6, <1>7

\* No more heat is reported than was delivered, and all of it where the mode is known.
LEMMA HeatWithin ==
    ASSUME PlantInv, NEW m \in Months
    PROVE  /\ HeatOf(Counted(m)) \in Nat /\ delivered[m] \in Nat /\ HeatOf(Counted(m)) <= delivered[m]
           /\ ModeKnown(m) => HeatOf(Counted(m)) = delivered[m]
           /\ HeatOf(Counted(m)) = SumOver(Products, Counted(m))
<1>1. PICK f, S, D : f = Products /\ S = Counted(m) /\ D = Delivering(m)
  OBVIOUS
<1>2. S \subseteq D /\ IntOn(f, D) /\ (\A t \in D : f[t] \in Nat) /\ D \subseteq DOMAIN readings
  BY <1>1, CountedDelivered, DeliveredNatural
<1>3. delivered[m] = SumOver(f, D) /\ HeatOf(Counted(m)) = SumOver(f, S)
  <2>1. delivered[m] = SumOver(f, D)
    BY <1>1 DEF PlantInv
  <2> QED BY <1>1, <1>2, <2>1, HeatIs
<1>4. IntOn(f, S)
  BY <1>2, FS_Subset DEF IntOn
<1>5. \A t \in D : f[t] >= 0
  BY <1>2
<1>6. SumOver(f, S) \in Nat /\ SumOver(f, D) \in Nat
  BY <1>2, <1>4, <1>5, SumAtLeastZero
<1>7. SumOver(f, S) <= SumOver(f, D)
  BY <1>2, <1>5, SumOfPart
<1>8. ModeKnown(m) => SumOver(f, S) = SumOver(f, D)
  <2>1. ModeKnown(m) => \A t \in D \ S : f[t] = 0
    BY <1>1, CountedDelivered
  <2> QED BY <1>2, <2>1, SumWithoutZeros
<1> QED BY <1>1, <1>3, <1>6, <1>7, <1>8

\* The days of a month share out what the month counts.
LEMMA DaysOfMonth ==
    ASSUME PlantInv, NEW m \in Months
    PROVE  /\ Counted(m) = UNION {DayOf(m, d) : d \in 1..Days}
           /\ \A d, e \in 1..Days : d # e => DayOf(m, d) \cap DayOf(m, e) = {}
<1>0. m \in Nat \ {0} /\ Intervals(m) \subseteq Nat /\ Counted(m) \subseteq Intervals(m)
  BY MonthIs, IntervalsFinite DEF Counted, ThermalReadings
<1>1. PICK b, n : b = DayIntervals /\ n = Days
  OBVIOUS
<1>2. b \in Nat \ {0} /\ n \in Nat \ {0} /\ MonthIntervals = n * b
  BY <1>1, PlantAssumption DEF MonthIntervals
<1>3. ASSUME NEW t \in Counted(m) PROVE \E d \in 1..n : t \in DayOf(m, d)
  <2>1. PICK q : q = t \div b
    OBVIOUS
  <2>2. t \in Int /\ t \in Nat /\ t \in Intervals(m)
    BY <1>0
  <2>3. q \in Int /\ b * q <= t /\ t < b * q + b
    BY <1>2, <2>1, <2>2, Quotient
  <2>4. PICK lo, up : lo = (m - 1) * (n * b) /\ up = m * (n * b)
    OBVIOUS
  <2>5. lo <= t /\ t < up /\ lo \in Int /\ up \in Int
    <3>1. lo = (m - 1) * MonthIntervals /\ up = m * MonthIntervals
      BY <1>2, <2>4
    <3>2. lo \in Int /\ up \in Int
      BY <1>0, <3>1, MonthSize
    <3>3. Intervals(m) = lo..(up - 1)
      BY <3>1 DEF Intervals
    <3> QED BY <2>2, <3>2, <3>3
  <2>6. lo = b * ((m - 1) * n) /\ up = b * (m * n) /\ (m - 1) * n \in Int /\ m * n \in Int /\ b * q \in Int
    <3>1. m - 1 \in Int /\ m \in Int /\ n \in Int /\ b \in Int
      BY <1>0, <1>2
    <3>2. (m - 1) * (n * b) = b * ((m - 1) * n) /\ (m - 1) * n \in Int
      BY <3>1, Regroup
    <3>3. m * (n * b) = b * (m * n) /\ m * n \in Int
      BY <3>1, Regroup
    <3> QED BY <2>3, <2>4, <3>1, <3>2, <3>3
  <2>7. b * ((m - 1) * n) < b * q + b
    <3>1. PICK y, z : y = b * ((m - 1) * n) /\ z = b * q
      OBVIOUS
    <3>2. y \in Int /\ z \in Int /\ y <= t /\ t < z + b
      BY <2>3, <2>5, <2>6, <3>1
    <3> QED BY <1>2, <2>2, <3>1, <3>2
  <2>8. (m - 1) * n <= q
    BY <1>2, <2>3, <2>6, <2>7, TimesOrder
  <2>9. q < m * n
    <3>1. b * (q + 1) = b * q + b /\ q + 1 \in Int
      BY <1>2, <2>3
    <3>2. b * (q + 1) < b * (m * n) + b
      <4>1. PICK y, z : y = b * (m * n) /\ z = b * q
        OBVIOUS
      <4>2. y \in Int /\ z \in Int /\ z <= t /\ t < y /\ b * (q + 1) = z + b
        BY <2>3, <2>5, <2>6, <3>1, <4>1
      <4> QED BY <1>2, <2>2, <4>1, <4>2
    <3>3. q + 1 <= m * n
      BY <1>2, <2>6, <3>1, <3>2, TimesOrder
    <3> QED BY <2>3, <2>6, <3>3
  <2>10. PICK d : d = q - (m - 1) * n + 1
    OBVIOUS
  <2>11. m * n = (m - 1) * n + n
    BY <1>0, <1>2
  <2>12. d \in 1..n /\ q = (m - 1) * n + d - 1
    BY <1>2, <2>3, <2>6, <2>8, <2>9, <2>10, <2>11
  <2> QED BY <1>1, <2>1, <2>12 DEF DayOf
<1>4. ASSUME NEW d \in 1..n, NEW e \in 1..n, NEW t \in DayOf(m, d), t \in DayOf(m, e) PROVE d = e
  <2>1. t \div b = (m - 1) * n + d - 1 /\ t \div b = (m - 1) * n + e - 1
    BY <1>1, <1>4 DEF DayOf
  <2>2. (m - 1) * n \in Int
    BY <1>0, <1>2
  <2> QED BY <2>1, <2>2
<1>5. \A d \in 1..n : DayOf(m, d) \subseteq Counted(m)
  BY DEF DayOf
<1>6. Counted(m) = UNION {DayOf(m, d) : d \in 1..n}
  BY <1>3, <1>5
<1> QED BY <1>1, <1>4, <1>6

LEMMA DaysAddUp ==
    ASSUME PlantInv, NEW m \in Months
    PROVE  SumFunction(DailyExports(m)) - KWht(HeatOf(Counted(m))) \in (-Days)..Days
<1>1. PICK A, B, I, f : A = 416746 /\ B = 432000 /\ I = 1..Days /\ f = Products
  OBVIOUS
<1>2. A \in Int /\ B \in Nat \ {0} /\ Days \in Nat \ {0} /\ \A x : KWht(x) = HalfUp(x * A, B)
  <2>1. A \in Int /\ B \in Nat \ {0}
    BY <1>1, SMT
  <2>2. \A x : KWht(x) = HalfUp(x * A, B)
    BY <1>1 DEF KWht
  <2> QED BY <2>1, <2>2, PlantAssumption
<1>3. IsFiniteSet(I) /\ I # {} /\ Cardinality(I) = Days
  <2>1. 1 \in Int /\ Days \in Int /\ ~ (1 > Days) /\ Days - 1 + 1 = Days /\ 1 \in 1..Days
    BY <1>2
  <2>2. IsFiniteSet(1..Days) /\ Cardinality(1..Days) = Days
    BY <2>1, FS_Interval
  <2>3. I = 1..Days
    BY <1>1
  <2> QED BY <2>1, <2>2, <2>3
<1>4a. PICK P : P = [d \in I |-> DayOf(m, d)]
  OBVIOUS
<1>4b. PICK p, k : p = [d \in I |-> SumOver(f, P[d])] /\ k = DailyExports(m)
  OBVIOUS
<1>4. P = [d \in I |-> DayOf(m, d)] /\ p = [d \in I |-> SumOver(f, P[d])] /\ k = DailyExports(m)
  BY <1>4a, <1>4b
<1>5. \A d \in I : DayOf(m, d) \subseteq Counted(m)
  BY DEF DayOf
<1>6. /\ IntOn(f, Delivering(m)) /\ Counted(m) \subseteq Delivering(m) /\ Delivering(m) \subseteq DOMAIN readings
      /\ \A t \in Delivering(m) : f[t] \in Nat
  BY <1>1, DeliveredNatural, CountedDelivered
<1>7. \A d \in I : IntOn(f, P[d]) /\ p[d] = SumOver(f, P[d]) /\ P[d] \subseteq DOMAIN readings
  <2>1. \A d \in I : P[d] \subseteq Delivering(m) /\ p[d] = SumOver(f, P[d])
    BY <1>4, <1>5, <1>6
  <2> QED BY <1>6, <2>1, FS_Subset DEF IntOn
<1>8. \A d, e \in I : d # e => P[d] \cap P[e] = {}
  BY <1>1, <1>4, DaysOfMonth
<1>9. UNION {P[d] : d \in I} = Counted(m)
  BY <1>1, <1>4, DaysOfMonth
<1>10. SumOver(f, Counted(m)) = SumOver(p, I)
  BY <1>3, <1>7, <1>8, <1>9, SumByParts
<1>11. ASSUME NEW d \in I PROVE p[d] \in Int /\ k[d] = HalfUp(p[d] * A, B)
  <2>1. p[d] \in Int
    BY <1>7, SumOverMore
  <2>2. k[d] = KWht(HeatOf(P[d]))
    BY <1>1, <1>4 DEF DailyExports
  <2>3. HeatOf(P[d]) = p[d]
    BY <1>1, <1>7, HeatIs
  <2> QED BY <1>2, <2>1, <2>2, <2>3
<1>12. SumOver(k, I) - HalfUp(SumOver(p, I) * A, B) \in (-Cardinality(I))..Cardinality(I)
  BY <1>2, <1>3, <1>11, RoundedParts
<1>13. SumFunction(k) = SumOver(k, I)
  BY <1>1, <1>4, SumIsOver DEF DailyExports
<1>14. KWht(HeatOf(Counted(m))) = HalfUp(SumOver(p, I) * A, B)
  BY <1>1, <1>2, <1>10, HeatWithin
<1> QED BY <1>3, <1>4, <1>12, <1>13, <1>14

\* No interval has more than the peak.
LEMMA PeakHolds ==
    ASSUME PlantInv, NEW m \in Months, NEW n, n = Cardinality(Counted(m)),
           NEW peak, peak = KwThermal(Max({0} \cup {Product(t) : t \in Counted(m)}))
    PROVE  /\ n \in Nat /\ peak \in Nat
           /\ 12 * KWht(HeatOf(Counted(m))) <= n * peak + 12 * n + 12
<1>1. PICK f, S, W : f = Products /\ S = Counted(m) /\ W = {0} \cup {Product(t) : t \in Counted(m)}
  OBVIOUS
<1>2. /\ IntOn(f, Delivering(m)) /\ S \subseteq Delivering(m) /\ Delivering(m) \subseteq DOMAIN readings
      /\ \A t \in Delivering(m) : f[t] \in Nat
  BY <1>1, DeliveredNatural, CountedDelivered
<1>3. IntOn(f, S) /\ IsFiniteSet(S)
  BY <1>2, FS_Subset DEF IntOn
<1>4. \A t \in S : Product(t) = f[t]
  BY <1>1, <1>2 DEF Products, Product, HeatOfSample, Flow, DeltaT
<1>5. W = {0} \cup {f[t] : t \in S}
  BY <1>1, <1>4
<1>6. IsFiniteSet(W) /\ W \subseteq Int /\ 0 \in W
  <2>1. PICK g, T : T = {f[t] : t \in S} /\ g = [t \in S |-> f[t]]
    OBVIOUS
  <2>2. g \in Surjection(S, T)
    BY <2>1 DEF Surjection
  <2>3. IsFiniteSet(T)
    BY <1>3, <2>2, FS_Surjection
  <2>4. IsFiniteSet({0})
    BY FS_Singleton
  <2>5. IsFiniteSet(W)
    BY <1>5, <2>1, <2>3, <2>4, FS_Union
  <2> QED BY <1>2, <1>5, <2>5
<1>7. PICK x : x = Max(W)
  OBVIOUS
<1>8. x \in Int /\ x >= 0 /\ \A t \in S : f[t] <= x
  BY <1>5, <1>6, <1>7, MaxExists
<1>9. n \in Nat
  BY <1>1, <1>3, FS_CardinalityType
<1>10. SumOver(f, S) <= x * n
  BY <1>1, <1>3, <1>8, SumBounded
<1>11. PICK A, B, C, s, k : /\ A = 416746 /\ B = 432000 /\ C = 36000 /\ s = SumOver(f, S)
                            /\ k = KWht(HeatOf(Counted(m)))
  OBVIOUS
<1>12. s \in Nat /\ k = HalfUp(s * A, B) /\ peak = HalfUp(x * A, C)
  <2>1. HeatOf(Counted(m)) = s /\ s \in Nat
    BY <1>1, <1>11, HeatWithin
  <2> QED BY <1>1, <1>7, <1>11, <2>1 DEF KWht, KwThermal
<1>13. A \in Nat /\ B \in Nat \ {0} /\ C \in Nat \ {0} /\ B = 12 * C /\ s * A \in Int /\ x * A \in Int /\ x * A >= 0
  <2>1. A \in Nat /\ B \in Nat \ {0} /\ C \in Nat \ {0} /\ B = 12 * C
    BY <1>11, SMT
  <2> QED BY <1>8, <1>12, <2>1
<1>14. k \in Int /\ 2 * (B * k) <= 2 * (s * A) + B
  BY <1>12, <1>13, HalfUpNear
<1>15. peak \in Int /\ peak >= 0 /\ 2 * (x * A) - C <= 2 * (C * peak)
  BY <1>12, <1>13, HalfUpNear
<1>16. s * A <= (x * A) * n
  <2>1. A * s <= A * (x * n)
    <3>1. x * n \in Int /\ s \in Int
      BY <1>8, <1>9, <1>12
    <3> QED BY <1>10, <1>11, <1>13, <3>1, TimesGrows
  <2> QED BY <1>8, <1>9, <1>12, <1>13, <2>1
<1>17. n * (2 * (x * A) - C) <= n * (2 * (C * peak))
  <2>1. 2 * (x * A) - C \in Int /\ 2 * (C * peak) \in Int
    BY <1>13, <1>15
  <2> QED BY <1>9, <1>15, <2>1, TimesGrows
<1>18. PICK y, z, u, v : y = C * k /\ z = (x * A) * n /\ u = n * C /\ v = n * (C * peak)
  OBVIOUS
<1>19. y \in Int /\ z \in Int /\ u \in Nat /\ v \in Int /\ 24 * y <= 2 * (s * A) + 12 * C /\ 2 * z - u <= 2 * v
  <2>1. B * k = 12 * y /\ y \in Int /\ z \in Int /\ u \in Nat /\ v \in Int
    BY <1>9, <1>13, <1>14, <1>15, <1>18
  <2>2. n * (2 * (x * A) - C) = 2 * z - u /\ n * (2 * (C * peak)) = 2 * v
    BY <1>9, <1>13, <1>15, <1>18
  <2>3. 24 * y <= 2 * (s * A) + 12 * C
    <3>1. PICK g, a : g = B * k /\ a = s * A
      OBVIOUS
    <3>2. g = 12 * y /\ 2 * g <= 2 * a + B /\ B = 12 * C /\ a \in Int /\ C \in Int
      BY <1>13, <1>14, <2>1, <3>1
    <3> QED BY <2>1, <3>1, <3>2
  <2>4. 2 * z - u <= 2 * v
    BY <1>17, <2>2
  <2> QED BY <2>1, <2>3, <2>4
<1>20. 24 * y <= 2 * v + u + 12 * C
  BY <1>13, <1>16, <1>18, <1>19
<1>21. C * (12 * k) < C * (n * peak + 12 * n + 12) + C
  <2>1. /\ C * (12 * k) = 12 * y /\ C * (n * peak + 12 * n + 12) = v + 12 * u + 12 * C
    <3>1. PICK w : w = n * peak
      OBVIOUS
    <3>2. C * w = v /\ w \in Int /\ C \in Int /\ n \in Int /\ u = n * C
      <4>1. n \in Int /\ C \in Int /\ peak \in Int
        BY <1>9, <1>13, <1>15
      <4>2. C * (n * peak) = n * (C * peak) /\ n * peak \in Int
        BY <4>1, Regroup
      <4> QED BY <1>18, <3>1, <4>1, <4>2
    <3>3. C * (w + 12 * n + 12) = C * w + 12 * (n * C) + 12 * C
      BY <3>2
    <3>4. C * (12 * k) = 12 * y
      BY <1>14, <1>18, <3>2
    <3> QED BY <3>1, <3>2, <3>3, <3>4
  <2> QED BY <1>13, <1>19, <1>20, <2>1
<1>22. 12 * k \in Int /\ n * peak + 12 * n + 12 \in Int
  BY <1>9, <1>14, <1>15
<1>23. 12 * k <= n * peak + 12 * n + 12
  BY <1>13, <1>21, <1>22, TimesOrder
<1> QED BY <1>9, <1>11, <1>15, <1>23

LEMMA ValueGrows ==
    ASSUME NEW j \in Nat, NEW k \in Nat, j <= k
    PROVE  HostValue(j) <= HostValue(k) /\ HostValue(j) \in Nat
<1>1. PICK r, e, D : r = Agreement.hostEnergyRate /\ e = Agreement.efficiency /\ D = 10000
  OBVIOUS
<1>2. r \in Nat /\ e \in Nat /\ D \in Nat \ {0}
  <2>1. Agreement.hostEnergyRate \in Nat /\ Agreement.efficiency \in 0..100
    BY PlantAssumption
  <2> QED BY <1>1, <2>1, SMT
<1>3. AvoidedCost(j) = HalfUp(j * r * e, D) /\ AvoidedCost(k) = HalfUp(k * r * e, D)
  BY <1>1, SMT DEF AvoidedCost
<1>4. j * r * e <= k * r * e /\ j * r * e \in Int /\ k * r * e \in Int /\ j * r * e >= 0
  <2>1. r * e \in Nat
    BY <1>2
  <2>2. (r * e) * j <= (r * e) * k
    BY <2>1, TimesGrows
  <2>3. (r * e) * j = j * r * e /\ (r * e) * k = k * r * e /\ j * r * e \in Nat /\ k * r * e \in Nat
    BY <1>2
  <2> QED BY <2>2, <2>3
<1>5. AvoidedCost(j) <= AvoidedCost(k)
  BY <1>2, <1>3, <1>4, HalfUpGrows
<1>6. AvoidedCost(j) \in Nat /\ AvoidedCost(k) \in Int
  <2>1. AvoidedCost(j) \in Int /\ AvoidedCost(j) >= 0
    BY <1>2, <1>3, <1>4, HalfUpNear
  <2>2. AvoidedCost(k) \in Int
    BY <1>2, <1>3, <1>4, HalfUpNear
  <2> QED BY <2>1, <2>2
<1>7. EstimatedColoRevenue \in Nat
  <2>1. PICK f : f = [i \in DOMAIN Racks |-> Racks[i].kw * Racks[i].rate]
    OBVIOUS
  <2>2. Racks \in Seq([kw : Nat, rate : Nat])
    BY PlantAssumption
  <2>3. \A i \in DOMAIN Racks : Racks[i] \in [kw : Nat, rate : Nat]
    <3>1. PICK R : R = [kw : Nat, rate : Nat]
      OBVIOUS
    <3>2. Racks \in Seq(R)
      BY <2>2, <3>1
    <3>3. \A i \in DOMAIN Racks : Racks[i] \in R
      BY <3>2
    <3> QED BY <3>1, <3>3
  <2>4. \A i \in DOMAIN f : f[i] \in Nat
    BY <2>1, <2>3
  <2>5. DOMAIN f = 1..Len(Racks) /\ Len(Racks) \in Int /\ 1 \in Int
    BY <2>1, <2>2
  <2>6. IsFiniteSet(DOMAIN f)
    BY <2>5, FS_Interval
  <2>7. f \in [DOMAIN f -> Nat]
    BY <2>1, <2>4
  <2> QED BY <2>1, <2>6, <2>7, SumOfNaturals DEF EstimatedColoRevenue
<1>8. PICK c : c = IF Agreement.model = "REVENUE_SHARE"
                   THEN HalfUp(EstimatedColoRevenue * Agreement.sharePct, 100) ELSE 0
  OBVIOUS
<1>9. c \in Nat
  <2>0. Agreement.sharePct \in Nat
    BY PlantAssumption
  <2>1. PICK v, w : v = EstimatedColoRevenue * Agreement.sharePct /\ w = HalfUp(v, 100)
    OBVIOUS
  <2>1a. v \in Int /\ v >= 0 /\ 100 \in Nat \ {0}
    BY <1>7, <2>0, <2>1
  <2>1b. w \in Int /\ w >= 0
    <3>1. w = HalfUp(v, 100)
      BY <2>1
    <3> QED BY <2>1a, <3>1, HalfUpNear
  <2>2. HalfUp(EstimatedColoRevenue * Agreement.sharePct, 100) \in Nat
    BY <2>1, <2>1b
  <2> QED BY <1>8, <2>2
<1>10. HostValue(j) = AvoidedCost(j) + c /\ HostValue(k) = AvoidedCost(k) + c
  BY <1>8 DEF HostValue
<1> QED BY <1>5, <1>6, <1>9, <1>10

\* A month that is not put up for review has nearly all of its intervals.
LEMMA ReviewCounts ==
    ASSUME PlantInv, NEW m \in Months
    PROVE  /\ Cardinality(Counted(m)) <= MonthIntervals
           /\ ~NeedsReview(m) => 100 * Cardinality(ThermalReadings(m)) >= 94 * MonthIntervals
<1>1. PICK c, b : c = Cardinality(ThermalReadings(m)) /\ b = MonthIntervals
  OBVIOUS
<1>2. b \in Nat \ {0} /\ m \in Nat \ {0} /\ IsFiniteSet(Intervals(m))
  BY <1>1, MonthSize, MonthIs, IntervalsFinite
<1>3. Cardinality(Intervals(m)) = b
  <2>1. PICK lo, up : lo = (m - 1) * b /\ up = m * b
    OBVIOUS
  <2>2. lo \in Int /\ up \in Int /\ up = lo + b
    BY <1>2, <2>1
  <2>3. Intervals(m) = lo..(up - 1) /\ up - 1 \in Int /\ ~ (lo > up - 1)
    BY <1>1, <1>2, <2>1, <2>2 DEF Intervals
  <2> QED BY <1>2, <2>2, <2>3, FS_Interval
<1>4. ThermalReadings(m) \subseteq Intervals(m) /\ Counted(m) \subseteq Intervals(m)
  BY DEF ThermalReadings, Counted
<1>5. c \in Nat /\ c <= b /\ Cardinality(Counted(m)) <= b
  BY <1>1, <1>2, <1>3, <1>4, FS_Subset, FS_CardinalityType
<1>6. PICK h, n : n = (b - c) * 10000 /\ h = HalfUp(n, b)
  OBVIOUS
<1>7. n \in Int /\ n >= 0
  BY <1>2, <1>5, <1>6
<1>8. h \in Int /\ 2 * n < 2 * (b * h) + b
  <2>1. h = HalfUp(n, b)
    BY <1>6
  <2> QED BY <1>2, <1>7, <2>1, HalfUpNear
<1>9. ASSUME ~NeedsReview(m) PROVE 100 * c >= 94 * b
  <2>1. h <= 500
    BY <1>1, <1>6, <1>8, <1>9 DEF NeedsReview
  <2>2. b * h <= b * 500
    BY <1>2, <1>8, <2>1, TimesGrows
  <2>3. b * h \in Int
    BY <1>2, <1>8
  <2>4. 2 * n < 1001 * b
    BY <1>2, <1>7, <1>8, <2>2, <2>3
  <2> QED BY <1>2, <1>5, <1>6, <2>4
<1> QED BY <1>1, <1>5, <1>9

\* Once a month is over, the heat reported is what was delivered in it, or less when the mode it
\* began in is not known; its days add up, no interval is above the peak, the host's value is not
\* above that of the delivery and reaches the threshold with the shortfall, and a month nobody
\* has to review has its readings (KWhtCalculator.calculate).
THEOREM HeatIsAsDelivered == PlantSpec => []HeatAsDelivered
<1>1. PlantInv => HeatAsDelivered
  <2> SUFFICES ASSUME PlantInv, NEW m \in Months, Over(m)
               PROVE  LET result == HeatResult(m)
                          real   == KWht(delivered[m])
                          sum    == SumFunction(result.days)
                      IN  /\ result.kwht <= real
                          /\ ModeKnown(m) => result.kwht = real
                          /\ sum - result.kwht \in -Days..Days
                          /\ 12 * result.kwht <= result.intervals * result.peak + 12 * result.intervals + 12
                          /\ result.value <= HostValue(real)
                          /\ result.value + result.shortfall >= Agreement.threshold
                          /\ ~result.review => result.intervals <= MonthIntervals
                               /\ 100 * Cardinality(ThermalReadings(m)) >= 94 * MonthIntervals
    BY DEF HeatAsDelivered
  <2>1. PICK result : result = HeatResult(m)
    OBVIOUS
  <2>2. PICK h, d, n, peak : /\ h = HeatOf(Counted(m)) /\ d = delivered[m] /\ n = Cardinality(Counted(m))
                             /\ peak = KwThermal(Max({0} \cup {Product(t) : t \in Counted(m)}))
    OBVIOUS
  <2>3. /\ result.kwht = KWht(h) /\ result.peak = peak /\ result.days = DailyExports(m)
        /\ result.intervals = n /\ result.value = HostValue(KWht(h))
        /\ result.shortfall = Shortfall(KWht(h)) /\ result.review = NeedsReview(m)
    BY <2>1, <2>2 DEF HeatResult
  <2>4. h \in Nat /\ d \in Nat /\ h <= d /\ (ModeKnown(m) => h = d)
    BY <2>2, HeatWithin
  <2>5. KWht(h) <= KWht(d) /\ KWht(h) \in Nat /\ KWht(d) \in Nat
    BY <2>4, KWhtGrows
  <2>6. HostValue(KWht(h)) <= HostValue(KWht(d)) /\ HostValue(KWht(h)) \in Nat
    BY <2>5, ValueGrows
  <2>7. HostValue(KWht(h)) + Shortfall(KWht(h)) >= Agreement.threshold
    <3>1. Agreement.threshold \in Int
      BY PlantAssumption
    <3>2. PICK v, w : v = HostValue(KWht(h)) /\ w = Agreement.threshold
      OBVIOUS
    <3>3. Shortfall(KWht(h)) = IF w > 0 /\ v < w THEN w - v ELSE 0
      BY <3>2 DEF Shortfall
    <3>4. w \in Int /\ v \in Nat
      BY <2>6, <3>1, <3>2
    <3> QED BY <3>2, <3>3, <3>4
  <2> QED BY <2>1, <2>2, <2>3, <2>4, <2>5, <2>6, <2>7, DaysAddUp, PeakHolds, ReviewCounts
<1> QED BY <1>1, PlantInvariant, PTL

-----------------------------------------------------------------------------
(* CarbonReport.                                                           *)

LEMMA SumStrict ==
    ASSUME NEW D, D # {}, NEW f, NEW g, IntOn(f, D), IntOn(g, D), \A x \in D : f[x] < g[x]
    PROVE  SumOver(f, D) < SumOver(g, D)
<1>1. PICK x \in D : TRUE
  OBVIOUS
<1>2. PICK E : E = D \ {x}
  OBVIOUS
<1>3. E \subseteq D /\ IntOn(f, E) /\ IntOn(g, E) /\ \A y \in E : f[y] <= g[y]
  BY <1>2, FS_Subset DEF IntOn
<1>4. SumOver(f, E) <= SumOver(g, E)
  BY <1>3, SumGrows
<1>5. f[x] \in Int /\ SumOver(f, E) \in Int /\ SumOver(f, D) = f[x] + SumOver(f, E)
  BY <1>1, <1>2, SumOverMore
<1>6. g[x] \in Int /\ SumOver(g, E) \in Int /\ SumOver(g, D) = g[x] + SumOver(g, E)
  BY <1>1, <1>2, SumOverMore
<1> QED BY <1>1, <1>4, <1>5, <1>6

(* The generators.  A run is counted for the intervals from its start to its end.  *)

Span(m, i) == events[Max(StartsOf(m, i))].at..(events[i].at - 1)

LEMMA StartIs ==
    ASSUME PlantInv, NEW m, NEW i \in EndsOf(m)
    PROVE  LET s == Max(StartsOf(m, i))
           IN  /\ i \in EventsOf(m) /\ ~events[i].generator
               /\ s \in StartsOf(m, i) /\ \A j \in StartsOf(m, i) : j <= s
               /\ s \in DOMAIN events /\ i \in DOMAIN events /\ s \in Nat /\ i \in Nat /\ s < i
               /\ events[s].at \in Nat /\ events[i].at \in Nat
               /\ events[s].at < events[i].at /\ events[i].at <= now
<1>1. PICK S, s : S = StartsOf(m, i) /\ s = Max(S)
  OBVIOUS
<1>2. /\ events \in Seq(EventRows) /\ InOrder(events) /\ Len(events) \in Int /\ 1 \in Int
      /\ DOMAIN events = 1..Len(events) /\ \A k \in DOMAIN events : events[k].at <= now
  BY DEF PlantInv
<1>3. i \in EventsOf(m) /\ ~events[i].generator /\ S # {} /\ i \in DOMAIN events
  BY <1>1 DEF EndsOf, EventsOf
<1>4. S \subseteq DOMAIN events /\ S \subseteq Int /\ IsFiniteSet(S)
  <2>1. S \subseteq DOMAIN events
    BY <1>1 DEF StartsOf, EventsOf
  <2>2. IsFiniteSet(1..Len(events))
    BY <1>2, FS_Interval
  <2> QED BY <1>2, <2>1, <2>2, FS_Subset
<1>5. s \in S /\ \A j \in S : j <= s
  BY <1>1, <1>3, <1>4, MaxExists
<1>6. s < i /\ s \in DOMAIN events
  BY <1>1, <1>4, <1>5 DEF StartsOf
<1>7. \A k \in DOMAIN events : events[k].at \in Nat
  <2>1. \A k \in DOMAIN events : events[k] \in EventRows
    BY <1>2
  <2> QED BY <2>1 DEF EventRows
<1>8. events[s].at < events[i].at
  BY <1>2, <1>3, <1>6 DEF InOrder
<1> QED BY <1>1, <1>2, <1>3, <1>5, <1>6, <1>7, <1>8

\* A span is as long as its run, and a generator ran throughout.
LEMMA SpanRuns ==
    ASSUME PlantInv, NEW m \in Months, NEW i \in EndsOf(m)
    PROVE  /\ IsFiniteSet(Span(m, i)) /\ Cardinality(Span(m, i)) = RunTime(m, i)
           /\ Span(m, i) \subseteq Running(m)
<1>1. PICK s : s = Max(StartsOf(m, i))
  OBVIOUS
<1>2. /\ i \in EventsOf(m) /\ ~events[i].generator
      /\ s \in StartsOf(m, i) /\ s \in DOMAIN events /\ i \in DOMAIN events
      /\ s \in Nat /\ i \in Nat /\ s < i
  BY <1>1, StartIs
<1>3. PICK a, b : a = events[s].at /\ b = events[i].at
  OBVIOUS
<1>4. a \in Nat /\ b \in Nat /\ a < b /\ b <= now /\ now \in Nat
  BY <1>1, <1>3, StartIs DEF PlantInv
<1>5. Span(m, i) = a..(b - 1) /\ RunTime(m, i) = b - a
  BY <1>1, <1>3 DEF Span, RunTime
<1>6. IsFiniteSet(a..(b - 1)) /\ Cardinality(a..(b - 1)) = b - a
  <2>1. a \in Int /\ b - 1 \in Int /\ ~ (a > b - 1) /\ b - 1 - a + 1 = b - a
    BY <1>4
  <2> QED BY <2>1, FS_Interval
<1>7. PICK lo, up : Intervals(m) = lo..up /\ lo \in Int /\ up \in Int
  BY MonthIs, MonthSize DEF Intervals
<1>8. a \in Intervals(m) /\ b \in Intervals(m)
  <2>1. MonthOf(a) = m /\ MonthOf(b) = m
    BY <1>2, <1>3 DEF StartsOf, EventsOf
  <2> QED BY <1>4, <2>1, MonthIs, InItsMonth
<1>9. ASSUME NEW t \in a..(b - 1) PROVE t \in Running(m)
  <2>1. t \in Int /\ a <= t /\ t < b /\ t < now /\ t \in Nat
    BY <1>4
  <2>2. t \in Intervals(m)
    BY <1>4, <1>7, <1>8, <2>1
  <2>3. PICK H, h : H = Happened(events, t) /\ h = Max(H)
    OBVIOUS
  <2>4. /\ s \in H /\ H \subseteq DOMAIN events /\ H \subseteq Int /\ IsFiniteSet(H)
        /\ Len(events) \in Nat /\ DOMAIN events = 1..Len(events)
    <3>1. Len(events) \in Int /\ 1 \in Int /\ DOMAIN events = 1..Len(events) /\ Len(events) \in Nat
      BY DEF PlantInv
    <3>2. IsFiniteSet(1..Len(events))
      BY <3>1, FS_Interval
    <3>3. s \in H /\ H \subseteq DOMAIN events
      BY <1>2, <1>3, <2>1, <2>3 DEF Happened
    <3> QED BY <3>1, <3>2, <3>3, FS_Subset
  <2>5. h \in H /\ \A j \in H : j <= h
    BY <2>3, <2>4, MaxExists
  <2>6. h < i
    <3> SUFFICES ASSUME ~ (h < i) PROVE FALSE
      OBVIOUS
    <3>1. h \in DOMAIN events /\ h \in Int /\ i <= h
      BY <1>2, <2>4, <2>5
    <3>2. i = h \/ events[i].at < events[h].at
      BY <1>2, <3>1 DEF PlantInv, InOrder
    <3>3. events[h].at <= t
      BY <2>3, <2>5 DEF Happened
    <3>4. events[h].at \in Nat
      <4>1. \A k \in DOMAIN events : events[k] \in EventRows
        BY DEF PlantInv
      <4> QED BY <3>1, <4>1 DEF EventRows
    <3> QED BY <1>3, <1>4, <2>1, <3>2, <3>3, <3>4
  <2>7. events[h].generator
    <3>1. h = s \/ h \in (s + 1)..(i - 1)
      BY <1>2, <2>4, <2>5, <2>6
    <3> QED BY <1>2, <3>1 DEF StartsOf
  <2>8. RunsAt(events, t)
    BY <2>3, <2>4, <2>7 DEF RunsAt
  <2> QED BY <2>1, <2>2, <2>8 DEF Running
<1> QED BY <1>5, <1>6, <1>9

\* Between two ends a generator was started.
LEMMA SpansApart ==
    ASSUME PlantInv, NEW m \in Months, NEW i \in EndsOf(m), NEW j \in EndsOf(m), i < j
    PROVE  Span(m, i) \cap Span(m, j) = {}
<1>1. PICK s : s = Max(StartsOf(m, j))
  OBVIOUS
<1>2. /\ s \in StartsOf(m, j) /\ s \in DOMAIN events /\ s \in Nat /\ j \in Nat /\ s < j /\ events[s].at \in Nat
  BY <1>1, StartIs
<1>3. i \in DOMAIN events /\ i \in Nat /\ ~events[i].generator /\ events[i].at \in Nat
  BY StartIs
<1>4. i < s
  <2> SUFFICES ASSUME ~ (i < s) PROVE FALSE
    OBVIOUS
  <2>1. i = s \/ i \in (s + 1)..(j - 1)
    BY <1>2, <1>3
  <2>2. events[s].generator /\ \A k \in (s + 1)..(j - 1) : events[k].generator
    BY <1>2 DEF StartsOf
  <2> QED BY <1>3, <2>1, <2>2
<1>5. events[i].at < events[s].at
  BY <1>2, <1>3, <1>4 DEF PlantInv, InOrder
<1>6. PICK a, b, c, d : /\ Span(m, i) = a..(b - 1) /\ Span(m, j) = c..(d - 1) /\ b = events[i].at
                        /\ c = events[s].at /\ a = events[Max(StartsOf(m, i))].at /\ d = events[j].at
  BY <1>1 DEF Span
<1>7. b \in Nat /\ c \in Nat /\ b < c /\ a \in Nat /\ d \in Nat
  BY <1>2, <1>3, <1>5, <1>6, StartIs
<1> QED BY <1>6, <1>7

\* Where every run is whole, each interval in which a generator ran is of a span.
LEMMA WholeRunsCounted ==
    ASSUME PlantInv, NEW m \in Months, WholeRuns(m), NEW t \in Running(m)
    PROVE  \E i \in EndsOf(m) : t \in Span(m, i)
<1>0. /\ events \in Seq(EventRows) /\ InOrder(events) /\ m \in Nat \ {0} /\ Len(events) \in Nat
      /\ DOMAIN events = 1..Len(events) /\ Intervals(m) \subseteq Nat
  BY MonthIs, IntervalsFinite DEF PlantInv
<1>1. t \in Intervals(m) /\ RunsAt(events, t) /\ t \in Nat
  BY <1>0 DEF Running
<1>2. PICK H, h : H = Happened(events, t) /\ h = Max(H)
  OBVIOUS
<1>3. H # {} /\ events[h].generator /\ H \subseteq DOMAIN events /\ H \subseteq Int /\ IsFiniteSet(H)
  <2>1. H # {} /\ events[h].generator
    BY <1>1, <1>2 DEF RunsAt
  <2>2. Len(events) \in Int /\ 1 \in Int
    BY <1>0
  <2>3. IsFiniteSet(1..Len(events))
    BY <2>2, FS_Interval
  <2>4. H \subseteq DOMAIN events
    BY <1>2 DEF Happened
  <2> QED BY <1>0, <2>1, <2>3, <2>4, FS_Subset
<1>4. h \in H /\ \A j \in H : j <= h
  BY <1>2, <1>3, MaxExists
<1>5. h \in DOMAIN events /\ events[h].at <= t /\ h \in Nat
  BY <1>0, <1>2, <1>3, <1>4 DEF Happened
<1>6. \A k \in DOMAIN events : events[k].at \in Nat
  <2>1. \A k \in DOMAIN events : events[k] \in EventRows
    BY <1>0
  <2> QED BY <2>1 DEF EventRows
<1>7. ASSUME NEW u \in Nat, u <= t PROVE MonthOf(u) <= m /\ MonthOf(u) \in Int
  <2>1. MonthOf(t) = m
    BY <1>0, <1>1, InItsMonth
  <2>2. PICK b : b = MonthIntervals
    OBVIOUS
  <2>3. b \in Nat \ {0} /\ u \in Int /\ t \in Int
    BY <1>1, <2>2, MonthSize
  <2>4. u \div b <= t \div b
    BY <1>7, <2>3, QuotientGrows
  <2>5. u \div b \in Int /\ t \div b \in Int
    BY <2>3, Quotient
  <2> QED BY <2>1, <2>2, <2>4, <2>5 DEF MonthOf
<1>8. h \in EventsOf(m)
  <2> SUFFICES ASSUME h \notin EventsOf(m) PROVE FALSE
    OBVIOUS
  <2>1. MonthOf(events[h].at) # m /\ MonthOf(events[h].at) <= m /\ MonthOf(events[h].at) \in Int
    <3>1. MonthOf(events[h].at) <= m /\ MonthOf(events[h].at) \in Int
      BY <1>5, <1>6, <1>7
    <3>2. MonthOf(events[h].at) # m
      BY <1>5 DEF EventsOf
    <3> QED BY <3>1, <3>2
  <2>2. MonthOf(events[h].at) < m
    BY <1>0, <2>1
  <2>3. h < Len(events) /\ MonthOf(events[h + 1].at) < m
    BY <1>3, <1>5, <2>2 DEF WholeRuns
  <2>4. h + 1 \in DOMAIN events
    BY <1>0, <1>5, <2>3
  <2>5. ~ (events[h + 1].at <= t)
    <3>1. h + 1 \notin H
      BY <1>4, <1>5
    <3> QED BY <1>2, <2>4, <3>1 DEF Happened
  <2>6. PICK u, b : u = events[h + 1].at /\ b = MonthIntervals
    OBVIOUS
  <2>7. u \in Int /\ t \in Int /\ t <= u /\ b \in Nat \ {0}
    BY <1>1, <1>6, <2>4, <2>5, <2>6, MonthSize
  <2>8. t \div b <= u \div b
    BY <2>7, QuotientGrows
  <2>9. MonthOf(t) = m /\ t \div b \in Int /\ u \div b \in Int
    BY <1>0, <1>1, <2>7, InItsMonth, Quotient
  <2> QED BY <1>0, <2>3, <2>6, <2>8, <2>9 DEF MonthOf
<1>9. h + 1 \in EventsOf(m) /\ ~events[h + 1].generator /\ events[h].mode = "REJECT"
  BY <1>3, <1>8 DEF WholeRuns
<1>10. h \in StartsOf(m, h + 1)
  <2>1. (h + 1)..((h + 1) - 1) = {}
    BY <1>5
  <2>2. h < h + 1
    BY <1>5
  <2> QED BY <1>3, <1>8, <1>9, <2>1, <2>2 DEF StartsOf
<1>11. h + 1 \in EndsOf(m)
  BY <1>9, <1>10 DEF EndsOf
<1>12. Max(StartsOf(m, h + 1)) = h
  <2>1. PICK s : s = Max(StartsOf(m, h + 1))
    OBVIOUS
  <2>2. s \in Nat /\ s < h + 1 /\ h <= s
    BY <1>10, <1>11, <2>1, StartIs
  <2> QED BY <1>5, <2>1, <2>2
<1>13. ~ (events[h + 1].at <= t) /\ events[h + 1].at \in Nat
  <2>1. h + 1 \notin H /\ h + 1 \in DOMAIN events
    BY <1>4, <1>5, <1>9 DEF EventsOf
  <2> QED BY <1>2, <1>6, <2>1 DEF Happened
<1>14. t \in events[h].at..(events[h + 1].at - 1)
  BY <1>1, <1>5, <1>6, <1>13
<1> QED BY <1>11, <1>12, <1>14 DEF Span

LEMMA HoursWithin ==
    ASSUME PlantInv, NEW m \in Months
    PROVE  /\ RunHours(m) \in Int /\ ran[m] \in Nat /\ RunHours(m) <= ran[m]
           /\ WholeRuns(m) => RunHours(m) = ran[m]
<1>1. PICK E, F : E = EndsOf(m) /\ F = [i \in E |-> Span(m, i)]
  BY Zenon
<1>2. IsFiniteSet(E) /\ E \subseteq Int
  <2>1. Len(events) \in Int /\ 1 \in Int /\ DOMAIN events = 1..Len(events)
    BY DEF PlantInv
  <2>2. IsFiniteSet(1..Len(events))
    BY <2>1, FS_Interval
  <2>3. E \subseteq 1..Len(events)
    BY <1>1, <2>1 DEF EndsOf, EventsOf
  <2>4. PICK n : n = Len(events)
    OBVIOUS
  <2>5. E \subseteq 1..n /\ n \in Int /\ IsFiniteSet(1..n)
    BY <2>1, <2>2, <2>3, <2>4
  <2>6. IsFiniteSet(E)
    BY <2>5, FS_Subset
  <2> QED BY <2>5, <2>6
<1>3. \A i \in E : F[i] = Span(m, i) /\ IsFiniteSet(F[i]) /\ Cardinality(F[i]) = RunTime(m, i) /\ F[i] \subseteq Running(m)
  <2> SUFFICES ASSUME NEW i \in E
               PROVE  /\ F[i] = Span(m, i) /\ IsFiniteSet(F[i]) /\ Cardinality(F[i]) = RunTime(m, i)
                      /\ F[i] \subseteq Running(m)
    OBVIOUS
  <2>1. F[i] = Span(m, i) /\ i \in EndsOf(m)
    BY <1>1
  <2>2. IsFiniteSet(Span(m, i)) /\ Cardinality(Span(m, i)) = RunTime(m, i) /\ Span(m, i) \subseteq Running(m)
    BY <2>1, SpanRuns
  <2> QED BY <2>1, <2>2
<1>4. \A i, j \in E : i # j => F[i] \cap F[j] = {}
  <2> SUFFICES ASSUME NEW i \in E, NEW j \in E, i # j PROVE F[i] \cap F[j] = {}
    OBVIOUS
  <2>1. F[i] = Span(m, i) /\ F[j] = Span(m, j)
    BY <1>3
  <2>2. CASE i < j
    BY <1>1, <2>1, <2>2, SpansApart
  <2>3. CASE j < i
    <3>1. Span(m, j) \cap Span(m, i) = {}
      BY <1>1, <2>3, SpansApart
    <3> QED BY <2>1, <3>1
  <2> QED BY <1>2, <2>2, <2>3
<1>5. PICK U, n : U = UNION {F[i] : i \in DOMAIN F} /\ n = SumFunction([i \in DOMAIN F |-> Cardinality(F[i])])
  BY Zenon
<1>6. DOMAIN F = E
  BY <1>1
<1>7. n \in Int /\ Cardinality(U) = n
  <2>1. IsFiniteSet(DOMAIN F) /\ \A i \in DOMAIN F : IsFiniteSet(F[i])
    BY <1>2, <1>3, <1>6
  <2>2. \A i, j \in DOMAIN F : i # j => F[i] \cap F[j] = {}
    BY <1>4, <1>6
  <2> QED BY <1>5, <2>1, <2>2, CountUnion
<1>8. n = SumFunction([i \in EndsOf(m) |-> RunTime(m, i)])
  <2>1. [i \in DOMAIN F |-> Cardinality(F[i])] = [i \in EndsOf(m) |-> RunTime(m, i)]
    BY <1>1, <1>3, <1>6
  <2> QED BY <1>5, <2>1
<1>9. PICK R : R = Running(m)
  OBVIOUS
<1>10. IsFiniteSet(R) /\ U \subseteq R
  <2>1. IsFiniteSet(Intervals(m))
    BY MonthIs, IntervalsFinite
  <2>2. R \subseteq Intervals(m)
    BY <1>9 DEF Running
  <2>3. U \subseteq R
    BY <1>3, <1>5, <1>6, <1>9
  <2> QED BY <2>1, <2>2, <2>3, FS_Subset
<1>11. Cardinality(R) \in Nat /\ n <= Cardinality(R)
  BY <1>7, <1>10, FS_Subset, FS_CardinalityType
<1>12. RunHours(m) = Hour * n /\ ran[m] = Hour * Cardinality(R)
  <2>1. RunHours(m) = Hour * n
    BY <1>8 DEF RunHours
  <2>2. ran[m] = Hour * Cardinality(R)
    BY <1>9 DEF PlantInv
  <2> QED BY <2>1, <2>2
<1>13. Hour \in Nat
  BY MonthSize
<1>14. Hour * n <= Hour * Cardinality(R)
  <2>1. Cardinality(R) \in Int
    BY <1>11
  <2> QED BY <1>7, <1>11, <1>13, <2>1, TimesGrows
<1>15. ran[m] \in Nat
  <2>1. PICK x, y : x = Hour /\ y = Cardinality(R)
    OBVIOUS
  <2>2. x \in Nat /\ y \in Nat
    BY <1>11, <1>13, <2>1
  <2>3. x * y \in Nat
    BY <2>2
  <2> QED BY <1>12, <2>1, <2>3
<1>16. WholeRuns(m) => U = R
  <2> SUFFICES ASSUME WholeRuns(m) PROVE R \subseteq U
    BY <1>10
  <2>1. \A t \in R : \E i \in E : t \in F[i]
    BY <1>1, <1>3, <1>9, WholeRunsCounted
  <2> QED BY <1>5, <1>6, <2>1
<1> QED BY <1>7, <1>11, <1>12, <1>13, <1>14, <1>15, <1>16

\* With or without the events of the month.
LEMMA ChargedWithin ==
    ASSUME PlantInv, NEW m \in Months, NEW fetched
    PROVE  /\ GeneratorHours(m, fetched) \in Int /\ ran[m] \in Int
           /\ GeneratorHours(m, fetched) <= ran[m]
           /\ m \in fetched /\ WholeRuns(m) => GeneratorHours(m, fetched) = ran[m]
<1>1. PICK h, r : h = RunHours(m) /\ r = ran[m]
  OBVIOUS
<1>2. h \in Int /\ r \in Nat /\ h <= r /\ (WholeRuns(m) => h = r)
  BY <1>1, HoursWithin
<1>3. CASE m \in fetched
  BY <1>1, <1>2, <1>3 DEF GeneratorHours
<1>4. CASE m \notin fetched
  BY <1>1, <1>2, <1>4 DEF GeneratorHours
<1> QED BY <1>3, <1>4

LEMMA SoundValuesNatural ==
    ASSUME NEW S, Says(S, Nat) PROVE SoundValues(S) \in Nat
<1>1. CASE S # {}
  <2>1. ValueOf(S) \in Nat
    BY <1>1, ValueIs
  <2> QED BY <2>1 DEF SoundValues
<1>2. CASE S = {}
  BY <1>2 DEF SoundValues
<1> QED BY <1>1, <1>2

LEMMA SumOfNatural ==
    ASSUME NEW D, IsFiniteSet(D), NEW f \in [D -> Nat] PROVE SumOf(f) \in Nat
<1>1. PICK s, h, n : s = SumFunction(f) /\ n = 100 * s /\ h = HalfUp(n, 12)
  OBVIOUS
<1>2. s \in Nat
  BY <1>1, SumOfNaturals
<1>3. n \in Int /\ n >= 0 /\ 12 \in Nat \ {0} /\ h = HalfUp(n, 12)
  BY <1>1, <1>2
<1>4. h \in Int /\ h >= 0
  BY <1>3, HalfUpNear
<1> QED BY <1>1, <1>4 DEF SumOf

\* The meters are summed over the sampled intervals of the month.
LEMMA MeteredNatural ==
    ASSUME PlantInv, NEW m \in Months
    PROVE  FacilityKwh(m) \in Nat /\ ItKwh(m) \in Nat
<1>1. IsFiniteSet(Metered(m)) /\ \A t \in Metered(m) : readings[t] \in Samples
  <2>1. IsFiniteSet(Intervals(m)) /\ Metered(m) \subseteq Intervals(m)
    BY MonthIs, IntervalsFinite DEF Metered
  <2>2. \A t \in Metered(m) : readings[t] \in Samples
    BY DEF Metered, PlantInv
  <2> QED BY <2>1, <2>2, FS_Subset
<1>2. \A t \in Metered(m) : Says(readings[t].met, Nat) /\ Says(readings[t].pdu, Nat)
  BY <1>1, CarbonAssumption
<1>3. \A t \in Metered(m) : SoundValues(readings[t].met) \in Nat /\ SoundValues(readings[t].pdu) \in Nat
  BY <1>2, SoundValuesNatural
<1>4. FacilityKwh(m) \in Nat
  <2>1. PICK f : f = [t \in Metered(m) |-> SoundValues(readings[t].met)]
    OBVIOUS
  <2>2. f \in [Metered(m) -> Nat]
    BY <1>3, <2>1
  <2>3. SumOf(f) \in Nat
    BY <1>1, <2>2, SumOfNatural
  <2> QED BY <2>1, <2>3 DEF FacilityKwh
<1>5. ItKwh(m) \in Nat
  <2>1. PICK f : f = [t \in Metered(m) |-> SoundValues(readings[t].pdu)]
    OBVIOUS
  <2>2. f \in [Metered(m) -> Nat]
    BY <1>3, <2>1
  <2>3. SumOf(f) \in Nat
    BY <1>1, <2>2, SumOfNatural
  <2> QED BY <2>1, <2>3 DEF ItKwh
<1> QED BY <1>4, <1>5

\* What heat of a month displaces, as the rounding of a multiple.
LEMMA OffsetIs ==
    ASSUME NEW k \in Int, NEW A, A = GridFactor * (100 - Agreement.hostEfficiency), NEW B, B = 10000
    PROVE  A \in Int /\ B \in Nat \ {0} /\ OffsetKg(k) = HalfUp(k * A, B) /\ OffsetKg(k) \in Int
<1>1. A \in Int /\ k * GridFactor * (100 - Agreement.hostEfficiency) = k * A /\ k * A \in Int
  <2>1. GridFactor \in Int /\ Agreement.hostEfficiency \in Int
    BY CarbonAssumption
  <2>2. PICK e : e = 100 - Agreement.hostEfficiency
    OBVIOUS
  <2>3. e \in Int /\ A = GridFactor * e
    BY <2>1, <2>2
  <2>4. k * GridFactor * e = k * (GridFactor * e) /\ A \in Int /\ k * A \in Int
    BY <2>1, <2>3
  <2> QED BY <2>2, <2>3, <2>4
<1>2. B \in Nat \ {0}
  BY SMT
<1>3. OffsetKg(k) = HalfUp(k * A, B)
  <2>1. OffsetKg(k) = HalfUp(k * GridFactor * (100 - Agreement.hostEfficiency), B)
    BY SMT DEF OffsetKg
  <2> QED BY <1>1, <2>1
<1>4. HalfUp(k * A, B) \in Int
  <2>1. PICK z, h : z = k * A /\ h = HalfUp(z, B)
    OBVIOUS
  <2>2. z \in Int
    BY <1>1, <2>1
  <2>3. h = HalfUp(z, B)
    BY <2>1
  <2>4. h \in Int
    BY <1>2, <2>2, <2>3, HalfUpNear
  <2> QED BY <2>1, <2>4
<1> QED BY <1>1, <1>2, <1>3, <1>4

LEMMA MonthSumsAre ==
    ASSUME PlantInv, NEW m \in Months, NEW fetched, NEW r, r = MonthSums(m, fetched)
    PROVE  /\ r.hours = GeneratorHours(m, fetched) /\ r.hours \in Int /\ r.facility \in Nat /\ r.it \in Nat
           /\ r.kwht \in Nat /\ r.offset = OffsetKg(r.kwht) /\ r.offset \in Int
           /\ r.scope1 \in Int /\ r.scope2 \in Int /\ r.net = r.scope1 + r.scope2 - r.offset
<1>1. PICK h, f, i, k : /\ h = GeneratorHours(m, fetched) /\ f = FacilityKwh(m) /\ i = ItKwh(m)
                        /\ k = HeatResult(m).kwht
  OBVIOUS
<1>2. h \in Int /\ f \in Nat /\ i \in Nat /\ k \in Nat
  <2>1. HeatOf(Counted(m)) \in Nat /\ k = KWht(HeatOf(Counted(m)))
    BY <1>1, HeatWithin DEF HeatResult
  <2>2. k \in Nat
    <3>1. PICK x : x = HeatOf(Counted(m))
      OBVIOUS
    <3>2. x \in Nat /\ x <= x
      BY <2>1, <3>1
    <3>3. KWht(x) \in Nat
      BY <3>2, KWhtGrows
    <3> QED BY <2>1, <3>1, <3>3
  <2> QED BY <1>1, <2>2, ChargedWithin, MeteredNatural
<1>3. /\ r.hours = h /\ r.facility = f /\ r.it = i /\ r.kwht = k /\ r.offset = OffsetKg(k)
      /\ r.scope1 = Scope1(h) /\ r.scope2 = Scope2(f) /\ r.net = Scope1(h) + Scope2(f) - OffsetKg(k)
  BY <1>1 DEF MonthSums, Sums
<1>4. OffsetKg(k) \in Int
  BY <1>2, OffsetIs
<1>5. Scope1(h) \in Int
  <2>1. LitresPerHour \in Nat
    BY CarbonAssumption
  <2> QED BY <1>2, <2>1 DEF Scope1
<1>6. Scope2(f) \in Int
  <2>1. PICK n, s : n = f * GridFactor /\ s = HalfUp(n, 100)
    OBVIOUS
  <2>2. GridFactor \in Nat
    BY CarbonAssumption
  <2>3. n \in Int /\ 100 \in Nat \ {0} /\ s = HalfUp(n, 100)
    BY <1>2, <2>1, <2>2
  <2>4. s \in Int
    BY <2>3, HalfUpNear
  <2> QED BY <2>1, <2>4 DEF Scope2
<1> QED BY <1>1, <1>2, <1>3, <1>4, <1>5, <1>6

\* At most all of the waste heat is recovered.
LEMMA RecoveryWithin ==
    ASSUME PlantInv, NEW m \in Months, NEW fetched
    PROVE  Efficiency(MonthSums(m, fetched)).recovery \in 0..1000
<1>1. PICK r, x, d, n : /\ r = MonthSums(m, fetched) /\ d = r.facility - r.it /\ n = 1000 * r.kwht
                        /\ x = Ratio(r.kwht, d)
  OBVIOUS
<1>2. r.facility \in Nat /\ r.it \in Nat /\ r.kwht \in Nat
  BY <1>1, MonthSumsAre
<1>3. d \in Int /\ n \in Int /\ n >= 0
  BY <1>1, <1>2
<1>4. x \in Int /\ x >= 0
  <2>1. CASE d > 0
    <3>1. x = HalfUp(n, d) /\ d \in Nat \ {0}
      BY <1>1, <1>3, <2>1 DEF Ratio
    <3> QED BY <1>3, <3>1, HalfUpNear
  <2>2. CASE ~ (d > 0)
    BY <1>1, <2>2 DEF Ratio
  <2> QED BY <2>1, <2>2
<1>5. Efficiency(r).recovery = Min({1000, x})
  BY <1>1 DEF Efficiency
<1>6. 1000 \in Int
  BY SMT
<1>7. Min({1000, x}) = IF 1000 <= x THEN 1000 ELSE x
  BY <1>4, <1>6, MinOfTwo
<1>8. (IF 1000 <= x THEN 1000 ELSE x) \in 0..1000
  BY <1>4, SMT
<1>9. Efficiency(r).recovery \in 0..1000
  BY <1>5, <1>7, <1>8, SMT
<1> QED BY <1>1, <1>9, SMT

\* The ratio of the sums lies between the ratios, a unit below them at a tie.
LEMMA RatioOfSums ==
    ASSUME NEW D, D # {}, NEW f, NEW g, IntOn(f, D), IntOn(g, D), NEW p, NEW N \in Nat,
           NEW P, P = {p[x] : x \in D}, \A x \in D : f[x] \in Nat /\ g[x] > 0 /\ p[x] = HalfUp(N * f[x], g[x])
    PROVE  /\ SumOver(f, D) \in Nat /\ SumOver(g, D) \in Nat \ {0}
           /\ HalfEven(N * SumOver(f, D), SumOver(g, D))
                \in (Min(P) - 1)..Max(P)
<1>1. P = {p[x] : x \in D}
  OBVIOUS
<1>2. N \in Nat
  OBVIOUS
<1>3. IsFiniteSet(D) /\ \A x \in D : f[x] \in Nat /\ g[x] \in Nat \ {0}
  BY DEF IntOn
<1>4. \A x \in D : /\ p[x] \in Int
                   /\ 2 * (g[x] * p[x]) <= 2 * (N * f[x]) + g[x]
                   /\ 2 * (N * f[x]) < 2 * (g[x] * p[x]) + g[x]
  <2> SUFFICES ASSUME NEW x \in D
               PROVE  /\ p[x] \in Int
                      /\ 2 * (g[x] * p[x]) <= 2 * (N * f[x]) + g[x]
                      /\ 2 * (N * f[x]) < 2 * (g[x] * p[x]) + g[x]
    OBVIOUS
  <2>1. N * f[x] \in Int /\ N * f[x] >= 0 /\ g[x] \in Nat \ {0}
    BY <1>2, <1>3
  <2>2. p[x] = HalfUp(N * f[x], g[x])
    OBVIOUS
  <2> QED BY <2>1, <2>2, HalfUpNear
<1>5. IsFiniteSet(P) /\ P # {} /\ P \subseteq Int
  <2>1. PICK h : h = [x \in D |-> p[x]]
    OBVIOUS
  <2>2. h \in Surjection(D, P)
    BY <1>1, <2>1 DEF Surjection
  <2>3. IsFiniteSet(P)
    BY <1>3, <2>2, FS_Surjection
  <2> QED BY <1>1, <1>4, <2>3
<1>6. PICK lo, hi : lo = Min(P) /\ hi = Max(P)
  OBVIOUS
<1>7. lo \in Int /\ hi \in Int /\ \A x \in D : lo <= p[x] /\ p[x] <= hi
  <2>1. Min(P) \in P /\ \A y \in P : Min(P) <= y
    BY <1>5, MinExists
  <2>2. Max(P) \in P /\ \A y \in P : y <= Max(P)
    BY <1>5, MaxExists
  <2>3. \A x \in D : p[x] \in P
    BY <1>1
  <2>4. lo \in P /\ hi \in P /\ \A y \in P : lo <= y /\ y <= hi
    BY <1>6, <2>1, <2>2
  <2> QED BY <1>5, <2>3, <2>4
<1>8. PICK a, b, c, d : /\ a = [x \in D |-> (2 * N) * f[x]] /\ b = [x \in D |-> (2 * hi + 1) * g[x]]
                        /\ c = [x \in D |-> (2 * lo - 1) * g[x]] /\ d = 0
  OBVIOUS
<1>9. \A x \in D : a[x] \in Int /\ b[x] \in Int /\ c[x] \in Int
  BY <1>2, <1>3, <1>7, <1>8
<1>10. ASSUME NEW x \in D PROVE a[x] < b[x] /\ c[x] <= a[x]
  <2>1. PICK u, v, w : u = g[x] /\ v = p[x] /\ w = N * f[x]
    OBVIOUS
  <2>2. /\ u \in Nat \ {0} /\ v \in Int /\ w \in Int /\ lo <= v /\ v <= hi
        /\ 2 * (u * v) <= 2 * w + u /\ 2 * w < 2 * (u * v) + u
    BY <1>2, <1>3, <1>4, <1>7, <2>1
  <2>3. u * v <= u * hi
    BY <1>7, <2>2, TimesGrows
  <2>4. u * lo <= u * v
    BY <1>7, <2>2, TimesGrows
  <2>5. a[x] = 2 * w /\ b[x] = 2 * (u * hi) + u /\ c[x] = 2 * (u * lo) - u
    BY <1>2, <1>3, <1>7, <1>8, <2>1, <2>2
  <2>6. PICK y, z, o : y = u * v /\ z = u * hi /\ o = u * lo
    OBVIOUS
  <2>7. y \in Int /\ z \in Int /\ o \in Int
    BY <1>7, <2>2, <2>6
  <2> QED BY <2>2, <2>3, <2>4, <2>5, <2>6, <2>7
<1>11. PICK F, T : F = SumOver(f, D) /\ T = SumOver(g, D)
  OBVIOUS
<1>12. F \in Nat /\ T \in Nat
  <2>1. \A x \in D : f[x] >= 0
    BY <1>3
  <2>2. \A x \in D : g[x] >= 0
    BY <1>3
  <2>3. F \in Nat
    BY <1>11, <2>1, SumAtLeastZero
  <2>4. T \in Nat
    BY <1>11, <2>2, SumAtLeastZero
  <2> QED BY <2>3, <2>4
<1>13. T > 0
  <2>1. PICK z : z = [x \in D |-> 0]
    OBVIOUS
  <2>2. IntOn(z, D) /\ (\A x \in D : z[x] < g[x]) /\ \A x \in D : z[x] = 0
    BY <1>3, <2>1 DEF IntOn
  <2>3. SumOver(z, D) < T
    BY <1>11, <2>2, SumStrict
  <2>4. SumOver(z, D) = 0
    BY <1>3, <2>2, SumOfZeros
  <2> QED BY <2>3, <2>4
<1>14. SumOver(a, D) = (2 * N) * F /\ SumOver(b, D) = (2 * hi + 1) * T /\ SumOver(c, D) = (2 * lo - 1) * T
  <2>1. 2 * N \in Int /\ 2 * hi + 1 \in Int /\ 2 * lo - 1 \in Int
    BY <1>2, <1>7
  <2>2. /\ \A x \in D : a[x] = (2 * N) * f[x]
        /\ \A x \in D : b[x] = (2 * hi + 1) * g[x]
        /\ \A x \in D : c[x] = (2 * lo - 1) * g[x]
    BY <1>8
  <2>3. SumOver(a, D) = (2 * N) * F
    BY <1>11, <2>1, <2>2, SumScaled
  <2>4. SumOver(b, D) = (2 * hi + 1) * T
    BY <1>11, <2>1, <2>2, SumScaled
  <2>5. SumOver(c, D) = (2 * lo - 1) * T
    BY <1>11, <2>1, <2>2, SumScaled
  <2> QED BY <2>3, <2>4, <2>5
<1>15. IntOn(a, D) /\ IntOn(b, D) /\ IntOn(c, D)
  BY <1>3, <1>9 DEF IntOn
<1>16. SumOver(a, D) < SumOver(b, D)
  BY <1>10, <1>15, SumStrict
<1>17. SumOver(c, D) <= SumOver(a, D)
  BY <1>10, <1>15, SumGrows
<1>18. PICK q, n : q = HalfEven(n, T) /\ n = N * F
  <2>1. PICK n : n = N * F
    OBVIOUS
  <2> QED BY <2>1
<1>19. n \in Nat /\ q \in Int /\ 2 * (T * q) <= 2 * n + T /\ 2 * n <= 2 * (T * q) + T
  <2>1. n \in Nat
    BY <1>2, <1>12, <1>18
  <2>2. q = HalfEven(n, T) /\ T \in Nat \ {0}
    BY <1>12, <1>13, <1>18
  <2> QED BY <2>1, <2>2, HalfEvenNear
<1>20. PICK y, z, o : y = T * q /\ z = T * hi /\ o = T * lo
  OBVIOUS
<1>21. /\ y \in Int /\ z \in Int /\ o \in Int /\ T \in Nat \ {0}
       /\ 2 * n < 2 * z + T /\ 2 * o - T <= 2 * n /\ 2 * y <= 2 * n + T /\ 2 * n <= 2 * y + T
  <2>1. y \in Int /\ z \in Int /\ o \in Int /\ T \in Nat \ {0}
    BY <1>7, <1>12, <1>13, <1>19, <1>20
  <2>2. (2 * N) * F = 2 * n /\ (2 * hi + 1) * T = 2 * z + T /\ (2 * lo - 1) * T = 2 * o - T
    BY <1>2, <1>7, <1>12, <1>18, <1>20
  <2> QED BY <1>14, <1>16, <1>17, <1>19, <1>20, <2>1, <2>2
<1>22. q <= hi
  <2>1. y < z + T
    BY <1>19, <1>21
  <2> QED BY <1>7, <1>19, <1>20, <1>21, <2>1, TimesOrder
<1>23. lo - 1 <= q
  <2>1. T * (lo - 1) = o - T /\ lo - 1 \in Int
    BY <1>7, <1>20, <1>21
  <2>2. T * (lo - 1) < T * q + T
    BY <1>19, <1>20, <1>21, <2>1
  <2> QED BY <1>19, <1>21, <2>1, <2>2, TimesOrder
<1>24. q \in (lo - 1)..hi
  BY <1>7, <1>19, <1>22, <1>23
<1>25. q = HalfEven(N * SumOver(f, D), SumOver(g, D))
  BY <1>11, <1>18
<1> QED BY <1>1, <1>6, <1>11, <1>12, <1>13, <1>24, <1>25

\* A month is not charged with more diesel than its generators ran, and with all of it where
\* its events were fetched and every run is whole; the year is the sum of the months that
\* could be calculated, whichever they are, and its ratios lie between theirs
\* (ESGCalculator.calculate, ESGCalculator.calculate_annual).
THEOREM CarbonReportAddsUp == PlantSpec => []CarbonAddsUp
<1>1. PlantInv => CarbonAddsUp
  <2> SUFFICES ASSUME PlantInv, NEW ms \in (SUBSET {m \in Months : Calculable(m)}) \ {{}},
                      NEW fetched \in SUBSET ms
               PROVE  LET annual == AnnualSums(ms, fetched)
                      IN  /\ \A m \in ms :
                               /\ MonthSums(m, fetched).hours <= ran[m]
                               /\ m \in fetched /\ WholeRuns(m)
                                    => MonthSums(m, fetched).hours = ran[m]
                               /\ Efficiency(MonthSums(m, fetched)).recovery \in 0..1000
                          /\ annual.hours <= SumFunction([m \in ms |-> ran[m]])
                          /\ annual.net = SumFunction([m \in ms |-> MonthSums(m, fetched).net])
                          /\ annual.offset - OffsetKg(annual.kwht) \in -Cardinality(ms)..Cardinality(ms)
                          /\ (\A m \in ms : MonthSums(m, fetched).it > 0) =>
                               LET pues == {Efficiency(MonthSums(m, fetched)).pue : m \in ms}
                               IN  AnnualEfficiency(annual).pue \in (Min(pues) - 1)..Max(pues)
    BY DEF CarbonAddsUp
  <2>0. ms \subseteq Months /\ ms # {}
    OBVIOUS
  <2>1. PICK M, a : M = ms /\ a = AnnualSums(ms, fetched)
    OBVIOUS
  <2>2. PICK R : R = [m \in M |-> MonthSums(m, fetched)]
    OBVIOUS
  <2>3. PICK h, f, i, k, o, x, y :
          /\ h = [m \in M |-> R[m].hours] /\ f = [m \in M |-> R[m].facility]
          /\ i = [m \in M |-> R[m].it] /\ k = [m \in M |-> R[m].kwht]
          /\ o = [m \in M |-> R[m].offset] /\ x = [m \in M |-> R[m].scope1]
          /\ y = [m \in M |-> R[m].scope2]
    OBVIOUS
  <2>5. /\ a.hours = SumOver(h, M) /\ a.facility = SumOver(f, M) /\ a.it = SumOver(i, M)
        /\ a.kwht = SumOver(k, M) /\ a.offset = SumOver(o, M)
        /\ a.net = SumOver(x, M) + SumOver(y, M) - SumOver(o, M)
        /\ IntOn(h, M) /\ IntOn(f, M) /\ IntOn(i, M) /\ IntOn(k, M) /\ IntOn(o, M)
        /\ IntOn(x, M) /\ IntOn(y, M)
    <3>1. \A m \in M : m \in Months /\ R[m] = MonthSums(m, fetched)
      BY <2>0, <2>1, <2>2
    <3>2. IsFiniteSet(M)
      BY <2>0, <2>1, PlantAssumption, FS_Subset
    <3>3. \A m \in M : /\ R[m].hours \in Int /\ R[m].facility \in Nat /\ R[m].it \in Nat
                       /\ R[m].kwht \in Nat /\ R[m].offset \in Int
                       /\ R[m].scope1 \in Int /\ R[m].scope2 \in Int
      BY <3>1, MonthSumsAre
    <3>4. /\ IntOn(h, M) /\ IntOn(f, M) /\ IntOn(i, M) /\ IntOn(k, M) /\ IntOn(o, M)
          /\ IntOn(x, M) /\ IntOn(y, M)
      BY <2>3, <3>2, <3>3 DEF IntOn
    <3>5. /\ h = [m \in M |-> MonthSums(m, fetched).hours] /\ f = [m \in M |-> MonthSums(m, fetched).facility]
          /\ i = [m \in M |-> MonthSums(m, fetched).it] /\ k = [m \in M |-> MonthSums(m, fetched).kwht]
          /\ o = [m \in M |-> MonthSums(m, fetched).offset] /\ x = [m \in M |-> MonthSums(m, fetched).scope1]
          /\ y = [m \in M |-> MonthSums(m, fetched).scope2]
      BY <2>3, <3>1
    <3>6. /\ a.hours = SumFunction(h) /\ a.facility = SumFunction(f) /\ a.it = SumFunction(i)
          /\ a.kwht = SumFunction(k) /\ a.offset = SumFunction(o)
          /\ a.net = SumFunction(x) + SumFunction(y) - SumFunction(o)
      BY <2>1, <3>5 DEF AnnualSums, Sums
    <3>7. /\ h = [m \in M |-> h[m]] /\ f = [m \in M |-> f[m]] /\ i = [m \in M |-> i[m]]
          /\ k = [m \in M |-> k[m]] /\ o = [m \in M |-> o[m]] /\ x = [m \in M |-> x[m]]
          /\ y = [m \in M |-> y[m]]
      BY <2>3
    <3>8. /\ SumFunction(h) = SumOver(h, M) /\ SumFunction(f) = SumOver(f, M)
          /\ SumFunction(i) = SumOver(i, M) /\ SumFunction(k) = SumOver(k, M)
          /\ SumFunction(o) = SumOver(o, M) /\ SumFunction(x) = SumOver(x, M)
          /\ SumFunction(y) = SumOver(y, M)
      BY <3>7, SumIsOver
    <3>9. /\ a.hours = SumOver(h, M) /\ a.facility = SumOver(f, M) /\ a.it = SumOver(i, M)
          /\ a.kwht = SumOver(k, M) /\ a.offset = SumOver(o, M)
          /\ a.net = SumOver(x, M) + SumOver(y, M) - SumOver(o, M)
      BY <3>6, <3>8
    <3> QED BY <3>4, <3>8, <3>9
  <2>6. IsFiniteSet(M) /\ M # {} /\ \A m \in M : m \in Months /\ R[m] = MonthSums(m, fetched)
    BY <2>0, <2>1, <2>2, <2>5 DEF IntOn
  <2>7. \A m \in M : /\ R[m].hours = GeneratorHours(m, fetched) /\ R[m].facility \in Nat /\ R[m].it \in Nat
                     /\ R[m].kwht \in Nat /\ R[m].offset = OffsetKg(R[m].kwht) /\ R[m].offset \in Int
                     /\ R[m].scope1 \in Int /\ R[m].scope2 \in Int
                     /\ R[m].net = R[m].scope1 + R[m].scope2 - R[m].offset
    BY <2>6, MonthSumsAre
  <2>8. ASSUME NEW m \in M
        PROVE  /\ MonthSums(m, fetched).hours <= ran[m]
               /\ m \in fetched /\ WholeRuns(m) => MonthSums(m, fetched).hours = ran[m]
               /\ Efficiency(MonthSums(m, fetched)).recovery \in 0..1000
    <3>1. m \in Months /\ MonthSums(m, fetched).hours = GeneratorHours(m, fetched)
      BY <2>6, <2>7
    <3>2. GeneratorHours(m, fetched) <= ran[m] /\ (m \in fetched /\ WholeRuns(m) => GeneratorHours(m, fetched) = ran[m])
      BY <3>1, ChargedWithin
    <3>3. Efficiency(MonthSums(m, fetched)).recovery \in 0..1000
      BY <3>1, RecoveryWithin
    <3> QED BY <3>1, <3>2, <3>3
  <2>9. a.hours <= SumFunction([m \in M |-> ran[m]])
    <3>1. PICK r : r = [m \in M |-> ran[m]]
      OBVIOUS
    <3>2. \A m \in M : r[m] = ran[m] /\ ran[m] \in Int /\ h[m] <= r[m]
      <4> SUFFICES ASSUME NEW m \in M PROVE r[m] = ran[m] /\ ran[m] \in Int /\ h[m] <= r[m]
        OBVIOUS
      <4>1. m \in Months /\ h[m] = GeneratorHours(m, fetched)
        BY <2>3, <2>6, <2>7
      <4>2. GeneratorHours(m, fetched) <= ran[m] /\ ran[m] \in Int
        BY <4>1, ChargedWithin
      <4> QED BY <3>1, <4>1, <4>2
    <3>3. IntOn(r, M)
      BY <2>6, <3>2 DEF IntOn
    <3>4. SumOver(h, M) <= SumOver(r, M)
      BY <2>5, <3>2, <3>3, SumGrows
    <3>5. SumFunction(r) = SumOver(r, M)
      <4>1. r = [m \in M |-> r[m]]
        BY <3>1
      <4> QED BY <4>1, SumIsOver
    <3> QED BY <2>5, <3>1, <3>4, <3>5
  <2>10. a.net = SumFunction([m \in M |-> MonthSums(m, fetched).net])
    <3>1. PICK n, u, v : /\ n = [m \in M |-> MonthSums(m, fetched).net] /\ v = [m \in M |-> (-1) * o[m]]
                         /\ u = [m \in M |-> x[m] + y[m]]
      OBVIOUS
    <3>2. \A m \in M : /\ n[m] = u[m] + v[m] /\ u[m] = x[m] + y[m] /\ v[m] = (-1) * o[m]
                       /\ u[m] \in Int /\ v[m] \in Int
      BY <2>3, <2>6, <2>7, <3>1
    <3>3. IntOn(u, M) /\ IntOn(v, M)
      BY <2>6, <3>2 DEF IntOn
    <3>4. SumOver(n, M) = SumOver(u, M) + SumOver(v, M)
      BY <3>2, <3>3, SumOfSums
    <3>5. SumOver(u, M) = SumOver(x, M) + SumOver(y, M)
      BY <2>5, <3>2, SumOfSums
    <3>6. SumOver(v, M) = (-1) * SumOver(o, M)
      BY <2>5, <3>2, SumScaled
    <3>7. SumFunction(n) = SumOver(n, M)
      <4>1. n = [m \in M |-> n[m]]
        BY <3>1
      <4> QED BY <4>1, SumIsOver
    <3>8. SumOver(x, M) \in Int /\ SumOver(y, M) \in Int /\ SumOver(o, M) \in Int
      BY <2>5, SumOverMore
    <3> QED BY <2>5, <3>1, <3>4, <3>5, <3>6, <3>7, <3>8
  <2>11. a.offset - OffsetKg(a.kwht) \in -Cardinality(M)..Cardinality(M)
    <3>1. PICK A, B : A = GridFactor * (100 - Agreement.hostEfficiency) /\ B = 10000
      OBVIOUS
    <3>2. a.kwht \in Int
      BY <2>5, SumOverMore
    <3>3. A \in Int /\ B \in Nat \ {0} /\ OffsetKg(a.kwht) = HalfUp(a.kwht * A, B)
      BY <3>1, <3>2, OffsetIs
    <3>4. \A m \in M : k[m] \in Int /\ o[m] = HalfUp(k[m] * A, B)
      <4> SUFFICES ASSUME NEW m \in M PROVE k[m] \in Int /\ o[m] = HalfUp(k[m] * A, B)
        OBVIOUS
      <4>1. k[m] \in Int /\ o[m] = OffsetKg(k[m])
        BY <2>3, <2>7
      <4>2. OffsetKg(k[m]) = HalfUp(k[m] * A, B)
        BY <3>1, <4>1, OffsetIs
      <4> QED BY <4>1, <4>2
    <3>5. SumOver(o, M) - HalfUp(SumOver(k, M) * A, B) \in (-Cardinality(M))..Cardinality(M)
      BY <2>6, <3>3, <3>4, RoundedParts
    <3> QED BY <2>5, <3>3, <3>5
  <2>12. ASSUME \A m \in M : MonthSums(m, fetched).it > 0
         PROVE  AnnualEfficiency(a).pue
                  \in (Min({Efficiency(MonthSums(m, fetched)).pue : m \in M}) - 1)..Max({Efficiency(MonthSums(m, fetched)).pue : m \in M})
    <3>0. PICK N : N = 1000
      BY SMT
    <3>1. PICK p : p = [m \in M |-> Efficiency(MonthSums(m, fetched)).pue]
      OBVIOUS
    <3>2. \A m \in M : f[m] \in Nat /\ i[m] > 0 /\ p[m] = HalfUp(N * f[m], i[m])
      <4> SUFFICES ASSUME NEW m \in M PROVE f[m] \in Nat /\ i[m] > 0 /\ p[m] = HalfUp(N * f[m], i[m])
        OBVIOUS
      <4>1. f[m] = R[m].facility /\ i[m] = R[m].it /\ R[m] = MonthSums(m, fetched) /\ f[m] \in Nat /\ i[m] > 0
        BY <2>3, <2>6, <2>7, <2>12
      <4>2. Efficiency(R[m]).pue = Ratio(f[m], i[m])
        BY <4>1 DEF Efficiency
      <4>3. Ratio(f[m], i[m]) = HalfUp(N * f[m], i[m])
        BY <3>0, <4>1, SMT DEF Ratio
      <4> QED BY <3>1, <4>1, <4>2, <4>3
    <3>3. N \in Nat
      BY <3>0, SMT
    <3>4. PICK P : P = {p[m] : m \in M}
      OBVIOUS
    <3>5. /\ SumOver(i, M) \in Nat \ {0}
          /\ HalfEven(N * SumOver(f, M), SumOver(i, M)) \in (Min(P) - 1)..Max(P)
      <4>1. IntOn(f, M) /\ IntOn(i, M) /\ M # {}
        BY <2>5, <2>6
      <4> QED BY <3>2, <3>3, <3>4, <4>1, RatioOfSums
    <3>6. AnnualEfficiency(a).pue = HalfEven(N * a.facility, a.it)
      <4>1. a.it # 0
        BY <2>5, <3>5
      <4> QED BY <3>0, <4>1, SMT DEF AnnualEfficiency
    <3>7. {p[m] : m \in M} = {Efficiency(MonthSums(m, fetched)).pue : m \in M}
      BY <3>1
    <3> QED BY <2>5, <3>5, <3>4, <3>6, <3>7
  <2> QED BY <2>1, <2>8, <2>9, <2>10, <2>11, <2>12
<1> QED BY <1>1, PlantInvariant, PTL

-----------------------------------------------------------------------------
(* BillingFigures.                                                         *)

\* The readings that came in are of the values a meter delivers.
BillInv == account \in Accounts /\ telemetry \in [AllSensors -> Seq(Values)]

LEMMA BillStarts == BillInit => BillInv
<1> SUFFICES ASSUME BillInit PROVE BillInv
  OBVIOUS
<1>1. \A s \in AllSensors : telemetry[s] \in Seq(Values)
  BY DEF BillInit
<1> QED BY <1>1 DEF BillInit, BillInv

LEMMA BillStep == BillInv /\ [BillNext]_billVars => BillInv'
<1> SUFFICES ASSUME BillInv, [BillNext]_billVars PROVE BillInv'
  OBVIOUS
<1>1. CASE UNCHANGED billVars
  BY <1>1 DEF billVars, BillInv, AllSensors, SensorsOf, SensorOf, Sources
<1>2. ASSUME NEW s \in SensorsOf(account), NEW v \in Values, Meter(s, v) PROVE BillInv'
  <2>1. s \in AllSensors
    BY <1>2 DEF BillInv, AllSensors
  <2>2. Append(telemetry[s], v) \in Seq(Values)
    BY <2>1 DEF BillInv
  <2>3. telemetry' \in [AllSensors -> Seq(Values)] /\ account' = account
    BY <1>2, <2>1, <2>2 DEF BillInv, Meter
  <2> QED BY <2>3 DEF BillInv
<1> QED BY <1>1, <1>2 DEF BillNext

\* Whatever the meters send, there is one customer and one list of values for each meter
\* (StreamBClient.get_telemetry as KWhCalculator.calculate calls it).
THEOREM BillInvariant == BillSpec => []BillInv
BY BillStarts, BillStep, PTL DEF BillSpec

(* The customer and the readings.                                          *)

LEMMA SourcesAre ==
    ASSUME NEW c \in Accounts
    PROVE  /\ c.racks \in Seq(Range(c.racks)) /\ Len(c.racks) \in Nat /\ DOMAIN c.racks = 1..Len(c.racks)
           /\ IsFiniteSet(Sources(c)) /\ \A x \in Sources(c) : x = <<x[1], x[2]>> /\ x[1] \in Nat /\ x[2] \in Nat
           /\ SensorsOf(c) \subseteq AllSensors
<1>1. IsList(c.racks) /\ IsList(c.meters)
  BY MonthAssumption
<1>2. PICK R, M : R = Range(c.racks) /\ M = Range(c.meters)
  OBVIOUS
<1>3. c.racks \in Seq(R) /\ c.meters \in Seq(M)
  BY <1>1, <1>2 DEF IsList
<1>4. /\ Len(c.racks) \in Nat /\ DOMAIN c.racks = 1..Len(c.racks)
      /\ Len(c.meters) \in Nat /\ DOMAIN c.meters = 1..Len(c.meters)
  BY <1>3
<1>5. PICK A, B : A = DOMAIN c.racks /\ B = IF c.meters = <<>> THEN {1} ELSE DOMAIN c.meters
  OBVIOUS
<1>6. Sources(c) = A \X B
  BY <1>5 DEF Sources
<1>7. IsFiniteSet(A) /\ IsFiniteSet(B)
  <2>1. Len(c.racks) \in Int /\ Len(c.meters) \in Int /\ 1 \in Int
    BY <1>4
  <2>2. IsFiniteSet(1..Len(c.racks)) /\ IsFiniteSet(1..Len(c.meters)) /\ IsFiniteSet({1})
    BY <2>1, FS_Interval, FS_Singleton
  <2> QED BY <1>4, <1>5, <2>2
<1>8. A \subseteq Nat /\ B \subseteq Nat
  BY <1>4, <1>5
<1>9. IsFiniteSet(A \X B)
  BY <1>7, FS_Product
<1>10. SensorsOf(c) \subseteq AllSensors
  BY DEF AllSensors
<1> QED BY <1>2, <1>3, <1>4, <1>6, <1>8, <1>9, <1>10

LEMMA EndWithin ==
    ASSUME NEW c \in Accounts
    PROVE  EffectiveEnd(c) \in Int /\ EffectiveEnd(c) <= DaysInMonth
<1>1. DaysInMonth \in Int /\ \A d \in c.end : d \in Int /\ c.end = {d}
  BY MonthAssumption
<1>2. CASE c.end = None
  BY <1>1, <1>2 DEF EffectiveEnd
<1>3. CASE c.end # None
  <2>1. PICK d \in c.end : d \in Int /\ c.end = {d}
    BY <1>1, <1>3 DEF None
  <2>2. c.end \cup {DaysInMonth} = {d, DaysInMonth}
    BY <2>1
  <2>3. Min({d, DaysInMonth}) = IF d <= DaysInMonth THEN d ELSE DaysInMonth
    BY <1>1, <2>1, MinOfTwo
  <2> QED BY <1>1, <1>3, <2>1, <2>2, <2>3 DEF EffectiveEnd
<1> QED BY <1>2, <1>3

LEMMA BilledWithin ==
    ASSUME NEW c \in Accounts
    PROVE  /\ Billed(c) \subseteq 1..(DaysInMonth * DaySlots) /\ Billed(c) \subseteq Nat
           /\ IsFiniteSet(Billed(c)) /\ EffectiveEnd(c) * DaySlots \in Int
<1>1. PICK e, n, b : e = EffectiveEnd(c) /\ n = DaysInMonth /\ b = DaySlots
  OBVIOUS
<1>2. e \in Int /\ e <= n /\ n \in Int /\ b \in Nat
  BY <1>1, EndWithin, MonthAssumption
<1>3. b * e <= b * n
  BY <1>2, TimesGrows
<1>4. PICK u, v : u = e * b /\ v = n * b
  OBVIOUS
<1>5. u <= v /\ u \in Int /\ v \in Int /\ 1 \in Int
  BY <1>2, <1>3, <1>4
<1>6. IsFiniteSet(1..u)
  BY <1>5, FS_Interval
<1>7. 1..u \subseteq 1..v /\ 1..u \subseteq Nat
  BY <1>5
<1>8. Billed(c) = 1..u /\ EffectiveEnd(c) * DaySlots = u /\ DaysInMonth * DaySlots = v
  BY <1>1, <1>4 DEF Billed
<1> QED BY <1>5, <1>6, <1>7, <1>8

\* The sum over one value.
LEMMA KwOfOne == ASSUME NEW v, v.kw \in Int PROVE Kw({v}) = v.kw /\ Kw({}) = 0
<1>1. PICK f : f = [w \in {v} |-> w.kw]
  OBVIOUS
<1>2. IntOn(f, {v}) /\ f[v] = v.kw
  BY <1>1, FS_Singleton DEF IntOn
<1>3. SumOver(f, {v}) = f[v] + SumOver(f, {v} \ {v})
  BY <1>2, SumOverMore
<1>4. SumOver(f, {}) = 0 /\ {v} \ {v} = {}
  BY SumOverNone
<1>5. SumFunction(f) = SumOver(f, {v})
  <2>1. f = [w \in {v} |-> f[w]]
    BY <1>1
  <2> QED BY <2>1, SumIsOver
<1>6. Kw({v}) = SumFunction(f)
  BY <1>1 DEF Kw
<1>7. Kw({}) = 0
  <2>1. PICK g : g = [w \in {} |-> w.kw]
    OBVIOUS
  <2>2. DOMAIN g = {}
    BY <2>1
  <2>3. SumFunction(g) = 0
    BY <2>2, SumEmpty
  <2> QED BY <2>1, <2>3 DEF Kw
<1> QED BY <1>2, <1>3, <1>4, <1>5, <1>6, <1>7

\* What an interval of a sensor weighs.
LEMMA LoadIs ==
    ASSUME BillInv, Complete, NEW s \in SensorsOf(account), NEW t \in Billed(account)
    PROVE  /\ t \in DOMAIN telemetry[s] /\ Kw(Load(s, t)) \in Nat
           /\ Load(s, t) = {} => Kw(Load(s, t)) = 0
           /\ \A v \in telemetry[s][t] : telemetry[s][t] = {v} /\ v.kw \in Nat
           /\ Load(s, t) # {} => /\ telemetry[s][t] # None
                                 /\ (CHOOSE v \in telemetry[s][t] : TRUE).quality # "BAD"
                                 /\ Kw(Load(s, t)) = (CHOOSE v \in telemetry[s][t] : TRUE).kw
           /\ telemetry[s][t] # None /\ (CHOOSE v \in telemetry[s][t] : TRUE).quality # "BAD" => Load(s, t) # {}
<1>1. account \in Accounts /\ s \in AllSensors /\ telemetry[s] \in Seq(Values)
  BY SourcesAre DEF BillInv
<1>2. t \in DOMAIN telemetry[s]
  <2>1. Len(telemetry[s]) = DaysInMonth * DaySlots /\ DOMAIN telemetry[s] = 1..Len(telemetry[s])
    BY <1>1 DEF Complete
  <2> QED BY <1>1, <2>1, BilledWithin
<1>3. PICK V : V = telemetry[s][t]
  OBVIOUS
<1>4. V \in Values
  BY <1>1, <1>2, <1>3
<1>5. \A v \in V : V = {v} /\ v.kw \in Nat
  BY <1>4, MonthAssumption
<1>6. CASE V = {}
  <2>1. Load(s, t) = {}
    BY <1>3, <1>6 DEF Load
  <2>2. Kw({}) = 0
    <3>1. PICK v : v = [kw |-> 0]
      OBVIOUS
    <3>2. v.kw \in Int
      BY <3>1
    <3> QED BY <3>2, KwOfOne
  <2> QED BY <1>2, <1>3, <1>6, <2>1, <2>2 DEF None
<1>7. CASE V # {}
  <2>1. PICK v \in V : V = {v} /\ v.kw \in Nat
    BY <1>5, <1>7
  <2>2. (CHOOSE w \in V : TRUE) = v
    BY <2>1
  <2>3. Kw({v}) = v.kw /\ Kw({}) = 0
    BY <2>1, KwOfOne
  <2>4. Load(s, t) = IF v.quality # "BAD" THEN {v} ELSE {}
    BY <1>3, <2>1 DEF Load
  <2>5. /\ Kw(Load(s, t)) \in Nat
        /\ Load(s, t) = {} => Kw(Load(s, t)) = 0
        /\ Load(s, t) # {} => v.quality # "BAD" /\ Kw(Load(s, t)) = v.kw
        /\ v.quality # "BAD" => Load(s, t) # {}
    BY <2>1, <2>3, <2>4
  <2> QED BY <1>2, <1>3, <1>5, <1>7, <2>2, <2>5 DEF None
<1> QED BY <1>6, <1>7

\* The weight of the readings that count, and of the slots they fill.
KwIn     == [r \in Sound(account) |-> Reading(account, r).kw]
SlotKw   == [r \in Billed(account) \X Sources(account) |-> Kw(Load(SensorOf(account, r[2]), r[1]))]

LEMMA SoundIs ==
    ASSUME BillInv, Complete
    PROVE  /\ IsFiniteSet(Billed(account) \X Sources(account)) /\ Sound(account) \subseteq AllReadings(account)
           /\ AllReadings(account) \subseteq Billed(account) \X Sources(account)
           /\ \A r \in Billed(account) \X Sources(account) :
                /\ r[1] \in Billed(account) /\ r[2] \in Sources(account) /\ SensorOf(account, r[2]) \in SensorsOf(account)
                /\ SlotKw[r] \in Nat
                /\ r \in AllReadings(account) <=> telemetry[SensorOf(account, r[2])][r[1]] # None
                /\ r \in Sound(account) <=> Load(SensorOf(account, r[2]), r[1]) # {}
                /\ r \in Sound(account) => KwIn[r] = SlotKw[r]
                /\ r \notin Sound(account) => SlotKw[r] = 0
<1>1. account \in Accounts
  BY DEF BillInv
<1>2. PICK D : D = Billed(account) \X Sources(account)
  OBVIOUS
<1>3. IsFiniteSet(D)
  BY <1>1, <1>2, BilledWithin, SourcesAre, FS_Product
<1>4. Sound(account) \subseteq AllReadings(account) /\ AllReadings(account) \subseteq D
  BY <1>2 DEF Sound, AllReadings
<1>5. ASSUME NEW r \in D
      PROVE  /\ r[1] \in Billed(account) /\ r[2] \in Sources(account) /\ SensorOf(account, r[2]) \in SensorsOf(account)
             /\ SlotKw[r] \in Nat
             /\ r \in AllReadings(account) <=> telemetry[SensorOf(account, r[2])][r[1]] # None
             /\ r \in Sound(account) <=> Load(SensorOf(account, r[2]), r[1]) # {}
             /\ r \in Sound(account) => KwIn[r] = SlotKw[r]
             /\ r \notin Sound(account) => SlotKw[r] = 0
  <2>1. PICK t, x : t = r[1] /\ x = r[2]
    OBVIOUS
  <2>2. t \in Billed(account) /\ x \in Sources(account)
    BY <1>2, <2>1
  <2>3. PICK s : s = SensorOf(account, x)
    OBVIOUS
  <2>4. s \in SensorsOf(account)
    BY <2>2, <2>3 DEF SensorsOf
  <2>5. PICK V : V = telemetry[s][t]
    OBVIOUS
  <2>6. r \in AllReadings(account) <=> V # None
    <3>1. t \in DOMAIN telemetry[s]
      BY <2>2, <2>4, LoadIs
    <3> QED BY <1>2, <2>1, <2>3, <2>5, <3>1 DEF AllReadings, Value
  <2>7. Reading(account, r) = CHOOSE v \in V : TRUE
    BY <2>1, <2>3, <2>5 DEF Reading, Value
  <2>8. r \in Sound(account) <=> V # None /\ (CHOOSE v \in V : TRUE).quality # "BAD"
    BY <2>6, <2>7 DEF Sound
  <2>9. /\ Kw(Load(s, t)) \in Nat /\ (Load(s, t) = {} => Kw(Load(s, t)) = 0)
        /\ Load(s, t) # {} => V # None /\ (CHOOSE v \in V : TRUE).quality # "BAD"
                              /\ Kw(Load(s, t)) = (CHOOSE v \in V : TRUE).kw
        /\ V # None /\ (CHOOSE v \in V : TRUE).quality # "BAD" => Load(s, t) # {}
    BY <2>2, <2>4, <2>5, LoadIs
  <2>10. SlotKw[r] = Kw(Load(s, t))
    BY <1>2, <2>1, <2>3 DEF SlotKw
  <2>11. r \in Sound(account) => KwIn[r] = (CHOOSE v \in V : TRUE).kw
    BY <2>7 DEF KwIn
  <2> QED BY <2>1, <2>2, <2>3, <2>4, <2>5, <2>6, <2>8, <2>9, <2>10, <2>11
<1> QED BY <1>2, <1>3, <1>4, <1>5

LEMMA EnergyIs ==
    ASSUME BillInv, Complete
    PROVE  /\ IntOn(KwIn, Sound(account)) /\ (\A r \in Sound(account) : KwIn[r] \in Nat)
           /\ Energy(account) = HalfUp(10000 * SumOver(KwIn, Sound(account)), 12)
           /\ IntOn(SlotKw, Billed(account) \X Sources(account))
           /\ SumOver(KwIn, Sound(account)) = SumOver(SlotKw, Billed(account) \X Sources(account))
           /\ SumOver(KwIn, Sound(account)) \in Nat
<1>1. PICK D, S, f, g : D = Billed(account) \X Sources(account) /\ S = Sound(account) /\ f = KwIn /\ g = SlotKw
  OBVIOUS
<1>2. /\ IsFiniteSet(D) /\ S \subseteq D /\ IsFiniteSet(S)
      /\ \A r \in D : g[r] \in Nat /\ (r \in S => f[r] = g[r]) /\ (r \notin S => g[r] = 0)
  <2>1. /\ IsFiniteSet(D) /\ S \subseteq D
        /\ \A r \in D : g[r] \in Nat /\ (r \in S => f[r] = g[r]) /\ (r \notin S => g[r] = 0)
    BY <1>1, SoundIs
  <2> QED BY <2>1, FS_Subset
<1>3. IntOn(f, S) /\ IntOn(g, D) /\ (\A r \in S : f[r] \in Nat) /\ Agree(f, g, S)
  BY <1>2 DEF IntOn, Agree
<1>4. SumOver(f, S) = SumOver(g, S)
  BY <1>3, SameSum
<1>5. SumOver(g, S) = SumOver(g, D)
  <2>1. \A r \in D \ S : g[r] = 0
    BY <1>2
  <2> QED BY <1>2, <1>3, <2>1, SumWithoutZeros
<1>6. SumOver(f, S) \in Nat
  <2>1. \A r \in S : f[r] >= 0
    BY <1>3
  <2> QED BY <1>3, <2>1, SumAtLeastZero
<1>7. Energy(account) = HalfUp(10000 * SumOver(f, S), 12)
  <2>1. f = [r \in S |-> Reading(account, r).kw]
    BY <1>1 DEF KwIn
  <2>2. f = [r \in S |-> f[r]]
    BY <2>1
  <2>3. SumFunction(f) = SumOver(f, S)
    BY <2>2, SumIsOver
  <2>4. SumFunction([r \in Sound(account) |-> Reading(account, r).kw]) = SumOver(f, S)
    BY <1>1, <2>1, <2>3
  <2> QED BY <2>4, SMT DEF Energy
<1> QED BY <1>1, <1>3, <1>4, <1>5, <1>6, <1>7

\* Where no two racks share a meter each reading is billed once.
LEMMA BilledOnce ==
    ASSUME BillInv, Complete,
           \A x, y \in Sources(account) : SensorOf(account, x) = SensorOf(account, y) => x = y
    PROVE  SumOver(KwIn, Sound(account))
             = SumFunction([x \in SensorsOf(account) \X Billed(account) |-> Kw(Load(x[1], x[2]))])
<1>1. PICK D, g, I : /\ D = Billed(account) \X Sources(account) /\ g = SlotKw
                     /\ I = SensorsOf(account) \X Billed(account)
  OBVIOUS
<1>2. PICK f, b : /\ f = [x \in I |-> Kw(Load(x[1], x[2]))]
                  /\ b = [r \in D |-> <<SensorOf(account, r[2]), r[1]>>]
  OBVIOUS
<1>3. \A r \in D : r[1] \in Billed(account) /\ r[2] \in Sources(account) /\ r = <<r[1], r[2]>>
  BY <1>1
<1>4. \A r \in D : b[r] = <<SensorOf(account, r[2]), r[1]>> /\ b[r] \in I
  BY <1>1, <1>2, <1>3 DEF SensorsOf
<1>5. \A q, r \in D : b[q] = b[r] => q = r
  <2> SUFFICES ASSUME NEW q \in D, NEW r \in D, b[q] = b[r] PROVE q = r
    OBVIOUS
  <2>1. SensorOf(account, q[2]) = SensorOf(account, r[2]) /\ q[1] = r[1]
    BY <1>4
  <2>2. q[2] = r[2]
    BY <1>3, <2>1
  <2> QED BY <1>3, <2>1, <2>2
<1>6. ASSUME NEW r \in D PROVE f[b[r]] \in Int /\ g[r] = f[b[r]]
  <2>1. g[r] = Kw(Load(SensorOf(account, r[2]), r[1])) /\ g[r] \in Nat
    BY <1>1, SoundIs DEF SlotKw
  <2>2. f[b[r]] = Kw(Load(SensorOf(account, r[2]), r[1]))
    BY <1>2, <1>4
  <2> QED BY <2>1, <2>2
<1>7. {b[r] : r \in D} = I
  <2>1. ASSUME NEW i \in I PROVE \E r \in D : b[r] = i
    <3>1. PICK x \in Sources(account) : i[1] = SensorOf(account, x)
      BY <1>1 DEF SensorsOf
    <3>2. i[2] \in Billed(account) /\ i = <<i[1], i[2]>>
      BY <1>1
    <3>3. <<i[2], x>> \in D
      BY <1>1, <3>1, <3>2
    <3>4. b[<<i[2], x>>] = i
      BY <1>4, <3>1, <3>2, <3>3
    <3> QED BY <3>3, <3>4
  <2> QED BY <1>4, <2>1
<1>8. IsFiniteSet(D)
  BY <1>1, SoundIs
<1>9. SumOver(g, D) = SumOver(f, {b[r] : r \in D})
  BY <1>5, <1>6, <1>8, SumRenamed
<1>10. SumFunction(f) = SumOver(f, I)
  <2>1. f = [x \in I |-> f[x]]
    BY <1>2
  <2> QED BY <2>1, SumIsOver
<1>11. SumFunction([x \in SensorsOf(account) \X Billed(account) |-> Kw(Load(x[1], x[2]))]) = SumOver(f, I)
  BY <1>1, <1>2, <1>10
<1>12. SumOver(KwIn, Sound(account)) = SumOver(g, D)
  BY <1>1, EnergyIs
<1> QED BY <1>7, <1>9, <1>11, <1>12

\* The highest window is one of them, and none is above it.
LEMMA HighestIs ==
    ASSUME BillInv, Complete, NEW W, W = Windows(Sound(account)), NEW h, h = Highest(account, W)
    PROVE  /\ h \in Nat /\ \A w \in W : SumOver(KwIn, w) <= h /\ w \subseteq Sound(account) /\ Cardinality(w) = 3
           /\ h = 0 \/ \E w \in W : h = SumOver(KwIn, w)
<1>1. PICK S, f : S = Sound(account) /\ f = KwIn
  OBVIOUS
<1>2. IntOn(f, S) /\ \A r \in S : f[r] \in Nat
  BY <1>1, EnergyIs
<1>3. \A w \in W : w \subseteq S /\ Cardinality(w) = 3
  BY <1>1 DEF Windows, RunFrom
<1>4. IsFiniteSet(W)
  <2>1. IsFiniteSet(SUBSET S)
    BY <1>2, FS_SUBSET DEF IntOn
  <2>2. W \subseteq SUBSET S
    BY <1>3
  <2> QED BY <2>1, <2>2, FS_Subset
<1>5. ASSUME NEW w \in W
      PROVE  SumFunction([r \in w |-> Reading(account, r).kw]) = SumOver(f, w) /\ SumOver(f, w) \in Nat
  <2>1. w \subseteq S
    BY <1>3
  <2>2. PICK e : e = [r \in w |-> Reading(account, r).kw]
    OBVIOUS
  <2>3. Agree(e, f, w) /\ e = [r \in w |-> e[r]]
    BY <1>1, <2>1, <2>2 DEF KwIn, Agree
  <2>4. SumFunction(e) = SumOver(e, w)
    BY <2>3, SumIsOver
  <2>5. SumOver(e, w) = SumOver(f, w)
    BY <2>3, SameSum
  <2>6. IntOn(f, w) /\ \A r \in w : f[r] >= 0
    BY <1>2, <2>1, FS_Subset DEF IntOn
  <2>7. SumOver(f, w) \in Nat
    BY <2>6, SumAtLeastZero
  <2> QED BY <2>2, <2>4, <2>5, <2>7
<1>6. PICK V, T, g : T = {SumOver(f, w) : w \in W} /\ V = {0} \cup T /\ g = [w \in W |-> SumOver(f, w)]
  OBVIOUS
<1>7. h = Max(V)
  <2>1. {SumFunction([r \in w |-> Reading(account, r).kw]) : w \in W} = T
    BY <1>5, <1>6
  <2> QED BY <1>6, <2>1 DEF Highest
<1>8. IsFiniteSet(V) /\ V # {} /\ V \subseteq Int
  <2>1. g \in Surjection(W, T)
    BY <1>6 DEF Surjection
  <2>2. IsFiniteSet(T) /\ IsFiniteSet({0})
    BY <1>4, <2>1, FS_Surjection, FS_Singleton
  <2>3. IsFiniteSet({0} \cup T)
    BY <2>2, FS_Union
  <2>4. \A w \in W : SumOver(f, w) \in Nat
    BY <1>5
  <2>5. T \subseteq Int
    <3> SUFFICES ASSUME NEW y \in T PROVE y \in Int
      OBVIOUS
    <3>1. PICK w \in W : y = SumOver(f, w)
      BY <1>6
    <3> QED BY <2>4, <3>1
  <2> QED BY <1>6, <2>3, <2>5
<1>9. h \in V /\ \A y \in V : y <= h
  BY <1>7, <1>8, MaxExists
<1>10. \A w \in W : SumOver(f, w) <= h
  BY <1>6, <1>9
<1>11. h = 0 \/ \E w \in W : h = SumOver(f, w)
  BY <1>6, <1>9
<1>12. h \in Nat
  <2>1. ASSUME NEW w \in W, h = SumOver(f, w) PROVE h \in Nat
    BY <1>5, <2>1
  <2> QED BY <1>11, <2>1
<1> QED BY <1>1, <1>3, <1>10, <1>11, <1>12

(* One source.                                                             *)

LEMMA OneSource ==
    ASSUME BillInv, Complete, Cardinality(Sources(account)) = 1, NEW one \in SensorsOf(account)
    PROVE  \E x : /\ x[1] \in Nat /\ x[2] \in Nat
                  /\ \A r \in AllReadings(account) : r[1] \in Billed(account) /\ r = <<r[1], x>>
                  /\ \A t \in Billed(account) :
                       /\ <<t, x>> \in AllReadings(account) <=> telemetry[one][t] # None
                       /\ <<t, x>> \in Sound(account) <=> Load(one, t) # {}
                       /\ <<t, x>> \in Sound(account) => KwIn[<<t, x>>] = Kw(Load(one, t))
<1>1. account \in Accounts
  BY DEF BillInv
<1>2. PICK x : Sources(account) = {x}
  BY <1>1, SourcesAre, FS_Singleton
<1>3. x[1] \in Nat /\ x[2] \in Nat
  BY <1>1, <1>2, SourcesAre
<1>4. SensorsOf(account) = {SensorOf(account, x)}
  BY <1>2 DEF SensorsOf
<1>5. one = SensorOf(account, x)
  BY <1>4
<1>6. \A r \in AllReadings(account) : r[1] \in Billed(account) /\ r = <<r[1], x>>
  <2>1. \A r \in AllReadings(account) : r \in Billed(account) \X {x}
    BY <1>2, SoundIs
  <2> QED BY <2>1
<1>7. ASSUME NEW t \in Billed(account)
      PROVE  /\ <<t, x>> \in AllReadings(account) <=> telemetry[one][t] # None
             /\ <<t, x>> \in Sound(account) <=> Load(one, t) # {}
             /\ <<t, x>> \in Sound(account) => KwIn[<<t, x>>] = Kw(Load(one, t))
  <2>1. PICK r : r = <<t, x>>
    OBVIOUS
  <2>2. r \in Billed(account) \X Sources(account) /\ r[1] = t /\ r[2] = x
    BY <1>2, <2>1
  <2>3. /\ r \in AllReadings(account) <=> telemetry[SensorOf(account, r[2])][r[1]] # None
        /\ r \in Sound(account) <=> Load(SensorOf(account, r[2]), r[1]) # {}
        /\ r \in Sound(account) => KwIn[r] = SlotKw[r]
    BY <2>2, SoundIs
  <2>4. SlotKw[r] = Kw(Load(SensorOf(account, r[2]), r[1]))
    BY <2>2 DEF SlotKw
  <2> QED BY <1>5, <2>1, <2>2, <2>3, <2>4
<1> QED BY <1>3, <1>5, <1>6, <1>7

Two(b, c)      == {b, c}
Three(a, b, c) == {a, b, c}

LEMMA CountThree ==
    ASSUME NEW a, NEW b, NEW c, a # b, a # c, b # c
    PROVE  /\ Cardinality(Three(a, b, c)) = 3 /\ Cardinality(Two(b, c)) = 2
           /\ IsFiniteSet(Two(b, c))
<1>1. PICK A, B, C : A = {c} /\ B = A \cup {b} /\ C = B \cup {a}
  OBVIOUS
<1>2. IsFiniteSet(A) /\ Cardinality(A) = 1
  BY <1>1, FS_Singleton
<1>3. IsFiniteSet(B) /\ Cardinality(B) = 2
  <2>1. b \notin A /\ B = A \cup {b}
    BY <1>1
  <2>2. IsFiniteSet(A \cup {b}) /\ Cardinality(A \cup {b}) = Cardinality(A) + 1
    BY <1>2, <2>1, FS_AddElement
  <2> QED BY <1>2, <2>1, <2>2
<1>4. Cardinality(C) = 3
  <2>1. a \notin B /\ C = B \cup {a}
    BY <1>1
  <2>2. Cardinality(B \cup {a}) = Cardinality(B) + 1
    BY <1>3, <2>1, FS_AddElement
  <2> QED BY <1>3, <2>1, <2>2
<1>5. B = Two(b, c) /\ C = Three(a, b, c)
  BY <1>1 DEF Two, Three
<1> QED BY <1>3, <1>4, <1>5

\* The three readings of three slots in a row are a window.
LEMMA WindowOfThree ==
    ASSUME NEW S, IsFiniteSet(S), NEW x, x[1] \in Nat, x[2] \in Nat,
           \A r \in S : r[1] \in Nat /\ r = <<r[1], x>>,
           NEW t \in Nat, NEW a, NEW b, NEW c, a[1] = t, b[1] = t + 1, c[1] = t + 2,
           a \in S, b \in S, c \in S
    PROVE  {a, b, c} \in Windows(S) /\ a # b /\ a # c /\ b # c
<1>1. a # b /\ a # c /\ b # c
  OBVIOUS
<1>2. Cardinality(Three(a, b, c)) = 3 /\ Cardinality(Two(b, c)) = 2 /\ IsFiniteSet(Two(b, c))
  BY <1>1, CountThree
<1>3. \A q, r \in S : Before(q, r) <=> q[1] < r[1]
  <2> SUFFICES ASSUME NEW q \in S, NEW r \in S PROVE Before(q, r) <=> q[1] < r[1]
    OBVIOUS
  <2>1. q[2] = x /\ r[2] = x /\ q[1] \in Nat /\ r[1] \in Nat
    <3>1. q = <<q[1], x>> /\ r = <<r[1], x>> /\ q[1] \in Nat /\ r[1] \in Nat
      OBVIOUS
    <3> QED BY <3>1
  <2>2. ~ (x[1] < x[1]) /\ ~ (x[2] < x[2])
    OBVIOUS
  <2> QED BY <2>1, <2>2 DEF Before
<1>4. a[1] = t /\ b[1] = t + 1 /\ c[1] = t + 2
  OBVIOUS
<1>5. \A r \in S : (r[1] = t => r = a) /\ (r[1] = t + 1 => r = b) /\ (r[1] = t + 2 => r = c)
  <2>1. a = <<t, x>> /\ b = <<t + 1, x>> /\ c = <<t + 2, x>>
    OBVIOUS
  <2> QED BY <2>1
<1>6. ASSUME NEW r \in S, t < r[1] PROVE Between(S, a, r) = {p \in S : t < p[1] /\ p[1] < r[1]}
  BY <1>3, <1>4 DEF Between
<1>7. \A r \in S : r[1] \in Nat
  OBVIOUS
<1>8. Between(S, a, b) = {}
  <2>1. t < b[1]
    BY <1>4
  <2>2. \A p \in S : ~ (t < p[1] /\ p[1] < b[1])
    BY <1>4, <1>7
  <2> QED BY <1>6, <2>1, <2>2
<1>9. Between(S, a, c) = {b}
  <2>1. t < c[1]
    BY <1>4
  <2>2. \A p \in S : t < p[1] /\ p[1] < c[1] <=> p = b
    BY <1>4, <1>5, <1>7
  <2> QED BY <1>6, <2>1, <2>2
<1>10. ASSUME NEW r \in S, t < r[1], r # b, r # c PROVE ~ (Cardinality(Between(S, a, r)) < 2)
  <2>1. b \in Between(S, a, r) /\ c \in Between(S, a, r)
    BY <1>4, <1>5, <1>6, <1>7, <1>10
  <2>2. IsFiniteSet(Between(S, a, r)) /\ {b, c} \subseteq Between(S, a, r)
    <3>1. Between(S, a, r) \subseteq S
      BY DEF Between
    <3> QED BY <2>1, <3>1, FS_Subset
  <2>3. Cardinality({b, c}) = 2 /\ IsFiniteSet({b, c})
    BY <1>2 DEF Two
  <2>4. 2 <= Cardinality(Between(S, a, r)) /\ Cardinality(Between(S, a, r)) \in Nat
    BY <2>2, <2>3, FS_Subset, FS_CardinalityType
  <2> QED BY <2>4
<1>11. Cardinality({}) < 2 /\ Cardinality({b}) < 2
  <2>1. Cardinality({}) = 0 /\ Cardinality({b}) = 1
    BY FS_EmptySet, FS_Singleton
  <2> QED BY <2>1
<1>12. RunFrom(S, a) = {a, b, c}
  <2>1. Before(a, b) /\ Before(a, c) /\ ~Before(a, a)
    BY <1>3, <1>4
  <2>2. b \in RunFrom(S, a) /\ c \in RunFrom(S, a) /\ a \in RunFrom(S, a)
    BY <1>8, <1>9, <1>11, <2>1 DEF RunFrom
  <2>3. ASSUME NEW r \in RunFrom(S, a) PROVE r \in {a, b, c}
    <3>1. r = a \/ (r \in S /\ Before(a, r) /\ Cardinality(Between(S, a, r)) < 2)
      BY DEF RunFrom
    <3>2. r \in S /\ Before(a, r) => t < r[1]
      BY <1>3, <1>4
    <3> QED BY <1>10, <3>1, <3>2
  <2> QED BY <2>2, <2>3
<1> QED BY <1>1, <1>2, <1>12 DEF Windows, Three

LEMMA SumOfThree ==
    ASSUME NEW f, NEW a, NEW b, NEW c, a # b, a # c, b # c, f[a] \in Int, f[b] \in Int, f[c] \in Int
    PROVE  SumOver(f, Three(a, b, c)) = f[a] + f[b] + f[c]
<1>1. IntOn(f, {a}) /\ IntOn(f, {b}) /\ IntOn(f, {c})
  BY FS_Singleton DEF IntOn
<1>2. ASSUME NEW x, IntOn(f, {x}) PROVE SumOver(f, {x}) = f[x]
  <2>1. f[x] \in Int /\ SumOver(f, {x}) = f[x] + SumOver(f, {x} \ {x})
    BY <1>2, SumOverMore
  <2>2. {x} \ {x} = {} /\ SumOver(f, {}) = 0
    BY SumOverNone
  <2>3. SumOver(f, {x} \ {x}) = 0
    BY <2>2
  <2> QED BY <2>1, <2>3
<1>3. PICK T : T = {a} \cup {b}
  OBVIOUS
<1>4. IntOn(f, T)
  BY <1>1, <1>3, FS_Union DEF IntOn
<1>5. SumOver(f, T) = SumOver(f, {a}) + SumOver(f, {b})
  <2>1. {a} \cap {b} = {}
    OBVIOUS
  <2> QED BY <1>1, <1>3, <2>1, SumJoin
<1>6. SumOver(f, T \cup {c}) = SumOver(f, T) + SumOver(f, {c})
  <2>1. T \cap {c} = {}
    BY <1>3
  <2> QED BY <1>1, <1>4, <2>1, SumJoin
<1>7. T \cup {c} = Three(a, b, c)
  BY <1>3 DEF Three
<1>8. SumOver(f, {a}) = f[a] /\ SumOver(f, {b}) = f[b] /\ SumOver(f, {c}) = f[c]
  BY <1>1, <1>2
<1> QED BY <1>5, <1>6, <1>7, <1>8

LEMMA DemandIs ==
    ASSUME BillInv, Complete, NEW h, h = Highest(account, Windows(Sound(account)))
    PROVE  /\ h \in Nat /\ PeakDemand(account) \in Nat
           /\ 6 * PeakDemand(account) <= 200 * h + 3 /\ 200 * h - 3 <= 6 * PeakDemand(account)
<1>1. h \in Nat
  BY HighestIs
<1>2. PICK n, p : n = 100 * h /\ p = HalfUp(n, 3)
  OBVIOUS
<1>3. n \in Int /\ n >= 0 /\ 3 \in Nat \ {0} /\ p = HalfUp(n, 3)
  BY <1>1, <1>2
<1>4. p \in Int /\ p >= 0 /\ 2 * (3 * p) <= 2 * n + 3 /\ 2 * n - 3 <= 2 * (3 * p)
  BY <1>3, HalfUpNear
<1>5. PeakDemand(account) = p
  BY <1>2 DEF PeakDemand
<1> QED BY <1>1, <1>2, <1>4, <1>5

\* With one source the demand is that of every quarter of an hour, and none above the highest.
LEMMA DemandHolds ==
    ASSUME BillInv, Complete, Cardinality(Sources(account)) = 1, NEW one \in SensorsOf(account)
    PROVE  DemandSeen(account, one)
<1>1. PICK x : /\ x[1] \in Nat /\ x[2] \in Nat
               /\ \A r \in AllReadings(account) : r[1] \in Billed(account) /\ r = <<r[1], x>>
               /\ \A t \in Billed(account) :
                    /\ <<t, x>> \in Sound(account) <=> Load(one, t) # {}
                    /\ <<t, x>> \in Sound(account) => KwIn[<<t, x>>] = Kw(Load(one, t))
  BY OneSource
<1>2. PICK S, W, h, p, B : /\ S = Sound(account) /\ W = Windows(S) /\ h = Highest(account, W)
                           /\ p = PeakDemand(account) /\ B = Billed(account)
  OBVIOUS
<1>3. /\ h \in Nat /\ (\A w \in W : SumOver(KwIn, w) <= h /\ w \subseteq S /\ Cardinality(w) = 3)
      /\ h = 0 \/ \E w \in W : h = SumOver(KwIn, w)
  BY <1>2, HighestIs
<1>4. p \in Nat /\ 6 * p <= 200 * h + 3 /\ 200 * h - 3 <= 6 * p
  BY <1>2, DemandIs
<1>5. IsFiniteSet(B) /\ B \subseteq Nat /\ \E n \in Int : B = 1..n
  <2>1. account \in Accounts
    BY DEF BillInv
  <2>2. EffectiveEnd(account) * DaySlots \in Int /\ IsFiniteSet(B) /\ B \subseteq Nat
    BY <1>2, <2>1, BilledWithin
  <2> QED BY <1>2, <2>2 DEF Billed
<1>6. IntOn(KwIn, S) /\ S \subseteq AllReadings(account) /\ (\A r \in S : r[1] \in B /\ r[1] \in Nat /\ r = <<r[1], x>>)
  <2>1. IntOn(KwIn, S) /\ S \subseteq AllReadings(account)
    BY <1>2, EnergyIs, SoundIs
  <2>2. \A r \in S : r[1] \in B /\ r = <<r[1], x>>
    BY <1>1, <1>2, <2>1
  <2> QED BY <1>5, <2>1, <2>2
<1>7. ASSUME NEW t \in B, t + 2 \in B, \A u \in t..(t + 2) : Load(one, u) # {}
      PROVE  3 * p + 2 >= 100 * (Kw(Load(one, t)) + Kw(Load(one, t + 1)) + Kw(Load(one, t + 2)))
  <2>1. t \in Nat /\ t + 1 \in B /\ t + 1 \in t..(t + 2) /\ t \in t..(t + 2) /\ t + 2 \in t..(t + 2)
    BY <1>5, <1>7
  <2>2. PICK a, b, c : a = <<t, x>> /\ b = <<t + 1, x>> /\ c = <<t + 2, x>>
    OBVIOUS
  <2>3. Load(one, t) # {} /\ Load(one, t + 1) # {} /\ Load(one, t + 2) # {}
    BY <1>7, <2>1
  <2>4. a \in S /\ b \in S /\ c \in S
    BY <1>1, <1>2, <1>7, <2>1, <2>2, <2>3
  <2>5. KwIn[a] = Kw(Load(one, t)) /\ KwIn[b] = Kw(Load(one, t + 1)) /\ KwIn[c] = Kw(Load(one, t + 2))
    BY <1>1, <1>2, <1>7, <2>1, <2>2, <2>4
  <2>6. IsFiniteSet(S) /\ KwIn[a] \in Int /\ KwIn[b] \in Int /\ KwIn[c] \in Int
    BY <1>6, <2>4 DEF IntOn
  <2>7. {a, b, c} \in W /\ a # b /\ a # c /\ b # c
    <3>1. \A r \in S : r[1] \in Nat /\ r = <<r[1], x>>
      BY <1>6
    <3>2. x[1] \in Nat /\ x[2] \in Nat
      BY <1>1
    <3>3. {a, b, c} \in Windows(S) /\ a # b /\ a # c /\ b # c
      <4>1. a[1] = t /\ b[1] = t + 1 /\ c[1] = t + 2
        BY <2>2
      <4> QED BY <2>1, <2>4, <2>6, <3>1, <3>2, <4>1, WindowOfThree
    <3> QED BY <1>2, <3>3
  <2>8. SumOver(KwIn, {a, b, c}) = KwIn[a] + KwIn[b] + KwIn[c]
    <3>1. PICK f : f = KwIn
      OBVIOUS
    <3>2. f[a] \in Int /\ f[b] \in Int /\ f[c] \in Int
      BY <2>6, <3>1
    <3>3. a # b /\ a # c /\ b # c
      BY <2>7
    <3>4. SumOver(f, Three(a, b, c)) = f[a] + f[b] + f[c]
      BY <3>2, <3>3, SumOfThree
    <3> QED BY <3>1, <3>4 DEF Three
  <2>9. KwIn[a] + KwIn[b] + KwIn[c] <= h
    BY <1>3, <2>7, <2>8
  <2>10. PICK y, z, w : y = KwIn[a] /\ z = KwIn[b] /\ w = KwIn[c]
    OBVIOUS
  <2>11. y \in Int /\ z \in Int /\ w \in Int /\ y + z + w <= h
    BY <2>6, <2>9, <2>10
  <2>12. 3 * p + 2 >= 100 * (y + z + w)
    BY <1>3, <1>4, <2>11
  <2> QED BY <2>5, <2>10, <2>12
<1>8. PICK V, T, g, m : /\ T = {Kw(Load(one, t)) : t \in B} /\ V = {0} \cup T
                        /\ g = [t \in B |-> Kw(Load(one, t))] /\ m = Max(V)
  OBVIOUS
<1>9. \A t \in B : Kw(Load(one, t)) \in Nat
  BY <1>1, <1>2, LoadIs
<1>10. IsFiniteSet(V) /\ V # {} /\ V \subseteq Int
  <2>1. g \in Surjection(B, T)
    BY <1>8 DEF Surjection
  <2>2. IsFiniteSet(T) /\ IsFiniteSet({0})
    BY <1>5, <2>1, FS_Surjection, FS_Singleton
  <2>3. IsFiniteSet({0} \cup T)
    BY <2>2, FS_Union
  <2>4. T \subseteq Int
    BY <1>8, <1>9
  <2> QED BY <1>8, <2>3, <2>4
<1>11. m \in Int /\ \A y \in V : y <= m
  BY <1>8, <1>10, MaxExists
<1>12. m >= 0 /\ \A t \in B : Kw(Load(one, t)) <= m
  BY <1>8, <1>11
<1>13. h <= 3 * m
  <2>1. CASE h = 0
    BY <1>11, <1>12, <2>1
  <2>2. ASSUME NEW w \in W, h = SumOver(KwIn, w) PROVE h <= 3 * m
    <3>1. w \subseteq S /\ Cardinality(w) = 3
      BY <1>3
    <3>2. IntOn(KwIn, w)
      BY <1>6, <3>1, FS_Subset DEF IntOn
    <3>3. \A r \in w : KwIn[r] <= m
      <4> SUFFICES ASSUME NEW r \in w PROVE KwIn[r] <= m
        OBVIOUS
      <4>1. PICK t : t = r[1]
        OBVIOUS
      <4>2. t \in B /\ r = <<t, x>> /\ r \in S
        BY <1>6, <3>1, <4>1
      <4>3. KwIn[r] = Kw(Load(one, t))
        BY <1>1, <1>2, <4>2
      <4> QED BY <1>12, <4>2, <4>3
    <3>4. SumOver(KwIn, w) <= m * Cardinality(w)
      BY <1>11, <3>2, <3>3, SumBounded
    <3> QED BY <1>11, <2>2, <3>1, <3>4
  <2> QED BY <1>3, <2>1, <2>2
<1>14. p <= 100 * m
  BY <1>3, <1>4, <1>11, <1>13
<1> QED BY <1>2, <1>7, <1>8, <1>14 DEF DemandSeen

\* A month of one source that is not put up for review has nearly all of its readings.
LEMMA ManualReviewHolds ==
    ASSUME BillInv, Complete, Cardinality(Sources(account)) = 1, NEW one \in SensorsOf(account)
    PROVE  GapsReviewed(account, one)
<1> SUFFICES ASSUME account.start <= 0, ~NeedsManualReview(account)
             PROVE  20000 * Cardinality({t \in Billed(account) : telemetry[one][t] = None})
                      <= 1001 * Cardinality(Billed(account))
  BY SMT DEF GapsReviewed
<1>0. account \in Accounts /\ account.start \in Int /\ DaySlots \in Nat
  BY MonthAssumption DEF BillInv
<1>1. PICK A, B, K : /\ A = AllReadings(account) /\ B = Billed(account)
                     /\ K = {t \in Billed(account) : telemetry[one][t] = None}
  OBVIOUS
<1>2. PICK x : /\ \A r \in A : r[1] \in B /\ r = <<r[1], x>>
               /\ \A t \in B : <<t, x>> \in A <=> telemetry[one][t] # None
  <2>1. PICK x : /\ \A r \in AllReadings(account) : r[1] \in Billed(account) /\ r = <<r[1], x>>
                 /\ \A t \in Billed(account) : <<t, x>> \in AllReadings(account) <=> telemetry[one][t] # None
    BY OneSource
  <2> QED BY <1>1, <2>1
<1>3. PICK H, g : H = B \ K /\ g = [t \in H |-> <<t, x>>]
  OBVIOUS
<1>4. g \in Surjection(H, A)
  <2>1. \A t \in H : <<t, x>> \in A
    BY <1>1, <1>2, <1>3
  <2>2. \A r \in A : r[1] \in H /\ r = <<r[1], x>>
    <3> SUFFICES ASSUME NEW r \in A PROVE r[1] \in H /\ r = <<r[1], x>>
      OBVIOUS
    <3>1. PICK t : t = r[1]
      OBVIOUS
    <3>2. t \in B /\ r = <<t, x>> /\ <<t, x>> \in A
      BY <1>2, <3>1
    <3> QED BY <1>1, <1>2, <1>3, <3>1, <3>2
  <2>3. \A r \in A : \E t \in H : g[t] = r
    BY <1>3, <2>2
  <2>4. g \in [H -> A]
    BY <1>3, <2>1
  <2> QED BY <2>3, <2>4 DEF Surjection
<1>5. IsFiniteSet(B) /\ K \subseteq B
  BY <1>0, <1>1, BilledWithin
<1>6. PICK n, k, h, a : n = Cardinality(B) /\ k = Cardinality(K) /\ h = Cardinality(H) /\ a = Cardinality(A)
  OBVIOUS
<1>7. IsFiniteSet(K) /\ IsFiniteSet(H) /\ h = n - k /\ n \in Nat /\ k \in Nat /\ h \in Nat
  <2>1. IsFiniteSet(K) /\ IsFiniteSet(H)
    BY <1>3, <1>5, FS_Subset
  <2>2. B \cap K = K
    BY <1>5
  <2>3. Cardinality(B \ K) = Cardinality(B) - Cardinality(B \cap K)
    BY <1>5, <2>1, FS_Difference
  <2> QED BY <1>3, <1>5, <1>6, <2>1, <2>2, <2>3, FS_CardinalityType
<1>8. a \in Nat /\ a <= h
  <2>1. IsFiniteSet(A) /\ Cardinality(A) <= Cardinality(H)
    BY <1>4, <1>7, FS_Surjection
  <2>2. Cardinality(A) \in Nat
    BY <2>1, FS_CardinalityType
  <2> QED BY <1>6, <2>1, <2>2
<1>9. PICK e, m : e = EffectiveEnd(account) * DaySlots /\ m = n - a
  OBVIOUS
<1>10. e \in Int /\ B = 1..e
  BY <1>0, <1>1, <1>9, BilledWithin DEF Billed
<1>11. BillableDays(account) * DaySlots = e
  <2>1. Max({0, account.start}) = 0
    <3>1. PICK s, S : s = account.start /\ S = {0, s}
      OBVIOUS
    <3>2. s \in Int /\ s <= 0 /\ S \subseteq Int /\ S # {} /\ 0 \in S
      BY <1>0, <3>1
    <3>3. IsFiniteSet(S)
      <4>1. IsFiniteSet({0}) /\ S = {0} \cup {s}
        BY <3>1, FS_Singleton
      <4> QED BY <4>1, FS_AddElement
    <3>4. Max(S) \in S /\ \A y \in S : y <= Max(S)
      BY <3>2, <3>3, MaxExists
    <3> QED BY <3>1, <3>2, <3>4
  <2>2. EffectiveStart(account) = 0
    BY <2>1 DEF EffectiveStart
  <2>3. EffectiveEnd(account) \in Int
    BY <1>0, EndWithin
  <2>4. BillableDays(account) = EffectiveEnd(account)
    BY <2>2, <2>3 DEF BillableDays
  <2> QED BY <1>9, <2>4
<1>12. CASE e <= 0
  <2>1. B = {} /\ K = {}
    BY <1>5, <1>10, <1>12
  <2>2. n = 0 /\ k = 0
    BY <1>6, <2>1, FS_EmptySet
  <2> QED BY <1>1, <1>6, <2>2, SMT
<1>13. CASE e > 0
  <2>1. n = e
    <3>1. 1 \in Int /\ e \in Int /\ ~ (1 > e) /\ e - 1 + 1 = e
      BY <1>10, <1>13
    <3> QED BY <1>6, <1>10, <3>1, FS_Interval
  <2>2. PICK N, q, i : N = 10000 /\ q = N * m /\ i = HalfUp(q, n)
    OBVIOUS
  <2>3. m \in Nat /\ k <= m /\ N \in Nat /\ q \in Int /\ q >= 0 /\ n \in Nat \ {0}
    <3>1. m \in Nat /\ k <= m /\ n \in Nat \ {0}
      BY <1>7, <1>8, <1>9, <1>10, <1>13, <2>1
    <3>2. N \in Nat
      BY <2>2, SMT
    <3>3. q = N * m
      BY <2>2
    <3> QED BY <3>1, <3>2, <3>3
  <2>4. i = HalfUp(q, n)
    BY <2>2
  <2>5. i \in Int /\ 2 * q < 2 * (n * i) + n
    BY <2>3, <2>4, HalfUpNear
  <2>6. i <= 500
    <3>1. AtLeastZero(e - Cardinality(AllReadings(account))) = m
      BY <1>1, <1>6, <1>9, <2>1, <2>3 DEF AtLeastZero
    <3>2. ~ (e > 0 /\ HalfUp(10000 * m, e) > 500)
      BY <1>11, <3>1, SMT DEF NeedsManualReview
    <3>3. HalfUp(10000 * m, e) = i
      BY <2>1, <2>2
    <3> QED BY <1>13, <2>5, <3>2, <3>3
  <2>7. n * i <= n * 500
    <3>1. 500 \in Int /\ n \in Nat
      BY <2>3
    <3> QED BY <2>5, <2>6, <3>1, TimesGrows
  <2>8. PICK y : y = n * i
    OBVIOUS
  <2>9. y \in Int /\ y <= 500 * n /\ 2 * q < 2 * y + n
    BY <2>3, <2>5, <2>7, <2>8
  <2>10. 2 * q < 1001 * n
    BY <2>3, <2>9
  <2>11. 2 * q = 20000 * m
    BY <2>2, <2>3, SMT
  <2>12. 20000 * k <= 1001 * n
    BY <1>7, <2>3, <2>10, <2>11, SMT
  <2> QED BY <1>1, <1>6, <2>12, SMT
<1> QED BY <1>10, <1>12, <1>13

(* The invoice.                                                            *)

LEMMA Rounded == ASSUME NEW n \in Nat, NEW d \in Nat \ {0} PROVE HalfUp(n, d) \in Nat
<1>1. PICK h : h = HalfUp(n, d)
  OBVIOUS
<1>2. n \in Int /\ n >= 0
  OBVIOUS
<1>3. h \in Int /\ h >= 0
  BY <1>1, <1>2, HalfUpNear
<1> QED BY <1>1, <1>3

LEMMA RateIs == ASSUME NEW c \in Accounts, NEW type, HasRate(c, type) PROVE RateOf(c, type) \in Nat
<1>1. \A r \in c.rates : r.value \in Nat
  BY MonthAssumption
<1>2. PICK G : G = GetRate(c, type, 0)
  OBVIOUS
<1>3. G \subseteq Nat
  BY <1>1, <1>2 DEF GetRate, None
<1>4. G # {}
  BY <1>2 DEF HasRate, None
<1>5. RateOf(c, type) = CHOOSE v \in G : TRUE
  BY <1>2 DEF RateOf
<1> QED BY <1>3, <1>4, <1>5

LEMMA CommittedIs == ASSUME NEW c \in Accounts PROVE CommittedKw(c) \in Nat
<1>1. \A i \in DOMAIN c.racks : c.racks[i].kw \in Nat
  BY MonthAssumption
<1>2. PICK f, D : D = DOMAIN c.racks /\ f = [i \in D |-> c.racks[i].kw]
  OBVIOUS
<1>3. f \in [D -> Nat]
  BY <1>1, <1>2
<1>4. IsFiniteSet(D)
  <2>1. 1 \in Int /\ Len(c.racks) \in Int /\ D = 1..Len(c.racks)
    BY <1>2, SourcesAre
  <2> QED BY <2>1, FS_Interval
<1>5. SumFunction(f) \in Nat
  BY <1>3, <1>4, SumOfNaturals
<1> QED BY <1>2, <1>5 DEF CommittedKw

\* A fee split at any day is the whole fee, up to a cent.
LEMMA FeeSplits ==
    ASSUME NEW c \in Accounts, HasRate(c, "COLO_PER_KW")
    PROVE  FeeOfParts(c)
<1> SUFFICES ASSUME NEW d \in 0..DaysInMonth
             PROVE  ColoFee(c, d) + ColoFee(c, DaysInMonth - d) - ColoFee(c, DaysInMonth) \in -1..1
  BY DEF FeeOfParts
<1>1. PICK w, n, e : w = CommittedKw(c) * RateOf(c, "COLO_PER_KW") /\ n = DaysInMonth /\ e = DaysInMonth - d
  OBVIOUS
<1>2. w \in Nat /\ n \in Nat \ {0} /\ d \in Nat /\ e \in Nat /\ d + e = n
  <2>1. CommittedKw(c) \in Nat /\ RateOf(c, "COLO_PER_KW") \in Nat
    BY CommittedIs, RateIs
  <2>2. n \in Nat \ {0}
    BY <1>1, MonthAssumption
  <2> QED BY <1>1, <2>1, <2>2
<1>3. PICK i, j, k : i = HalfUp(w * d, n) /\ j = HalfUp(w * e, n) /\ k = HalfUp(w * n, n)
  OBVIOUS
<1>4. PICK p, q, r : p = w * d /\ q = w * e /\ r = w * n
  OBVIOUS
<1>5. p \in Int /\ q \in Int /\ r \in Int /\ p + q = r
  <2>1. w * (d + e) = w * d + w * e
    BY <1>2
  <2> QED BY <1>2, <1>4, <2>1
<1>6. i \in Int /\ 2 * (n * i) <= 2 * p + n /\ 2 * p - n <= 2 * (n * i)
  <2>1. i = HalfUp(p, n)
    BY <1>3, <1>4
  <2> QED BY <1>2, <1>5, <2>1, HalfUpNear
<1>7. j \in Int /\ 2 * (n * j) <= 2 * q + n /\ 2 * q - n <= 2 * (n * j)
  <2>1. j = HalfUp(q, n)
    BY <1>3, <1>4
  <2> QED BY <1>2, <1>5, <2>1, HalfUpNear
<1>8. k \in Int /\ 2 * (n * k) <= 2 * r + n /\ 2 * r - n <= 2 * (n * k)
  <2>1. k = HalfUp(r, n)
    BY <1>3, <1>4
  <2> QED BY <1>2, <1>5, <2>1, HalfUpNear
<1>9. k = w
  <2>1. PICK y : y = n * k
    OBVIOUS
  <2>2. y \in Int /\ r = n * w /\ 2 * y <= 2 * r + n /\ 2 * r - n <= 2 * y
    BY <1>2, <1>4, <1>8, <2>1
  <2>3. n * k < n * w + n
    BY <1>2, <1>5, <2>1, <2>2
  <2>4. n * w < n * k + n
    BY <1>2, <1>5, <2>1, <2>2
  <2>5. k <= w
    BY <1>2, <1>8, <2>3, TimesOrder
  <2>6. w <= k
    BY <1>2, <1>8, <2>4, TimesOrder
  <2> QED BY <1>2, <1>8, <2>5, <2>6
<1>10. PICK y, z : y = n * i /\ z = n * j
  OBVIOUS
<1>11. y \in Int /\ z \in Int /\ y + z <= r + n /\ r - n <= y + z
  BY <1>2, <1>5, <1>6, <1>7, <1>10
<1>12. n * (i + j) = y + z /\ n * (w + 1) = r + n /\ n * (w - 1) = r - n
  BY <1>2, <1>4, <1>6, <1>7, <1>10
<1>13. i + j <= w + 1
  <2>1. n * (i + j) < n * (w + 1) + n
    BY <1>2, <1>5, <1>11, <1>12
  <2>2. i + j \in Int /\ w + 1 \in Int
    BY <1>2, <1>6, <1>7
  <2> QED BY <1>2, <2>1, <2>2, TimesOrder
<1>14. w - 1 <= i + j
  <2>1. n * (w - 1) < n * (i + j) + n
    BY <1>2, <1>5, <1>11, <1>12
  <2>2. i + j \in Int /\ w - 1 \in Int
    BY <1>2, <1>6, <1>7
  <2> QED BY <1>2, <2>1, <2>2, TimesOrder
<1>15. ColoFee(c, d) = i /\ ColoFee(c, e) = j /\ ColoFee(c, n) = k
  BY <1>1, <1>3 DEF ColoFee, Cents
<1> QED BY <1>1, <1>2, <1>6, <1>7, <1>9, <1>13, <1>14, <1>15

\* What each line of an invoice without adjustments amounts to.
LEMMA LinesAre ==
    ASSUME NEW c \in Accounts, Billable(c), c.adjustments = <<>>, Energy(c) \in Nat, PeakDemand(c) \in Nat,
           BillableDays(c) = DaysInMonth,
           NEW fee, fee = [type |-> "COLO_FEE", number |-> 1, amount |-> ColoFee(c, DaysInMonth)],
           NEW cut, cut = [type |-> "SLA_CREDIT", number |-> 1, amount |-> -c.credit]
    PROVE  /\ IsFiniteSet(InvoiceLines(c)) /\ fee \in InvoiceLines(c) /\ fee.amount \in Nat
           /\ \A l \in InvoiceLines(c) : l.amount \in Nat \/ (l = cut /\ c.credit > 0)
<1>1. PICK e, p, s : e = Energy(c) /\ p = PeakDemand(c) /\ s = RateOf(c, "COLO_PER_KW")
  OBVIOUS
<1>2. PICK q : q = RateOf(c, "POWER_PER_KWH")
  OBVIOUS
<1>3. e \in Nat /\ p \in Nat /\ s \in Nat /\ q \in Nat /\ CommittedKw(c) \in Nat /\ DaysInMonth \in Nat \ {0}
  <2>1. HasRate(c, "COLO_PER_KW") /\ HasRate(c, "POWER_PER_KWH")
    BY DEF Billable
  <2> QED BY <1>1, <1>2, <2>1, RateIs, CommittedIs, MonthAssumption
<1>4. fee.amount \in Nat
  <2>1. PICK w : w = CommittedKw(c) * s * DaysInMonth
    OBVIOUS
  <2>2. w \in Nat
    BY <1>3, <2>1
  <2>3. HalfUp(w, DaysInMonth) \in Nat
    BY <1>3, <2>2, Rounded
  <2>4. ColoFee(c, DaysInMonth) = HalfUp(w, DaysInMonth)
    BY <1>1, <2>1 DEF ColoFee, Cents
  <2> QED BY <2>3, <2>4
<1>5. Cents(Energy(c) * RateOf(c, "POWER_PER_KWH"), 10000) \in Nat
  <2>1. PICK D, w : D = 10000 /\ w = e * q
    OBVIOUS
  <2>2. D \in Nat \ {0}
    BY <2>1, SMT
  <2>3. w \in Nat
    BY <1>3, <2>1, SMT
  <2>4. HalfUp(w, D) \in Nat
    BY <2>2, <2>3, Rounded
  <2> QED BY <1>1, <1>2, <2>1, <2>4, SMT DEF Cents
<1>6. Cents(Energy(c) * (Last(c.racks).pue - 100) * CoolingRate(c), 1000000) \in Nat
  <2>1. Last(c.racks).pue \in Nat /\ Last(c.racks).pue >= 100
    <3>1. /\ Len(c.racks) \in Nat /\ DOMAIN c.racks = 1..Len(c.racks) /\ c.racks # <<>>
          /\ c.racks \in Seq(Range(c.racks))
      BY SourcesAre DEF Billable
    <3>2. Len(c.racks) \in DOMAIN c.racks /\ Last(c.racks) = c.racks[Len(c.racks)]
      BY <3>1 DEF Last
    <3> QED BY <3>2, MonthAssumption
  <2>2. CoolingRate(c) \in Nat
    BY <1>2, <1>3, RateIs DEF CoolingRate
  <2>3. PICK u, r, w : u = Last(c.racks).pue - 100 /\ r = CoolingRate(c) /\ w = e * u * r
    OBVIOUS
  <2>4. w \in Nat
    <3>1. u \in Nat /\ r \in Nat
      BY <2>1, <2>2, <2>3
    <3>2. e * u \in Nat
      BY <1>3, <3>1
    <3>3. e * u * r \in Nat
      BY <3>1, <3>2
    <3> QED BY <2>3, <3>3
  <2>5. PICK D : D = 1000000
    OBVIOUS
  <2>6. D \in Nat \ {0}
    BY <2>5, SMT
  <2>7. HalfUp(w, D) \in Nat
    BY <2>4, <2>6, Rounded
  <2> QED BY <1>1, <2>3, <2>5, <2>7, SMT DEF Cents
<1>7. DemandCost(c) > 0 => DemandCost(c) \in Nat
  <2>1. CASE HasRate(c, "DEMAND_CHARGE")
    <3>1. PICK w, r : r = RateOf(c, "DEMAND_CHARGE") /\ w = p * r
      OBVIOUS
    <3>2. r \in Nat
      BY <2>1, <3>1, RateIs
    <3>3. w \in Nat /\ 100 \in Nat \ {0}
      BY <1>3, <3>1, <3>2
    <3>4. HalfUp(w, 100) \in Nat
      BY <3>3, Rounded
    <3> QED BY <1>1, <2>1, <3>1, <3>4 DEF DemandCost, Cents
  <2>2. CASE ~HasRate(c, "DEMAND_CHARGE")
    BY <2>2 DEF DemandCost
  <2> QED BY <2>1, <2>2
<1>8. HasRate(c, "CROSS_CONNECT") /\ c.crossConnects > 0 => c.crossConnects * RateOf(c, "CROSS_CONNECT") \in Nat
  <2> SUFFICES ASSUME HasRate(c, "CROSS_CONNECT"), c.crossConnects > 0
               PROVE  c.crossConnects * RateOf(c, "CROSS_CONNECT") \in Nat
    OBVIOUS
  <2>1. RateOf(c, "CROSS_CONNECT") \in Nat
    BY RateIs
  <2>2. c.crossConnects \in Int
    BY MonthAssumption
  <2> QED BY <2>1, <2>2
<1> DEFINE Power   == Cents(Energy(c) * RateOf(c, "POWER_PER_KWH"), 10000)
           Cooling == Cents(Energy(c) * (Last(c.racks).pue - 100) * CoolingRate(c), 1000000)
<1>9. PICK k, o : k = Power /\ o = Cooling
  <2> HIDE DEF Power, Cooling
  <2> QED OBVIOUS
<1>20. PICK l2, l3, l4, l5 :
        /\ l2 = [type |-> "METERED_POWER", number |-> 1, amount |-> k]
        /\ l3 = [type |-> "DEMAND_CHARGE", number |-> 1, amount |-> DemandCost(c)]
        /\ l4 = [type |-> "COOLING_OVERHEAD", number |-> 1, amount |-> o]
        /\ l5 = [type |-> "CROSS_CONNECT", number |-> 1, amount |-> c.crossConnects * RateOf(c, "CROSS_CONNECT")]
  OBVIOUS
<1>10. PICK M, X, C : M = MeteredLines(c) /\ X = CrossConnects(c) /\ C = SlaCredit(c)
  OBVIOUS
<1>11. M = ({fee} \cup {l2}) \cup (IF DemandCost(c) > 0 THEN {l3} ELSE {}) \cup {l4}
  BY <1>9, <1>10, <1>20, SMT DEF MeteredLines, Line
<1>12. X = {} \/ (X = {l5} /\ HasRate(c, "CROSS_CONNECT") /\ c.crossConnects > 0)
  BY <1>9, <1>10, <1>20, SMT DEF CrossConnects, Line
<1>13. C = {} \/ (C = {cut} /\ c.credit > 0)
  BY <1>10 DEF SlaCredit, Line
<1>14. InvoiceLines(c) = M \cup X \cup C
  <2>1. Adjustments(c) = {}
    BY DEF Adjustments
  <2> QED BY <1>10, <2>1 DEF InvoiceLines
<1>15. l2.amount \in Nat /\ l4.amount \in Nat
  BY <1>5, <1>6, <1>9, <1>20, SMT
<1>16. (DemandCost(c) > 0 => l3.amount \in Nat) /\ (X = {l5} /\ HasRate(c, "CROSS_CONNECT") /\ c.crossConnects > 0 => l5.amount \in Nat)
  BY <1>7, <1>8, <1>20
<1>17. IsFiniteSet(InvoiceLines(c))
  <2>1. \A y : IsFiniteSet({y})
    BY FS_Singleton
  <2>2. IsFiniteSet({})
    BY FS_EmptySet
  <2>3. IsFiniteSet({fee} \cup {l2})
    BY <2>1, FS_Union
  <2>4. PICK T : T = IF DemandCost(c) > 0 THEN {l3} ELSE {}
    OBVIOUS
  <2>5. IsFiniteSet(T)
    BY <2>1, <2>2, <2>4
  <2>6. IsFiniteSet(({fee} \cup {l2}) \cup T)
    BY <2>3, <2>5, FS_Union
  <2>7. IsFiniteSet((({fee} \cup {l2}) \cup T) \cup {l4})
    BY <2>1, <2>6, FS_Union
  <2>8. IsFiniteSet(M) /\ IsFiniteSet(X) /\ IsFiniteSet(C)
    BY <1>11, <1>12, <1>13, <2>1, <2>2, <2>4, <2>7
  <2>9. IsFiniteSet(M \cup X)
    BY <2>8, FS_Union
  <2> QED BY <1>14, <2>8, <2>9, FS_Union
<1>18. \A l \in InvoiceLines(c) : l.amount \in Nat \/ (l = cut /\ c.credit > 0)
  <2> SUFFICES ASSUME NEW l \in M \cup X \cup C PROVE l.amount \in Nat \/ (l = cut /\ c.credit > 0)
    BY <1>14
  <2>1. CASE l \in M
    <3>1. l = fee \/ l = l2 \/ (l = l3 /\ DemandCost(c) > 0) \/ l = l4
      BY <1>11, <2>1
    <3> QED BY <1>4, <1>15, <1>16, <3>1
  <2>2. CASE l \in X
    BY <1>12, <1>16, <2>2
  <2>3. CASE l \in C
    BY <1>13, <2>3
  <2> QED BY <2>1, <2>2, <2>3
<1>19. fee \in InvoiceLines(c)
  BY <1>11, <1>14
<1> QED BY <1>4, <1>17, <1>18, <1>19

\* A sum with one negative term stays natural when a term of it makes up for that one.
LEMMA SumCovered ==
    ASSUME NEW f, NEW L, NEW fee \in L, NEW cut, NEW v \in Int, IntOn(f, L), fee # cut,
           f[fee] \in Nat, 2 * v <= f[fee] + 1,
           \A l \in L : f[l] \in Nat \/ (l = cut /\ v > 0 /\ f[l] = -v)
    PROVE  SumOver(f, L) \in Nat
<1>1. CASE \A l \in L : f[l] \in Nat
  <2>1. \A l \in L : f[l] >= 0
    BY <1>1
  <2> QED BY <2>1, SumAtLeastZero
<1>2. ASSUME NEW l \in L, f[l] \notin Nat PROVE SumOver(f, L) \in Nat
  <2>1. l = cut /\ v > 0 /\ f[cut] = -v /\ cut \in L
    BY <1>2
  <2>2. PICK E, G : E = L \ {fee} /\ G = E \ {cut}
    OBVIOUS
  <2>3. SumOver(f, E) \in Int /\ SumOver(f, L) = f[fee] + SumOver(f, E)
    BY <2>2, SumOverMore
  <2>4. IntOn(f, E) /\ cut \in E
    BY <2>1, <2>2, FS_Subset DEF IntOn
  <2>5. SumOver(f, G) \in Int /\ SumOver(f, E) = f[cut] + SumOver(f, G)
    BY <2>2, <2>4, SumOverMore
  <2>6. IntOn(f, G) /\ \A y \in G : f[y] >= 0
    <3>1. G \subseteq E /\ \A y \in G : y \in L /\ y # cut
      BY <2>2
    <3>2. \A y \in G : f[y] \in Nat
      BY <3>1
    <3>3. IsFiniteSet(G)
      BY <2>4, <3>1, FS_Subset DEF IntOn
    <3> QED BY <3>2, <3>3 DEF IntOn
  <2>7. SumOver(f, G) \in Nat
    BY <2>6, SumAtLeastZero
  <2>8. PICK a, s, y, z : a = f[fee] /\ s = SumOver(f, L) /\ y = SumOver(f, E) /\ z = SumOver(f, G)
    OBVIOUS
  <2>9. a \in Nat /\ z \in Nat /\ y = -v + z /\ s = a + y /\ 2 * v <= a + 1 /\ v > 0
    BY <2>1, <2>3, <2>5, <2>7, <2>8
  <2> QED BY <2>8, <2>9
<1> QED BY <1>1, <1>2

\* The credit is less than the fee, and nothing else is negative.
LEMMA NotNegative ==
    ASSUME NEW c \in Accounts, Billable(c), Energy(c) \in Nat, PeakDemand(c) \in Nat
    PROVE  CreditCovered(c)
<1> SUFFICES ASSUME c.adjustments = <<>>, BillableDays(c) = DaysInMonth, 2 * c.credit <= ColoFee(c, DaysInMonth) + 1
             PROVE  Subtotal(InvoiceLines(c)) + Tax(c, InvoiceLines(c)) >= 0
  BY DEF CreditCovered
<1>1. PICK L, fee, cut : /\ L = InvoiceLines(c)
                         /\ fee = [type |-> "COLO_FEE", number |-> 1, amount |-> ColoFee(c, DaysInMonth)]
                         /\ cut = [type |-> "SLA_CREDIT", number |-> 1, amount |-> -c.credit]
  OBVIOUS
<1>2. /\ IsFiniteSet(L) /\ fee \in L /\ fee.amount \in Nat
      /\ \A l \in L : l.amount \in Nat \/ (l = cut /\ c.credit > 0)
  BY <1>1, LinesAre
<1>3. PICK f, v : f = [l \in L |-> l.amount] /\ v = c.credit
  OBVIOUS
<1>4. v \in Int /\ cut.amount = -v /\ fee # cut /\ 2 * v <= fee.amount + 1
  <2>1. c.credit \in Int
    BY MonthAssumption
  <2>2. fee.type # cut.type
    BY <1>1
  <2> QED BY <1>1, <1>3, <2>1, <2>2
<1>5. /\ IntOn(f, L) /\ f[fee] = fee.amount
      /\ \A l \in L : f[l] \in Nat \/ (l = cut /\ v > 0 /\ f[l] = -v)
  <2>1. \A l \in L : f[l] = l.amount
    BY <1>3
  <2>2. \A l \in L : f[l] \in Nat \/ (l = cut /\ v > 0 /\ f[l] = -v)
    <3> SUFFICES ASSUME NEW l \in L PROVE f[l] \in Nat \/ (l = cut /\ v > 0 /\ f[l] = -v)
      OBVIOUS
    <3>1. CASE l.amount \in Nat
      BY <2>1, <3>1
    <3>2. CASE l = cut /\ c.credit > 0
      <4>1. f[l] = l.amount
        BY <2>1
      <4>2. l.amount = cut.amount
        BY <3>2
      <4> QED BY <1>3, <1>4, <3>2, <4>1, <4>2
    <3> QED BY <1>2, <3>1, <3>2
  <2>3. \A l \in L : f[l] \in Int
    BY <1>4, <2>2
  <2> QED BY <1>2, <2>1, <2>2, <2>3 DEF IntOn
<1>6. SumOver(f, L) \in Nat
  <2>1. f[fee] \in Nat /\ 2 * v <= f[fee] + 1
    BY <1>2, <1>4, <1>5
  <2> QED BY <1>2, <1>4, <1>5, <2>1, SumCovered
<1>7. Subtotal(L) = SumOver(f, L)
  <2>1. f = [l \in L |-> f[l]]
    BY <1>3
  <2>2. SumFunction(f) = SumOver(f, L)
    BY <2>1, SumIsOver
  <2> QED BY <1>3, <2>2 DEF Subtotal
<1>8. Tax(c, L) \in Nat
  <2>1. PICK w : w = Subtotal(L) * c.taxPct
    OBVIOUS
  <2>2. c.taxPct \in Nat
    BY MonthAssumption
  <2>3. w \in Nat /\ 100 \in Nat \ {0}
    BY <1>6, <1>7, <2>1, <2>2
  <2>4. HalfUp(w, 100) \in Nat
    BY <2>3, Rounded
  <2> QED BY <2>1, <2>4 DEF Tax
<1> QED BY <1>1, <1>6, <1>7, <1>8

\* What came in is billed once where no two racks share a meter; with one meter the demand is
\* that of every quarter of an hour and no reading is below it, and a month that misses more
\* than a twentieth is put up for review; a fee may be split at any day; an SLA credit makes
\* no invoice negative (KWhCalculator.calculate, InvoiceGenerator.generate_invoice).
THEOREM BillIsAsMetered == BillSpec => []BillAsMetered
<1>1. BillInv => BillAsMetered
  <2> SUFFICES ASSUME BillInv, Complete, Billable(account)
               PROVE  /\ EnergyOnce(account)
                      /\ Cardinality(Sources(account)) = 1 =>
                            \A s \in SensorsOf(account) : DemandSeen(account, s) /\ GapsReviewed(account, s)
                      /\ FeeOfParts(account)
                      /\ CreditCovered(account)
    BY DEF BillAsMetered
  <2>1. account \in Accounts /\ HasRate(account, "COLO_PER_KW")
    BY DEF BillInv, Billable
  <2>2. /\ Energy(account) = HalfUp(10000 * SumOver(KwIn, Sound(account)), 12)
        /\ SumOver(KwIn, Sound(account)) \in Nat
    BY EnergyIs
  <2>3. Energy(account) \in Nat /\ PeakDemand(account) \in Nat
    <3>1. PICK s, w : s = SumOver(KwIn, Sound(account)) /\ w = 10000 * s
      OBVIOUS
    <3>2. w \in Nat
      BY <2>2, <3>1, SMT
    <3>3. 12 \in Nat \ {0}
      OBVIOUS
    <3>4. HalfUp(w, 12) \in Nat
      BY <3>2, <3>3, Rounded
    <3>5. Energy(account) = HalfUp(w, 12)
      BY <2>2, <3>1, SMT
    <3> QED BY <3>4, <3>5, DemandIs
  <2>4. EnergyOnce(account)
    <3> SUFFICES ASSUME \A x, y \in Sources(account) : SensorOf(account, x) = SensorOf(account, y) => x = y
                 PROVE  Energy(account) = HalfUp(10000 * SumFunction(
                           [x \in SensorsOf(account) \X Billed(account) |-> Kw(Load(x[1], x[2]))]), 12)
      BY SMT DEF EnergyOnce
    <3>1. SumOver(KwIn, Sound(account))
            = SumFunction([x \in SensorsOf(account) \X Billed(account) |-> Kw(Load(x[1], x[2]))])
      BY BilledOnce
    <3> QED BY <2>2, <3>1, SMT
  <2>5. ASSUME NEW s \in SensorsOf(account), Cardinality(Sources(account)) = 1
        PROVE  DemandSeen(account, s) /\ GapsReviewed(account, s)
    BY <2>5, DemandHolds, ManualReviewHolds
  <2>6. FeeOfParts(account)
    BY <2>1, FeeSplits
  <2>7. CreditCovered(account)
    BY <2>1, <2>3, NotNegative
  <2> QED BY <2>4, <2>5, <2>6, <2>7
<1> QED BY <1>1, BillInvariant, PTL

=============================================================================
