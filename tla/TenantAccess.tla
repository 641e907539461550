----------------------------- MODULE TenantAccess -----------------------------
(***************************************************************************)
(* How tenants of the platform are let in (platform/api/auth.py): an API   *)
(* key is exchanged for an access and a refresh token, the access token    *)
(* carries what was known of the tenant when it was made, and every        *)
(* request, the one that refreshes a token included, has to pass the       *)
(* middleware and its sliding-window rate limiter first.  Time is scaled:  *)
(* the lifetimes and the window are constants.                             *)
(***************************************************************************)
EXTENDS Integers, FiniteSets

CONSTANTS
    Tenants, Roles, Limits,
    Window,         \* 60 seconds
    CleanupAfter,   \* 30 seconds
    Expiry,         \* JWT_EXPIRY_MINUTES
    RefreshExpiry,  \* JWT_REFRESH_EXPIRY_HOURS
    MaxTime,        \* bound: time
    MaxTokens,      \* bound: access tokens
    MaxRequests,    \* bound: requests let in
    MaxChanges      \* bound: changes of tenants

ASSUME AccessAssumption ==
    /\ Limits \subseteq Nat /\ Window \in Nat \ {0} /\ CleanupAfter \in Nat
    /\ Expiry \in Nat /\ RefreshExpiry \in Nat

VARIABLES
    time,
    tenants,     \* table tenants
    tokens,      \* access tokens issued
    refreshers,  \* refresh tokens issued
    recent,      \* RateLimiter._windows: each tenant's requests, told apart by their ids
                 \* because several may be of one time; no use is made of their order
    lastCleanup, \* RateLimiter._last_cleanup
    refreshing,  \* requests to refresh that were let in and are not answered
    admitted,    \* every request let in: tenant, quota and time
    changed      \* when a tenant was changed: tenant and time

clientVars == <<tokens, refreshers, refreshing>>
limitVars  == <<recent, lastCleanup, admitted>>
accessVars == <<time, tenants, clientVars, limitVars, changed>>

Rows == [active : BOOLEAN, role : Roles, limit : Limits]

-----------------------------------------------------------------------------
(* Tokens.                                                                 *)

AccessToken(t) == [tenant |-> t, role |-> tenants[t].role, limit |-> tenants[t].limit,
                   exp |-> time + Expiry]
RefreshToken(t) == [tenant |-> t, exp |-> time + RefreshExpiry]

\* decode_token: an expired token is refused.
Decodes(k) == time < k.exp

Issue(k) == Cardinality(tokens) < MaxTokens /\ tokens' = tokens \cup {k}

\* POST /auth/token, for the key of an active tenant.
ExchangeToken(t) ==
    /\ tenants[t].active
    /\ Issue(AccessToken(t))
    /\ refreshers' = refreshers \cup {RefreshToken(t)}
    /\ UNCHANGED <<time, tenants, refreshing, limitVars, changed>>

\* Mutant: what the refresh token's tenant was told before is told again.
RefreshClaims(r) ==
    /\ r \in refreshing
    /\ refreshing' = refreshing \ {r}
    /\ \E k \in tokens : k.tenant = r.tenant /\ Issue([k EXCEPT !.exp = time + Expiry])
    /\ UNCHANGED <<time, tenants, refreshers, limitVars, changed>>

\* POST /auth/refresh: the tenant is read again.
RefreshToAccess(r) ==
    /\ r \in refreshing
    /\ refreshing' = refreshing \ {r}
    /\ IF Decodes(r) /\ tenants[r.tenant].active
       THEN Issue(AccessToken(r.tenant)) ELSE UNCHANGED tokens
    /\ UNCHANGED <<time, tenants, refreshers, limitVars, changed>>

-----------------------------------------------------------------------------
(* The rate limiter and the middleware.                                    *)

CleanupDue == time - lastCleanup > CleanupAfter
Pruned(q)  == {a \in q : a.at > time - Window}
\* Mutant: a cleanup starts the window anew.
RecentSinceCleanup(t) == IF CleanupDue THEN {} ELSE Pruned(recent[t])
Recent(t)  == Pruned(recent[t])

\* RateLimiter.check; the cleanup prunes the other tenants' windows as well.
Count(t, q) ==
    /\ recent' = [s \in Tenants |-> IF s = t THEN q ELSE IF CleanupDue THEN Recent(s) ELSE recent[s]]
    /\ lastCleanup' = IF CleanupDue THEN time ELSE lastCleanup

Request(k) == [id |-> Cardinality(admitted), tenant |-> k.tenant, limit |-> k.limit, at |-> time]

\* A request with a valid access token, within the quota the token says.
Admit(k) ==
    /\ Decodes(k) /\ Cardinality(admitted) < MaxRequests
    /\ Cardinality(Recent(k.tenant)) < k.limit
    /\ Count(k.tenant, Recent(k.tenant) \cup {Request(k)})
    /\ admitted' = admitted \cup {Request(k)}
    /\ UNCHANGED <<time, tenants, tokens, refreshers, changed>>

Read(k)       == Admit(k) /\ UNCHANGED refreshing
\* /auth/refresh is not among the public paths.
AskRefresh(k, r) == Admit(k) /\ refreshing' = refreshing \cup {r}

\* 429.
Refuse(k) ==
    /\ Decodes(k) /\ Cardinality(Recent(k.tenant)) >= k.limit
    /\ Count(k.tenant, Recent(k.tenant))
    /\ UNCHANGED <<time, tenants, clientVars, admitted, changed>>

-----------------------------------------------------------------------------
(* The administration, and time.                                           *)

ChangeTenant(t) ==
    /\ Cardinality(changed) < MaxChanges
    /\ \E row \in Rows \ {tenants[t]} : tenants' = [tenants EXCEPT ![t] = row]
    /\ changed' = changed \cup {<<t, time>>}
    /\ UNCHANGED <<time, clientVars, limitVars>>

AccessTick ==
    /\ time < MaxTime /\ time' = time + 1
    /\ UNCHANGED <<tenants, clientVars, limitVars, changed>>

AccessInit ==
    /\ time = 0 /\ lastCleanup = 0
    /\ tenants \in [Tenants -> {row \in Rows : row.active}]
    /\ tokens = {} /\ refreshers = {} /\ refreshing = {}
    /\ recent = [t \in Tenants |-> {}] /\ admitted = {} /\ changed = {}

AccessNext ==
    \/ \E t \in Tenants : ExchangeToken(t) \/ ChangeTenant(t)
    \/ \E k \in tokens : Read(k) \/ Refuse(k)
    \/ \E k \in tokens, r \in refreshers : AskRefresh(k, r)
    \/ \E r \in refreshing : RefreshToAccess(r)
    \/ AccessTick

AccessSpec == AccessInit /\ [][AccessNext]_accessVars

-----------------------------------------------------------------------------

InWindow(t, at) == {a \in admitted : a.tenant = t /\ a.at > at - Window /\ a.at <= at}

\* No request is let in beyond the quota of the minute before it, and what the limiter
\* remembers of a tenant's last minute is every request that was let in, so that none is
\* refused within the quota: pruning and the cleanup lose nothing that still counts.
QuotaKept ==
    /\ \A a \in admitted :
         Cardinality({b \in InWindow(a.tenant, a.at) : b.id <= a.id}) <= a.limit
    /\ \A t \in Tenants : Cardinality(Recent(t)) = Cardinality(InWindow(t, time))

\* A tenant that was changed or deactivated is known as it was before for no longer than
\* an access token lives, although tokens are never revoked and a refresh token outlives
\* the access tokens ("issued with the latest tenant data from the database").
ChangesReachTokens ==
    \A k \in tokens :
        Decodes(k) =>
            \/ LET row == tenants[k.tenant]
               IN  row.active /\ row.role = k.role /\ row.limit = k.limit
            \/ \E at \in 0..time : at > time - Expiry /\ <<k.tenant, at>> \in changed

=============================================================================
