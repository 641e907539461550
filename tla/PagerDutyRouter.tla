--------------------------- MODULE PagerDutyRouter ---------------------------
(***************************************************************************)
(* The PagerDuty router (business/pagerduty_integration.py): a polling     *)
(* loop that compares the alarms the REST API lists as ACTIVE with those   *)
(* it tracks, triggers an incident for each new one and resolves those     *)
(* that are gone; process_alarm called directly by a webhook; and the      *)
(* weekly digest of P3 alarms.  The three run in one event loop and give   *)
(* way only while they wait for PagerDuty or for the API.                  *)
(*                                                                         *)
(* An event is sent with retries.  An attempt may reach PagerDuty or not,  *)
(* and its answer may get lost; an error httpx reports as neither a        *)
(* connection error nor a time-out leaves send_event as it is.             *)
(*                                                                         *)
(* What the router reads is a list of alarms with an alarm_id, as its stub *)
(* answers.  GET /alarms of platform/api/routes/alarms.py answers another  *)
(* shape, of at most one page: Shape and PageSize say which is modelled.   *)
(***************************************************************************)
EXTENDS Naturals, Sequences, FiniteSets

CONSTANTS
    Alarms,      \* alarm ids
    NoAlarm,     \* no alarm
    Priority,    \* the priority of each alarm
    Routed,      \* the priorities with a routing policy
    Shape,       \* of the answer: "list", or "object" as AlarmListResponse is
    PageSize,    \* limit, as many alarms as an answer holds at most
    MaxRetries,  \* max_retries
    MaxChanges,  \* bound: alarms that enter or leave the list of the API
    MaxFaults,   \* bound: attempts that fail
    MaxOutside   \* bound: maintenance windows, and calls of process_alarm by a webhook

ASSUME AlarmsAssumption == NoAlarm \notin Alarms
ASSUME PriorityAssumption == Priority \in [Alarms -> {"P0", "P1", "P2", "P3"}]
ASSUME RoutedAssumption == Routed \subseteq {"P0", "P1", "P2", "P3"}
ASSUME AnswerAssumption == Shape \in {"list", "object"} /\ PageSize \in Nat
ASSUME RouterBoundsAssumption ==
    /\ MaxRetries \in Nat /\ MaxChanges \in Nat
    /\ MaxFaults \in Nat /\ MaxOutside \in Nat

VARIABLES
    listed,     \* the alarms that are ACTIVE in the table the API reads
    window,     \* a planned maintenance window is open
    tracked,    \* _tracked_alarms
    batch,      \* _p3_batch
    poll,       \* where the polling loop is
    current,    \* the alarms it has fetched
    fresh,      \* current_ids - tracked_ids, as far as not processed
    gone,       \* tracked_ids - current_ids, as far as not resolved
    sending,    \* what each coroutine is sending
    report,     \* the alarms in the digest being sent
    failed,     \* the alarms whose last event was given up, refused or broken off
    crossed,    \* the alarms two coroutines have sent about at the same time
    incidents,  \* the alarms with an open incident at PagerDuty
    digested,   \* the alarms reported in digests
    hushed,     \* the alarms that were in a maintenance window when they were last processed
    changes, faults, outside

pollVars == <<poll, current, fresh, gone>>
sendVars == <<sending, report, failed, crossed>>
pdVars   == <<incidents, digested, hushed>>
bounds   == <<changes, faults, outside>>
vars     == <<listed, window, tracked, batch, pollVars, sendVars, pdVars, bounds>>

Senders  == {"poll", "hook", "digest"}
Idle     == [action |-> "none", alarm |-> NoAlarm, attempt |-> 0, reached |-> FALSE]
Busy(t)  == sending[t].action # "none"

-----------------------------------------------------------------------------
(* send_event.                                                             *)

Send(t, act, a) ==
    /\ sending' = [sending EXCEPT ![t] =
                     [action |-> act, alarm |-> a, attempt |-> 0, reached |-> FALSE]]
    /\ crossed' = crossed \cup
                     (Alarms \cap {a} \cap {sending[u].alarm : u \in Senders \ {t}})
    /\ UNCHANGED failed

\* PagerDuty takes the event of an attempt; the dedup key is that of the alarm.
Received(t) ==
    LET e == sending[t] IN
    /\ Busy(t) /\ ~e.reached
    /\ sending' = [sending EXCEPT ![t].reached = TRUE]
    /\ incidents' = CASE e.action = "trigger" -> incidents \cup {e.alarm}
                      [] e.action = "resolve" -> incidents \ {e.alarm}
                      [] OTHER -> incidents
    /\ digested' = IF e.action = "digest" THEN digested \cup report ELSE digested
    /\ UNCHANGED <<report, failed, crossed, hushed>>
    /\ UNCHANGED <<listed, window, tracked, batch, pollVars, bounds>>

\* The next poll starts with the list as it is then; a poll that ends by an
\* exception has not updated the tracked alarms.
EndPoll == poll' = "idle" /\ current' = {} /\ fresh' = {} /\ gone' = {}

\* Mutant: the update of the tracked alarms is in a finally clause.
AbortTracking ==
    /\ EndPoll
    /\ tracked' = tracked \cup current

AbortPoll ==
    /\ EndPoll
    /\ UNCHANGED tracked

\* The alarm has been dealt with; a direct call changes the tracked alarms under
\* the poll, whose del then fails and ends it.
Forget(a) ==
    IF a \in tracked
    THEN tracked' = tracked \ {a} /\ UNCHANGED pollVars
    ELSE AbortPoll

\* Mutant: an alarm is tracked at the end of the poll only.
ReturnUntracked(t, ok) ==
    LET e == sending[t] IN
    /\ sending' = [sending EXCEPT ![t] = Idle]
    /\ IF e.action = "resolve" THEN Forget(e.alarm) ELSE UNCHANGED <<tracked, pollVars>>
    /\ batch' = IF e.action = "digest" /\ ok THEN <<>> ELSE batch

\* After a resolve, sent or not, the alarm is no longer tracked.
\* After a trigger it is tracked if it was sent, and not if it was given up.
Return(t, ok) ==
    LET e == sending[t] IN
    /\ sending' = [sending EXCEPT ![t] = Idle]
    /\ CASE e.action = "trigger" ->
              /\ tracked' = IF ok THEN tracked \cup {e.alarm} ELSE tracked \ {e.alarm}
              /\ UNCHANGED <<batch, pollVars>>
         [] e.action = "resolve" -> Forget(e.alarm) /\ UNCHANGED batch
         [] e.action = "digest" ->
              /\ batch' = IF ok THEN <<>> ELSE batch
              /\ UNCHANGED <<tracked, pollVars>>

Note(t, bad) ==
    /\ failed' = IF bad THEN failed \cup ({sending[t].alarm} \cap Alarms)
                 ELSE failed \ {sending[t].alarm}
    /\ UNCHANGED <<report, crossed>>

Fault == faults < MaxFaults /\ faults' = faults + 1 /\ UNCHANGED <<changes, outside>>

\* 200, 201 or 202.
Accepted(t) ==
    /\ Busy(t) /\ sending[t].reached
    /\ Return(t, TRUE)
    /\ Note(t, FALSE)
    /\ UNCHANGED <<listed, window, pdVars, bounds>>

\* Another 4xx is returned as if the event had been accepted.
Refused(t) ==
    /\ Busy(t) /\ ~sending[t].reached
    /\ Fault
    /\ Return(t, TRUE)
    /\ Note(t, TRUE)
    /\ UNCHANGED <<listed, window, pdVars>>

\* 429, 5xx, a connection error or a time-out, which may come after PagerDuty has
\* received the event.
Retry(t) ==
    /\ Busy(t)
    /\ sending[t].attempt < MaxRetries
    /\ Fault
    /\ sending' = [sending EXCEPT ![t].attempt = @ + 1, ![t].reached = FALSE]
    /\ UNCHANGED <<listed, window, tracked, batch, pollVars, report, failed, crossed, pdVars>>

GiveUp(t) ==
    /\ Busy(t)
    /\ sending[t].attempt = MaxRetries
    /\ Fault
    /\ Return(t, FALSE)
    /\ Note(t, TRUE)
    /\ UNCHANGED <<listed, window, pdVars>>

\* Any other exception ends the poll, the direct call or the digest.
Broken(t) ==
    /\ Busy(t)
    /\ Fault
    /\ sending' = [sending EXCEPT ![t] = Idle]
    /\ IF t = "poll" THEN AbortPoll ELSE UNCHANGED <<tracked, pollVars>>
    /\ Note(t, TRUE)
    /\ UNCHANGED <<listed, window, batch, pdVars>>

-----------------------------------------------------------------------------
(* process_alarm, _resolve_alarm and the digest.                           *)

Batched(a)  == Priority[a] = "P3"
Pageable(a) == ~Batched(a) /\ Priority[a] \in Routed

\* In a maintenance window, or without a policy, nothing is sent.
Process(t, a) ==
    /\ \/ (window \/ ~(Batched(a) \/ Pageable(a))) /\ UNCHANGED <<batch, sendVars>>
       \/ ~window /\ Batched(a) /\ batch' = Append(batch, a) /\ UNCHANGED sendVars
       \/ ~window /\ Pageable(a) /\ Send(t, "trigger", a) /\ UNCHANGED <<batch, report>>
    /\ hushed' = IF window THEN hushed \cup {a} ELSE hushed \ {a}
    /\ UNCHANGED <<listed, window, tracked, incidents, digested, changes, faults>>

\* A webhook calls process_alarm for an alarm that is active.
Webhook(a) ==
    /\ ~Busy("hook")
    /\ outside < MaxOutside
    /\ a \in listed
    /\ outside' = outside + 1
    /\ Process("hook", a)
    /\ UNCHANGED pollVars

\* The report is a copy of the batch; what is batched while it is sent is cleared
\* with it.
SendDigest ==
    /\ ~Busy("digest")
    /\ batch # <<>>
    /\ "P3" \in Routed
    /\ Send("digest", "digest", NoAlarm)
    /\ report' = {batch[i] : i \in 1..Len(batch)}
    /\ UNCHANGED <<listed, window, tracked, batch, pollVars, pdVars, bounds>>

-----------------------------------------------------------------------------
(* The polling loop: _fetch_all_active and _reconcile.                     *)

\* ORDER BY priority: a more urgent alarm is on the page before a less urgent one.
Rank(a) == CHOOSE i \in 0..3 : Priority[a] = <<"P0", "P1", "P2", "P3">>[i + 1]

IsPage(page) ==
    /\ Cardinality(page) = IF Cardinality(listed) < PageSize THEN Cardinality(listed) ELSE PageSize
    /\ \A a \in page, b \in listed \ page : Rank(a) <= Rank(b)

\* _parse_alarm of a key of an object, which is what iterating over one gives, raises: the
\* poll is over and has done nothing.
Fetch ==
    /\ poll = "idle" /\ Shape = "list"
    /\ poll' = "reconcile"
    /\ \E page \in SUBSET listed :
          /\ IsPage(page)
          /\ current' = page
          /\ fresh' = page \ tracked
          /\ gone' = tracked \ page
    /\ UNCHANGED <<listed, window, tracked, batch, sendVars, pdVars, bounds>>

ProcessNew(a) ==
    /\ poll = "reconcile" /\ ~Busy("poll")
    /\ a \in fresh
    /\ fresh' = fresh \ {a}
    /\ Process("poll", a)
    /\ UNCHANGED <<poll, current, gone, outside>>

\* The alarm is looked up among the tracked ones again.
ResolveGone(a) ==
    /\ poll = "reconcile" /\ ~Busy("poll")
    /\ fresh = {} /\ a \in gone
    /\ a \in tracked /\ Pageable(a)
    /\ gone' = gone \ {a}
    /\ Send("poll", "resolve", a)
    /\ UNCHANGED <<listed, window, tracked, batch, poll, current, fresh, report, pdVars, bounds>>

DropGone(a) ==
    /\ poll = "reconcile" /\ ~Busy("poll")
    /\ fresh = {} /\ a \in gone
    /\ a \in tracked /\ ~Pageable(a)
    /\ gone' = gone \ {a}
    /\ tracked' = tracked \ {a}
    /\ UNCHANGED <<listed, window, batch, poll, current, fresh, sendVars, pdVars, bounds>>

LookupFails(a) ==
    /\ poll = "reconcile" /\ ~Busy("poll")
    /\ fresh = {} /\ a \in gone
    /\ a \notin tracked
    /\ AbortPoll
    /\ UNCHANGED <<listed, window, batch, sendVars, pdVars, bounds>>

\* Mutant: the tracked alarms are replaced by those fetched.
ReplaceTracked ==
    /\ poll = "reconcile" /\ ~Busy("poll")
    /\ fresh = {} /\ gone = {}
    /\ tracked' = current
    /\ EndPoll
    /\ UNCHANGED <<listed, window, batch, sendVars, pdVars, bounds>>

\* All that was fetched is tracked, sent or not.
UpdateTracked ==
    /\ poll = "reconcile" /\ ~Busy("poll")
    /\ fresh = {} /\ gone = {}
    /\ tracked' = tracked \cup current
    /\ EndPoll
    /\ UNCHANGED <<listed, window, batch, sendVars, pdVars, bounds>>

-----------------------------------------------------------------------------
(* The alarms and the maintenance calendar.                                *)

\* An alarm enters or leaves the list: it is raised, released from suppression, or
\* acknowledged, suppressed, shelved or over.
Change(a) ==
    /\ changes < MaxChanges
    /\ changes' = changes + 1
    /\ listed' = IF a \in listed THEN listed \ {a} ELSE listed \cup {a}
    /\ UNCHANGED <<window, tracked, batch, pollVars, sendVars, pdVars, faults, outside>>

OpenWindow ==
    /\ ~window /\ outside < MaxOutside
    /\ window' = TRUE /\ outside' = outside + 1
    /\ UNCHANGED <<listed, tracked, batch, pollVars, sendVars, pdVars, changes, faults>>

CloseWindow ==
    /\ window
    /\ window' = FALSE
    /\ UNCHANGED <<listed, tracked, batch, pollVars, sendVars, pdVars, bounds>>

-----------------------------------------------------------------------------
Init ==
    /\ listed = {} /\ window = FALSE
    /\ tracked = {} /\ batch = <<>>
    /\ poll = "idle" /\ current = {} /\ fresh = {} /\ gone = {}
    /\ sending = [t \in Senders |-> Idle]
    /\ report = {} /\ failed = {} /\ crossed = {}
    /\ incidents = {} /\ digested = {} /\ hushed = {}
    /\ changes = 0 /\ faults = 0 /\ outside = 0

PollStep ==
    \/ Fetch \/ UpdateTracked
    \/ \E a \in Alarms : ProcessNew(a) \/ ResolveGone(a) \/ DropGone(a) \/ LookupFails(a)

Answer(t) ==
    \/ Received(t) \/ Accepted(t)
    \/ Refused(t) \/ Retry(t) \/ GiveUp(t) \/ Broken(t)

Next ==
    \/ PollStep
    \/ \E t \in Senders : Answer(t)
    \/ \E a \in Alarms : Webhook(a) \/ Change(a)
    \/ SendDigest
    \/ OpenWindow \/ CloseWindow

Spec == Init /\ [][Next]_vars

\* The loop polls again and again, and an attempt ends one way or the other.
FairSpec ==
    /\ Spec
    /\ WF_vars(PollStep)
    /\ \A t \in Senders : WF_vars(Answer(t))

-----------------------------------------------------------------------------
\* The types: the poll's two work lists stay apart, and no attempt is made beyond the
\* last retry (send_event's range).
TypeOK ==
    /\ listed \subseteq Alarms /\ window \in BOOLEAN
    /\ tracked \subseteq Alarms /\ batch \in Seq(Alarms)
    /\ poll \in {"idle", "reconcile"}
    /\ current \subseteq Alarms /\ fresh \subseteq current /\ gone \subseteq Alarms \ current
    /\ sending \in [Senders -> [action : {"none", "trigger", "resolve", "digest"},
                                alarm : Alarms \cup {NoAlarm}, attempt : 0..MaxRetries,
                                reached : BOOLEAN]]
    /\ report \subseteq Alarms /\ failed \subseteq Alarms /\ crossed \subseteq Alarms
    /\ incidents \subseteq Alarms /\ digested \subseteq Alarms /\ hushed \subseteq Alarms
    /\ changes \in 0..MaxChanges /\ faults \in 0..MaxFaults /\ outside \in 0..MaxOutside

Doubtful == failed \cup crossed

\* No incident is orphaned: unless an event about it failed for good or two
\* coroutines sent about it at once, an open incident belongs to an alarm the router
\* tracks or is sending about, so that a later poll resolves it (process_alarm tracks
\* what it has sent, _reconcile forgets what it has resolved).  Checked with the types.
IncidentsAreTracked ==
    /\ TypeOK
    /\ \A a \in incidents \ Doubtful :
          a \in tracked \/ \E t \in Senders : sending[t].alarm = a

\* The alarm has a place on the page whatever else is listed.
OnThePage(a) == Cardinality({b \in listed : Rank(b) <= Rank(a)}) <= PageSize

\* An alarm that stays active is paged: its incident is open in the end, whatever polls are
\* broken off on the way (_reconcile: "New alarms -> trigger"), if the router can read the
\* answer at all, which it cannot when it is the object of AlarmListResponse.  There are
\* three more exceptions.  An alarm beyond the page is taken for cleared.  One that was in a
\* maintenance window when it was processed is tracked all the same (:401), and is not looked
\* at when the window ends.  And one whose last event was given up or refused is tracked as
\* if it had been sent.
EventuallyPaged ==
    \A a \in Alarms :
        (/\ Shape = "list" /\ Pageable(a)
         /\ <>[](a \in listed /\ OnThePage(a) /\ a \notin hushed \cup Doubtful))
            => <>[](a \in incidents)

\* An alarm that is over keeps no incident, if the router can read the answer (_reconcile:
\* "Missing alarms -> resolve"), unless the last event about it, its resolve, failed: the
\* alarm is forgotten all the same (:397).
EventuallyResolved ==
    \A a \in Alarms :
        (Shape = "list" /\ <>[](a \notin listed \cup Doubtful)) => <>[](a \notin incidents)

=============================================================================
