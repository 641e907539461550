------------------------ MODULE PagerDutyRouterProofs ------------------------
(***************************************************************************)
(* Theorems about PagerDutyRouter, for every set of alarms, every policy   *)
(* and every bound.                                                        *)
(***************************************************************************)
EXTENDS PagerDutyRouter, TLAPS

Event == [action : {"none", "trigger", "resolve", "digest"},
          alarm : Alarms \cup {NoAlarm}, attempt : 0..MaxRetries, reached : BOOLEAN]

\* An idle coroutine and the digest send about no alarm; only the poll resolves, and
\* only alarms that are paged are sent about.
SendersOnDuty ==
    \A t \in Senders :
        /\ sending[t].action \in {"none", "digest"} => sending[t].alarm = NoAlarm
        /\ sending[t].action = "digest" <=> t = "digest" /\ Busy(t)
        /\ sending[t].action = "resolve" => t = "poll"
        /\ sending[t].action \in {"trigger", "resolve"} =>
               sending[t].alarm \in Alarms /\ Pageable(sending[t].alarm)

\* Two coroutines that send about one alarm are noted.
CrossingsNoted ==
    \A t, u \in Senders : sending[t].alarm = sending[u].alarm /\ sending[t].alarm # NoAlarm =>
        t = u \/ sending[t].alarm \in crossed

\* Only an alarm that is paged gets an incident, and a resolve that has arrived has
\* closed it, unless a trigger crossed it.
IncidentsPaged ==
    /\ \A a \in incidents : Pageable(a)
    /\ \A t \in Senders : sending[t].action = "resolve" /\ sending[t].reached =>
           sending[t].alarm \notin incidents \ crossed

RouterInv == IncidentsAreTracked /\ SendersOnDuty /\ CrossingsNoted /\ IncidentsPaged

-----------------------------------------------------------------------------
(* The types.                                                              *)

LEMMA IdleIsAnEvent == Idle \in Event /\ Idle.action = "none" /\ Idle.alarm = NoAlarm
BY RouterBoundsAssumption DEF Idle, Event

LEMMA InitTyped == Init => TypeOK
<1> SUFFICES ASSUME Init PROVE TypeOK
  OBVIOUS
<1>1. sending \in [Senders -> Event]
  BY IdleIsAnEvent DEF Init
<1>2. batch \in Seq(Alarms)
  BY DEF Init
<1>3. changes \in 0..MaxChanges /\ faults \in 0..MaxFaults /\ outside \in 0..MaxOutside
  BY RouterBoundsAssumption DEF Init
<1>4. /\ listed \subseteq Alarms /\ window \in BOOLEAN /\ tracked \subseteq Alarms
      /\ poll \in {"idle", "reconcile"}
      /\ current \subseteq Alarms /\ fresh \subseteq current /\ gone \subseteq Alarms \ current
      /\ report \subseteq Alarms /\ failed \subseteq Alarms /\ crossed \subseteq Alarms
      /\ incidents \subseteq Alarms /\ digested \subseteq Alarms /\ hushed \subseteq Alarms
  BY DEF Init
<1>5. QED BY <1>1, <1>2, <1>3, <1>4 DEF TypeOK, Event

LEMMA FaultTyped ==
    ASSUME TypeOK, Fault
    PROVE  faults' \in 0..MaxFaults /\ changes' \in 0..MaxChanges /\ outside' \in 0..MaxOutside
BY RouterBoundsAssumption DEF TypeOK, Fault

LEMMA NoteTyped ==
    ASSUME TypeOK, NEW t \in Senders, NEW bad \in BOOLEAN, Note(t, bad)
    PROVE  failed' \subseteq Alarms /\ report' \subseteq Alarms /\ crossed' \subseteq Alarms
BY DEF TypeOK, Note

LEMMA SendTyped ==
    ASSUME TypeOK, NEW t \in Senders, NEW act \in {"trigger", "resolve", "digest"},
           NEW a \in Alarms \cup {NoAlarm}, Send(t, act, a)
    PROVE  sending' \in [Senders -> Event] /\ crossed' \subseteq Alarms /\ failed' \subseteq Alarms
<1>1. [action |-> act, alarm |-> a, attempt |-> 0, reached |-> FALSE] \in Event
  BY RouterBoundsAssumption DEF Event
<1>2. sending \in [Senders -> Event]
  BY DEF TypeOK, Event
<1>3. QED BY <1>1, <1>2 DEF Send, TypeOK

LEMMA ReturnTyped ==
    ASSUME TypeOK, SendersOnDuty, NEW t \in Senders, NEW ok \in BOOLEAN, Busy(t), Return(t, ok)
    PROVE  /\ sending' \in [Senders -> Event] /\ tracked' \subseteq Alarms /\ batch' \in Seq(Alarms)
           /\ poll' \in {"idle", "reconcile"} /\ current' \subseteq Alarms
           /\ fresh' \subseteq current' /\ gone' \subseteq Alarms \ current'
<1>1. sending \in [Senders -> Event] /\ batch \in Seq(Alarms) /\ <<>> \in Seq(Alarms)
  BY DEF TypeOK, Event
<1>2. sending' \in [Senders -> Event]
  BY <1>1, IdleIsAnEvent DEF Return
<1>3. CASE sending[t].action = "trigger"
  <2>1. sending[t].alarm \in Alarms
    BY <1>3 DEF SendersOnDuty
  <2>2. UNCHANGED <<batch, pollVars>> /\ tracked' \in {tracked \cup {sending[t].alarm}, tracked \ {sending[t].alarm}}
    BY <1>3 DEF Return
  <2>3. QED BY <1>1, <1>2, <2>1, <2>2 DEF TypeOK, pollVars
<1>4. CASE sending[t].action = "resolve"
  <2>1. Forget(sending[t].alarm) /\ batch' = batch
    BY <1>4 DEF Return
  <2>2. QED BY <1>1, <1>2, <2>1 DEF TypeOK, Forget, AbortPoll, EndPoll, pollVars
<1>5. CASE sending[t].action = "digest"
  <2>1. batch' \in {<<>>, batch} /\ UNCHANGED <<tracked, pollVars>>
    BY <1>5 DEF Return
  <2>2. QED BY <1>1, <1>2, <2>1 DEF TypeOK, pollVars
<1>6. QED BY <1>1, <1>3, <1>4, <1>5 DEF Busy, Event

LEMMA AnswerTyped ==
    ASSUME TypeOK, SendersOnDuty, NEW t \in Senders, Answer(t)
    PROVE  TypeOK'
<1>1. sending \in [Senders -> Event]
  BY DEF TypeOK, Event
<1>2. CASE Received(t)
  <2>1. sending' \in [Senders -> Event]
    BY <1>1, <1>2 DEF Received, Event
  <2>2. incidents' \subseteq Alarms /\ digested' \subseteq Alarms
    <3>1. sending[t].action = "trigger" => sending[t].alarm \in Alarms
      BY DEF SendersOnDuty
    <3>2. QED BY <1>2, <3>1 DEF Received, TypeOK
  <2>3. QED BY <1>2, <2>1, <2>2 DEF Received, TypeOK, Event, pollVars, bounds
<1>3. CASE Accepted(t)
  BY <1>3, ReturnTyped, NoteTyped DEF Accepted, TypeOK, Event, pdVars, bounds
<1>4. CASE Refused(t)
  BY <1>4, ReturnTyped, NoteTyped, FaultTyped DEF Refused, TypeOK, Event, pdVars
<1>5. CASE GiveUp(t)
  BY <1>5, ReturnTyped, NoteTyped, FaultTyped DEF GiveUp, TypeOK, Event, pdVars
<1>6. CASE Retry(t)
  <2>1. sending' \in [Senders -> Event]
    <3>1. sending[t].attempt + 1 \in 0..MaxRetries
      BY <1>1, <1>6, RouterBoundsAssumption DEF Retry, Event
    <3>2. [sending[t] EXCEPT !.attempt = @ + 1, !.reached = FALSE] \in Event
      BY <1>1, <3>1 DEF Event
    <3>3. sending' = [sending EXCEPT ![t] = [sending[t] EXCEPT !.attempt = @ + 1, !.reached = FALSE]]
      BY <1>1, <1>6 DEF Retry
    <3>4. QED BY <1>1, <3>2, <3>3
  <2>2. QED BY <1>6, <2>1, FaultTyped DEF Retry, TypeOK, Event, pollVars, pdVars
<1>7. CASE Broken(t)
  <2>1. sending' \in [Senders -> Event]
    BY <1>1, <1>7, IdleIsAnEvent DEF Broken
  <2>2. /\ tracked' \subseteq Alarms /\ poll' \in {"idle", "reconcile"} /\ current' \subseteq Alarms
        /\ fresh' \subseteq current' /\ gone' \subseteq Alarms \ current'
    BY <1>7 DEF Broken, AbortPoll, EndPoll, TypeOK, pollVars
  <2>3. QED BY <1>7, <2>1, <2>2, NoteTyped, FaultTyped DEF Broken, TypeOK, Event, pdVars
<1>8. QED BY <1>2, <1>3, <1>4, <1>5, <1>6, <1>7 DEF Answer

LEMMA ProcessTyped ==
    ASSUME TypeOK, NEW t \in Senders, NEW a \in Alarms, Process(t, a)
    PROVE  /\ sending' \in [Senders -> Event] /\ batch' \in Seq(Alarms)
           /\ failed' \subseteq Alarms /\ crossed' \subseteq Alarms /\ report' \subseteq Alarms
<1>1. sending \in [Senders -> Event] /\ batch \in Seq(Alarms)
  BY DEF TypeOK, Event
<1>2. CASE UNCHANGED <<batch, sendVars>>
  BY <1>1, <1>2 DEF TypeOK, sendVars
<1>3. CASE batch' = Append(batch, a) /\ UNCHANGED sendVars
  BY <1>1, <1>3 DEF TypeOK, sendVars
<1>4. CASE Send(t, "trigger", a) /\ UNCHANGED <<batch, report>>
  BY <1>1, <1>4, SendTyped DEF TypeOK
<1>5. QED BY <1>2, <1>3, <1>4 DEF Process

LEMMA PollTyped ==
    ASSUME TypeOK, PollStep
    PROVE  TypeOK'
<1>1. sending \in [Senders -> Event] /\ "poll" \in Senders
  BY DEF TypeOK, Event, Senders
<1>2. CASE Fetch
  BY <1>2 DEF Fetch, TypeOK, sendVars, pdVars, bounds
<1>3. CASE UpdateTracked
  BY <1>3 DEF UpdateTracked, EndPoll, TypeOK, sendVars, pdVars, bounds
<1>4. ASSUME NEW a \in Alarms, ProcessNew(a) PROVE TypeOK'
  BY <1>1, <1>4, ProcessTyped DEF ProcessNew, Process, TypeOK, Event, pdVars
<1>5. ASSUME NEW a \in Alarms, ResolveGone(a) PROVE TypeOK'
  BY <1>1, <1>5, SendTyped DEF ResolveGone, TypeOK, Event, pdVars, bounds
<1>6. ASSUME NEW a \in Alarms, DropGone(a) PROVE TypeOK'
  BY <1>6 DEF DropGone, TypeOK, sendVars, pdVars, bounds
<1>7. ASSUME NEW a \in Alarms, LookupFails(a) PROVE TypeOK'
  BY <1>7 DEF LookupFails, AbortPoll, EndPoll, TypeOK, sendVars, pdVars, bounds
<1>8. QED BY <1>2, <1>3, <1>4, <1>5, <1>6, <1>7 DEF PollStep

LEMMA OtherTyped ==
    ASSUME TypeOK,
           \/ \E a \in Alarms : Webhook(a) \/ Change(a)
           \/ SendDigest \/ OpenWindow \/ CloseWindow
    PROVE  TypeOK'
<1>1. sending \in [Senders -> Event] /\ "hook" \in Senders /\ "digest" \in Senders
      /\ batch \in Seq(Alarms)
  BY DEF TypeOK, Event, Senders
<1>2. ASSUME NEW a \in Alarms, Webhook(a) PROVE TypeOK'
  <2>1. outside' \in 0..MaxOutside
    BY <1>2, RouterBoundsAssumption DEF Webhook, TypeOK
  <2>2. QED BY <1>1, <1>2, <2>1, ProcessTyped DEF Webhook, Process, TypeOK, Event, pollVars, pdVars
<1>3. ASSUME NEW a \in Alarms, Change(a) PROVE TypeOK'
  <2>1. changes' \in 0..MaxChanges /\ listed' \subseteq Alarms
    BY <1>3, RouterBoundsAssumption DEF Change, TypeOK
  <2>2. QED BY <1>3, <2>1 DEF Change, TypeOK, pollVars, sendVars, pdVars
<1>4. CASE SendDigest
  <2>1. report' \subseteq Alarms
    BY <1>1, <1>4 DEF SendDigest
  <2>2. QED BY <1>1, <1>4, <2>1, SendTyped DEF SendDigest, TypeOK, Event, pollVars, pdVars, bounds
<1>5. CASE OpenWindow
  BY <1>5, RouterBoundsAssumption DEF OpenWindow, TypeOK, pollVars, sendVars, pdVars
<1>6. CASE CloseWindow
  BY <1>6 DEF CloseWindow, TypeOK, pollVars, sendVars, pdVars, bounds
<1>7. QED BY <1>2, <1>3, <1>4, <1>5, <1>6

-----------------------------------------------------------------------------
(* What a step does to the coroutines and to the incidents.                *)

Tracks(a) == a \in tracked \/ \E t \in Senders : sending[t].alarm = a

Attended == \A a \in incidents \ Doubtful : Tracks(a)

\* A coroutine starts to send about an alarm that is paged, or the digest.
Starts(t) ==
    /\ ~Busy(t)
    /\ \E act \in {"trigger", "resolve", "digest"}, a \in Alarms \cup {NoAlarm} :
          /\ Send(t, act, a)
          /\ act = "digest" <=> t = "digest"
          /\ act = "digest" => a = NoAlarm
          /\ act = "resolve" => t = "poll"
          /\ act # "digest" => a \in Alarms /\ Pageable(a)
    /\ UNCHANGED <<tracked, incidents>>

\* A coroutine is done: the alarm it sent about is noted as failed, or is tracked, or
\* has been resolved.
Ends(t) ==
    LET e == sending[t] IN
    /\ Busy(t)
    /\ sending' = [sending EXCEPT ![t] = Idle]
    /\ tracked \ {e.alarm} \subseteq tracked'
    /\ failed \ {e.alarm} \subseteq failed'
    /\ e.alarm \in Alarms =>
          \/ e.alarm \in failed'
          \/ e.action = "trigger" /\ e.alarm \in tracked'
          \/ e.action = "resolve" /\ e.reached
    /\ UNCHANGED <<crossed, incidents>>

\* Nothing is sent and nothing arrives; no alarm that is paged is forgotten.
Still ==
    /\ \A a \in tracked : Pageable(a) => a \in tracked'
    /\ UNCHANGED <<sending, failed, crossed, incidents>>

LEMMA EndsShape ==
    ASSUME TypeOK, SendersOnDuty, NEW t \in Senders,
           Accepted(t) \/ Refused(t) \/ GiveUp(t) \/ Broken(t)
    PROVE  Ends(t)
<1>1. sending[t] \in Event /\ Busy(t)
  BY DEF TypeOK, Event, Accepted, Refused, GiveUp, Broken
<1>2. ASSUME NEW ok \in BOOLEAN, Return(t, ok)
      PROVE  /\ sending' = [sending EXCEPT ![t] = Idle]
             /\ tracked \ {sending[t].alarm} \subseteq tracked'
             /\ ok /\ sending[t].action = "trigger" => sending[t].alarm \in tracked'
  <2>1. CASE sending[t].action = "trigger"
    BY <1>2, <2>1 DEF Return
  <2>2. CASE sending[t].action = "resolve"
    BY <1>2, <2>2 DEF Return, Forget, AbortPoll
  <2>3. CASE sending[t].action = "digest"
    BY <1>2, <2>3 DEF Return
  <2>4. QED BY <1>1, <2>1, <2>2, <2>3 DEF Busy, Event
<1>3. sending[t].alarm \in Alarms => sending[t].action \in {"trigger", "resolve"}
  BY <1>1, AlarmsAssumption DEF SendersOnDuty, Event, Busy
<1>4. CASE Accepted(t)
  BY <1>1, <1>2, <1>3, <1>4 DEF Accepted, Note, Ends, pdVars
<1>5. CASE Refused(t)
  BY <1>1, <1>2, <1>5 DEF Refused, Note, Ends, pdVars
<1>6. CASE GiveUp(t)
  BY <1>1, <1>2, <1>6 DEF GiveUp, Note, Ends, pdVars
<1>7. CASE Broken(t)
  BY <1>1, <1>7 DEF Broken, AbortPoll, Note, Ends, pdVars
<1>8. QED BY <1>4, <1>5, <1>6, <1>7

LEMMA StepShape ==
    ASSUME TypeOK, SendersOnDuty, [Next]_vars
    PROVE  \/ Still
           \/ \E t \in Senders : Starts(t) \/ Ends(t) \/ Received(t) \/ Retry(t)
<1> "poll" \in Senders /\ "hook" \in Senders /\ "digest" \in Senders
  BY DEF Senders
<1>1. ASSUME NEW t \in Senders, t # "digest", NEW a \in Alarms, ~Busy(t), Process(t, a)
      PROVE  Still \/ Starts(t)
  <2>1. UNCHANGED <<tracked, incidents>>
    BY <1>1 DEF Process, pdVars
  <2>2. CASE UNCHANGED sendVars
    BY <2>1, <2>2 DEF Still, sendVars
  <2>3. CASE Pageable(a) /\ Send(t, "trigger", a)
    BY <1>1, <2>1, <2>3 DEF Starts
  <2>4. QED BY <1>1, <2>2, <2>3 DEF Process, sendVars
<1>2. ASSUME NEW a \in Alarms, ProcessNew(a) PROVE Still \/ Starts("poll")
  BY <1>1, <1>2 DEF ProcessNew
<1>3. ASSUME NEW a \in Alarms, Webhook(a) PROVE Still \/ Starts("hook")
  BY <1>1, <1>3 DEF Webhook
<1>4. ASSUME NEW a \in Alarms, ResolveGone(a) PROVE Starts("poll")
  BY <1>4 DEF ResolveGone, Starts, pdVars
<1>5. CASE SendDigest
  BY <1>5 DEF SendDigest, Starts, pdVars
<1>6. ASSUME NEW a \in Alarms, DropGone(a) PROVE Still
  BY <1>6 DEF DropGone, Still, sendVars, pdVars
<1>7. ASSUME NEW a \in Alarms, LookupFails(a) PROVE Still
  BY <1>7 DEF LookupFails, AbortPoll, Still, sendVars, pdVars
<1>8. CASE Fetch \/ UpdateTracked
  BY <1>8 DEF Fetch, UpdateTracked, Still, sendVars, pdVars
<1>9. ASSUME NEW a \in Alarms, Change(a) PROVE Still
  BY <1>9 DEF Change, Still, sendVars, pdVars
<1>10. CASE OpenWindow \/ CloseWindow \/ UNCHANGED vars
  BY <1>10 DEF OpenWindow, CloseWindow, vars, Still, sendVars, pdVars
<1>11. ASSUME NEW t \in Senders, Answer(t) PROVE Ends(t) \/ Received(t) \/ Retry(t)
  BY <1>11, EndsShape DEF Answer
<1>12. QED
  BY <1>2, <1>3, <1>4, <1>5, <1>6, <1>7, <1>8, <1>9, <1>10, <1>11 DEF Next, PollStep

LEMMA SendersStep ==
    ASSUME TypeOK, SendersOnDuty, CrossingsNoted, [Next]_vars
    PROVE  SendersOnDuty' /\ CrossingsNoted'
<1>1. sending \in [Senders -> Event]
  BY DEF TypeOK, Event
<1>2. CASE Still
  BY <1>2 DEF Still, SendersOnDuty, CrossingsNoted, Busy
<1>3. ASSUME NEW t \in Senders, Starts(t) PROVE SendersOnDuty' /\ CrossingsNoted'
  <2>1. PICK act \in {"trigger", "resolve", "digest"}, a \in Alarms \cup {NoAlarm} :
          /\ Send(t, act, a)
          /\ act = "digest" <=> t = "digest"
          /\ act = "digest" => a = NoAlarm
          /\ act = "resolve" => t = "poll"
          /\ act # "digest" => a \in Alarms /\ Pageable(a)
    BY <1>3 DEF Starts
  <2>2. /\ sending'[t].action = act /\ sending'[t].alarm = a
        /\ \A u \in Senders \ {t} : sending'[u] = sending[u]
        /\ crossed' = crossed \cup (Alarms \cap {a} \cap {sending[u].alarm : u \in Senders \ {t}})
    BY <1>1, <2>1 DEF Send
  <2>3. SendersOnDuty'
    BY <2>1, <2>2 DEF SendersOnDuty, Busy
  <2>4. CrossingsNoted'
    BY <2>1, <2>2 DEF CrossingsNoted
  <2>5. QED BY <2>3, <2>4
<1>4. ASSUME NEW t \in Senders, Ends(t) PROVE SendersOnDuty' /\ CrossingsNoted'
  <2>1. /\ sending'[t] = Idle /\ crossed' = crossed
        /\ \A u \in Senders \ {t} : sending'[u] = sending[u]
    BY <1>1, <1>4 DEF Ends
  <2>2. QED BY <2>1, IdleIsAnEvent DEF SendersOnDuty, CrossingsNoted, Busy
<1>5. ASSUME NEW t \in Senders, Received(t) \/ Retry(t) PROVE SendersOnDuty' /\ CrossingsNoted'
  <2>1. \A u \in Senders : sending'[u].action = sending[u].action /\ sending'[u].alarm = sending[u].alarm
    BY <1>1, <1>5 DEF Received, Retry, Event
  <2>2. crossed' = crossed
    BY <1>5 DEF Received, Retry
  <2>3. QED BY <2>1, <2>2 DEF SendersOnDuty, CrossingsNoted, Busy
<1>6. QED BY <1>2, <1>3, <1>4, <1>5, StepShape

LEMMA IncidentsStep ==
    ASSUME TypeOK, SendersOnDuty, CrossingsNoted, IncidentsPaged, Attended, [Next]_vars
    PROVE  IncidentsPaged' /\ Attended'
<1>1. sending \in [Senders -> Event]
  BY DEF TypeOK, Event
<1>2. CASE Still
  <2>1. IncidentsPaged'
    BY <1>2 DEF Still, IncidentsPaged
  <2>2. Attended'
    BY <1>2 DEF Still, IncidentsPaged, Attended, Tracks, Doubtful
  <2>3. QED BY <2>1, <2>2
<1>3. ASSUME NEW t \in Senders, Starts(t) PROVE IncidentsPaged' /\ Attended'
  <2>1. sending[t].alarm = NoAlarm
    BY <1>3 DEF Starts, Busy, SendersOnDuty
  <2>2. /\ \A u \in Senders \ {t} : sending'[u] = sending[u]
        /\ sending'[t].reached = FALSE
        /\ crossed \subseteq crossed' /\ UNCHANGED <<tracked, incidents, failed>>
    BY <1>1, <1>3 DEF Starts, Send
  <2>3. incidents \subseteq Alarms
    BY DEF TypeOK
  <2>4. IncidentsPaged'
    BY <2>2 DEF IncidentsPaged
  <2>5. Attended'
    BY <2>1, <2>2, <2>3, AlarmsAssumption DEF Attended, Tracks, Doubtful
  <2>6. QED BY <2>4, <2>5
<1>4. ASSUME NEW t \in Senders, Ends(t) PROVE IncidentsPaged' /\ Attended'
  <2>1. PICK e \in Event : e = sending[t]
    BY <1>1
  <2>2. /\ sending'[t] = Idle /\ UNCHANGED <<crossed, incidents>>
        /\ \A u \in Senders \ {t} : sending'[u] = sending[u]
        /\ tracked \ {e.alarm} \subseteq tracked'
        /\ failed \ {e.alarm} \subseteq failed'
        /\ e.alarm \in Alarms =>
              \/ e.alarm \in failed'
              \/ e.action = "trigger" /\ e.alarm \in tracked'
              \/ e.action = "resolve" /\ e.reached
    BY <1>1, <1>4, <2>1 DEF Ends
  <2>3. IncidentsPaged'
    BY <2>2, IdleIsAnEvent DEF IncidentsPaged
  <2>4. ASSUME NEW a \in incidents, a \notin failed', a \notin crossed
        PROVE  Tracks(a)'
    <3>1. a \in Alarms
      BY DEF TypeOK
    <3>2. CASE a = e.alarm
      BY <2>1, <2>2, <2>4, <3>1, <3>2 DEF IncidentsPaged, Tracks
    <3>3. CASE a # e.alarm
      BY <2>1, <2>2, <2>4, <3>3 DEF Attended, Tracks, Doubtful
    <3>4. QED BY <3>2, <3>3
  <2>5. QED BY <2>2, <2>3, <2>4 DEF Attended, Doubtful
<1>5. ASSUME NEW t \in Senders, Received(t) PROVE IncidentsPaged' /\ Attended'
  <2>1. PICK e \in Event : e = sending[t]
    BY <1>1
  <2>2. /\ sending'[t] = [e EXCEPT !.reached = TRUE] /\ e.action # "none"
        /\ \A u \in Senders \ {t} : sending'[u] = sending[u]
        /\ incidents' = CASE e.action = "trigger" -> incidents \cup {e.alarm}
                          [] e.action = "resolve" -> incidents \ {e.alarm}
                          [] OTHER -> incidents
        /\ UNCHANGED <<tracked, failed, crossed>>
    BY <1>1, <1>5, <2>1 DEF Received, Busy
  <2>3. sending'[t].alarm = e.alarm /\ sending'[t].action = e.action
    BY <2>1, <2>2 DEF Event
  <2>4. \A a \in incidents' : a \in incidents \/ (a = e.alarm /\ e.action = "trigger")
    BY <2>2
  <2>5. e.action = "trigger" => Pageable(e.alarm) /\ e.alarm \in Alarms
    BY <2>1 DEF SendersOnDuty
  <2>6. ASSUME NEW u \in Senders, sending'[u].action = "resolve", sending'[u].reached
        PROVE  sending'[u].alarm \notin incidents' \ crossed
    <3>1. CASE u = t
      BY <2>2, <2>3, <2>6, <3>1
    <3>2. CASE u # t
      <4>1. sending[u].alarm \notin incidents \ crossed /\ sending[u].alarm \in Alarms
        BY <2>2, <2>6, <3>2 DEF IncidentsPaged, SendersOnDuty
      <4>2. e.alarm = sending[u].alarm => sending[u].alarm \in crossed
        BY <2>1, <3>2, <4>1, AlarmsAssumption DEF CrossingsNoted
      <4>3. QED BY <2>2, <2>4, <3>2, <4>1, <4>2
    <3>3. QED BY <3>1, <3>2
  <2>7. IncidentsPaged'
    BY <2>2, <2>4, <2>5, <2>6 DEF IncidentsPaged
  <2>8. Attended'
    <3>1. \A u \in Senders : sending'[u].alarm = sending[u].alarm
      BY <2>1, <2>2, <2>3
    <3>2. ASSUME NEW a \in incidents' \ Doubtful' PROVE Tracks(a)'
      <4>1. a \in incidents \/ a = sending[t].alarm
        BY <2>1, <2>4
      <4>2. CASE a \in incidents
        BY <2>2, <3>1, <3>2, <4>2 DEF Attended, Tracks, Doubtful
      <4>3. CASE a = sending[t].alarm
        BY <3>1, <4>3 DEF Tracks
      <4>4. QED BY <4>1, <4>2, <4>3
    <3>3. QED BY <3>2 DEF Attended
  <2>9. QED BY <2>7, <2>8
<1>6. ASSUME NEW t \in Senders, Retry(t) PROVE IncidentsPaged' /\ Attended'
  <2>1. \A u \in Senders : /\ sending'[u].action = sending[u].action
                           /\ sending'[u].alarm = sending[u].alarm
                           /\ sending'[u].reached => sending[u].reached
    BY <1>1, <1>6 DEF Retry, Event
  <2>2. UNCHANGED <<tracked, failed, crossed, incidents>>
    BY <1>6 DEF Retry, pdVars
  <2>3. QED BY <2>1, <2>2 DEF IncidentsPaged, Attended, Tracks, Doubtful
<1>7. QED BY <1>2, <1>3, <1>4, <1>5, <1>6, StepShape

LEMMA RouterInvStep == RouterInv /\ [Next]_vars => RouterInv'
<1> SUFFICES ASSUME RouterInv, [Next]_vars PROVE RouterInv'
  OBVIOUS
<1>1. TypeOK /\ SendersOnDuty /\ CrossingsNoted /\ IncidentsPaged /\ Attended
  BY DEF RouterInv, IncidentsAreTracked, Attended, Tracks
<1>2. TypeOK'
  <2>1. CASE UNCHANGED vars
    BY <1>1, <2>1 DEF vars, TypeOK, pollVars, sendVars, pdVars, bounds
  <2>2. QED BY <1>1, <2>1, PollTyped, AnswerTyped, OtherTyped DEF Next
<1>3. SendersOnDuty' /\ CrossingsNoted' /\ IncidentsPaged' /\ Attended'
  BY <1>1, SendersStep, IncidentsStep
<1>4. QED BY <1>2, <1>3 DEF RouterInv, IncidentsAreTracked, Attended, Tracks

\* What the router keeps through every retry, refusal, broken poll and direct call:
\* the types, who sends about what, and which incidents may be open.
THEOREM RouterInvariant == Spec => []RouterInv
<1>1. Init => RouterInv
  <2> SUFFICES ASSUME Init PROVE RouterInv
    OBVIOUS
  <2>1. IncidentsAreTracked
    BY InitTyped DEF IncidentsAreTracked, Init
  <2>2. SendersOnDuty /\ CrossingsNoted /\ IncidentsPaged
    BY IdleIsAnEvent DEF Init, SendersOnDuty, CrossingsNoted, IncidentsPaged, Busy
  <2>3. QED BY <2>1, <2>2 DEF RouterInv
<1>2. RouterInv /\ [Next]_vars => RouterInv'
  BY RouterInvStep
<1>3. QED BY <1>1, <1>2, PTL DEF Spec

\* No incident is orphaned: one that is open belongs to an alarm that is tracked or
\* being sent about, so that a later poll resolves it, unless an event about it was
\* given up or two coroutines sent about it at once.
THEOREM NoIncidentIsOrphaned == Spec => []IncidentsAreTracked
<1>1. RouterInv => IncidentsAreTracked
  BY DEF RouterInv
<1>2. QED BY <1>1, RouterInvariant, PTL

=============================================================================
