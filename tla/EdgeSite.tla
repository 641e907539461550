------------------------------- MODULE EdgeSite -------------------------------
(***************************************************************************)
(* The edge of a site: some of the field adapters as subprocesses of the   *)
(* orchestrator (adapters.processes of edge-config.yaml), the others in    *)
(* containers of their own that keep running.  Starting a process boots    *)
(* its adapter; an exit or stop() takes the adapter's memory away and      *)
(* leaves the broker's messages.                                           *)
(***************************************************************************)
EXTENDS FieldAdapters, EdgeSupervisor

siteVars == <<fieldVars, supVars>>

ASSUME SiteAssumption == Adapters \subseteq Kinds

Start(k)     == Spawn(k) /\ Boot(k)
CrashDown(k) == Exit(k) /\ Down(k)

\* The process writes its log to a pipe nobody reads: when the pipe is full, the next
\* write blocks it for good.
Block(k) ==
    /\ Alive(k) /\ life[k] # "stuck"
    /\ life' = [life EXCEPT ![k] = "stuck"]
    /\ UNCHANGED <<linked, at, alarmState, pubVars, envVars, supVars>>

Shutdown ==
    /\ Stop
    /\ life' = [k \in Kinds |-> IF k \in Adapters THEN "down" ELSE life[k]]
    /\ UNCHANGED <<linked, at, alarmState, pubVars, envVars>>

Supervise(k) ==
    \/ Start(k)
    \/ (Notice(k) \/ Waited(k) \/ Finish(k)) /\ UNCHANGED fieldVars

SiteInit ==
    /\ FieldInit /\ SupInit
    /\ life = [k \in Kinds |-> IF k \in Adapters THEN "down"
                               ELSE IF k = "modbus" THEN "starting" ELSE "polling"]

SiteNext ==
    \/ FieldStep /\ UNCHANGED supVars
    \/ \E k \in Adapters : \/ Supervise(k) \/ CrashDown(k) \/ Block(k)
                           \/ SpawnFails(k) /\ UNCHANGED fieldVars
    \/ Shutdown

\* The coroutines of the orchestrator take turns, too, and a client's loop reconnects; nobody
\* is obliged to stop the orchestrator, and a process is not obliged to exit.
SiteSpec ==
    /\ SiteInit /\ [][SiteNext]_siteVars
    /\ \A g \in Groups : WF_siteVars(Poll(g) /\ UNCHANGED supVars)
    /\ WF_siteVars(ModbusUp /\ UNCHANGED supVars)
    /\ \A k \in Kinds : WF_siteVars(life[k] # "stuck" /\ SessionBack(k) /\ UNCHANGED supVars)
    /\ \A k \in Adapters : WF_siteVars(Supervise(k))

\* max_restarts is the number of ends and failed starts of its process an adapter survives.
\* A process whose log nobody reads may block.
Kept(k) == life[k] # "stuck" /\ (k \in Adapters => running /\ exits <= MaxRestarts)

\* A value that stays is seen, and an adapter that is kept runs again: if from some time on
\* every device of the adapter answers, the supervisor has restarts left and was not stopped,
\* the process is not blocked and its client is connected to the broker, the retained reading
\* becomes what the point measures, with the quality and the alarm that go with it, whatever
\* was lost before.  The SNMP and BACnet groups begin a cycle again and again, whichever of
\* their devices are silent and with or without the broker.
ReadingsCatchUp ==
    /\ \A p \in Points :
         LET k == AdapterOf(p)
             q == QualityOf(plant[p], Range[p])
             r == [value |-> plant[p], quality |-> q,
                   alarm |-> IF q = Good THEN EvaluateAlarm(plant[p], Limits[p]) ELSE NoPriority]
         IN  <>[](DevicesOf(k) \cap silent = {} /\ Kept(k) /\ Connected(p)) => <>[](topic[p] = r)
    /\ \A g \in Groups :
         KindOf(g) # "modbus" /\ <>[]Kept(KindOf(g)) => []<>(at[g] = 0)

\* No adapter outlives the orchestrator: once stop() has run no process is alive and no
\* coroutine brings one back (the two tests of _running in _start_adapter_process).  An
\* adapter polls only while its process is there.  Checked with the types.
NothingOutlivesStop ==
    /\ FieldTypeOK /\ SupTypeOK
    /\ \A k \in Adapters : Alive(k) <=> life[k] # "down"
    /\ ~running => \A n \in Adapters : ~Alive(n)

=============================================================================
