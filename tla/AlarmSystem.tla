----------------------------- MODULE AlarmSystem -----------------------------
(***************************************************************************)
(* The alarm engine together with the REST API's alarm routes              *)
(* (platform/api/routes/alarms.py).  The API is a process of its own: an   *)
(* operator's request reads the newest matching row of table alarms and,   *)
(* awaits later, writes the new state into that row by its id.  The engine *)
(* is not told, and its own writes know nothing of the API's: the only     *)
(* state the two share is the table.                                       *)
(***************************************************************************)
EXTENDS AlarmEngine

CONSTANT Callers   \* concurrent requests of operators

VARIABLE calls     \* the row each request is about to write, and what

sysVars == <<vars, calls>>

NoCall == [id |-> None, state |-> "none", until |-> None]

\* ORDER BY raised_at DESC LIMIT 1, among the rows of a sensor in certain states.
Newest(s, states) ==
    LET found == {k \in RowIds : rows[k].sensor = s /\ rows[k].state \in states}
    IN  {k \in found : \A j \in found : rows[j].raisedAt <= rows[k].raisedAt}

\* Mutant: an acknowledged alarm can be acknowledged again.
ReadAgain(c, s) ==
    /\ calls[c] = NoCall
    /\ \E k \in Newest(s, {"ACTIVE", "ACKED", "RTN_UNACK"}) :
           calls' = [calls EXCEPT ![c] =
                       [id |-> k, until |-> None,
                        state |-> IF rows[k].state = "ACTIVE" THEN "ACKED" ELSE "CLEARED"]]
    /\ UNCHANGED vars

\* Without a row the request ends with 404.
ReadToAcknowledge(c, s) ==
    /\ calls[c] = NoCall
    /\ \E k \in Newest(s, {"ACTIVE", "RTN_UNACK"}) :
           calls' = [calls EXCEPT ![c] =
                       [id |-> k, until |-> None,
                        state |-> IF rows[k].state = "ACTIVE" THEN "ACKED" ELSE "CLEARED"]]
    /\ UNCHANGED vars

ReadToShelve(c, s, d) ==
    /\ calls[c] = NoCall
    /\ \E k \in Newest(s, {"ACTIVE", "ACKED", "RTN_UNACK"}) :
           calls' = [calls EXCEPT ![c] =
                       [id |-> k, state |-> "SHELVED",
                        until |-> now + (IF d > MaxShelve THEN MaxShelve ELSE d)]]
    /\ UNCHANGED vars

\* UPDATE alarms ... WHERE id = :id, whatever the row says by now.
Answer(c) ==
    /\ calls[c] # NoCall
    /\ rows' = [rows EXCEPT ![calls[c].id] =
                  IF calls[c].state = "SHELVED"
                  THEN [@ EXCEPT !.state = "SHELVED", !.until = calls[c].until]
                  ELSE [@ EXCEPT !.state = calls[c].state, !.acked = TRUE]]
    /\ calls' = [calls EXCEPT ![c] = NoCall]
    /\ UNCHANGED <<memVars, taskVars, lastId, envVars>>

\* A request that fails before its commit leaves no trace.
RollBack(c) ==
    /\ calls[c] # NoCall
    /\ calls' = [calls EXCEPT ![c] = NoCall]
    /\ UNCHANGED vars

SysInit == Init /\ calls = [c \in Callers |-> NoCall]

Request ==
    \E c \in Callers, s \in Sensors :
        \/ ReadToAcknowledge(c, s)
        \/ \E d \in ShelveFor : ReadToShelve(c, s, d)

SysNext ==
    \/ Next /\ UNCHANGED calls
    \/ Request
    \/ \E c \in Callers : Answer(c) \/ RollBack(c)

SysSpec == SysInit /\ [][SysNext]_sysVars

-----------------------------------------------------------------------------
\* An acknowledgement closes no alarm that is in alarm: as long as the engine runs
\* without a fault, the row of an alarm it holds as active or acknowledged is
\* CLEARED only while the new row of that very alarm is on its way, however many
\* requests race (alarms.py chooses CLEARED from a state it read awaits ago).  A request
\* that writes has a row to write into.
ClosesNoActiveAlarm ==
    /\ \A c \in Callers : calls[c] # NoCall => calls[c].id \in 1..lastId
    /\ FaultFree =>
         \A r \in Refs :
             (/\ alarms[r].id # None /\ alarms[r].state \in Alarming
              /\ rows[alarms[r].id].state = "CLEARED")
             => pending["sig"].kind = "insert" /\ obj["sig"] = r

=============================================================================
