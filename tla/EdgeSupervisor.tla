--------------------------- MODULE EdgeSupervisor ---------------------------
(***************************************************************************)
(* The orchestrator's supervision of the adapters when it runs them as     *)
(* subprocesses (edge/edge_orchestrator.py).                               *)
(* One coroutine per adapter starts the process, looks every second        *)
(* whether it has ended and starts it again, up to max_restarts times.     *)
(* stop() has no await before it ends, so it is one step.                  *)
(***************************************************************************)
EXTENDS Naturals, FiniteSets

CONSTANTS
    Adapters,     \* names under adapters.processes
    MaxRestarts,  \* max_restarts
    MaxExits      \* bound: exits of a process and failures to start one

ASSUME SupervisorBoundsAssumption == MaxRestarts \in Nat /\ MaxExits \in Nat

VARIABLES
    running,    \* _running
    sup,        \* where each adapter's coroutine is
    proc,       \* the process of each adapter
    restarts,   \* restarts, of the coroutine
    exits

supVars == <<running, sup, proc, restarts, exits>>

Alive(n) == proc[n] = "alive"

\* Mutant: the last restart is not made.
SpawnOneLess(n) ==
    /\ sup[n] = "start" /\ running /\ restarts[n] < MaxRestarts
    /\ proc' = [proc EXCEPT ![n] = "alive"]
    /\ sup' = [sup EXCEPT ![n] = "watch"]
    /\ UNCHANGED <<running, restarts, exits>>

\* subprocess.Popen.
Spawn(n) ==
    /\ sup[n] = "start" /\ running /\ restarts[n] <= MaxRestarts
    /\ proc' = [proc EXCEPT ![n] = "alive"]
    /\ sup' = [sup EXCEPT ![n] = "watch"]
    /\ UNCHANGED <<running, restarts, exits>>

\* What follows the end of a process, or an exception in starting it.
Count(n) ==
    /\ restarts' = [restarts EXCEPT ![n] = @ + 1]
    /\ sup' = [sup EXCEPT ![n] = IF restarts[n] + 1 <= MaxRestarts /\ running THEN "wait" ELSE "start"]

SpawnFails(n) ==
    /\ sup[n] = "start" /\ running /\ restarts[n] <= MaxRestarts
    /\ exits < MaxExits /\ exits' = exits + 1
    /\ Count(n)
    /\ UNCHANGED <<running, proc>>

Exit(n) ==
    /\ Alive(n)
    /\ exits < MaxExits /\ exits' = exits + 1
    /\ proc' = [proc EXCEPT ![n] = "dead"]
    /\ UNCHANGED <<running, sup, restarts>>

Notice(n) ==
    /\ sup[n] = "watch" /\ running /\ ~Alive(n)
    /\ Count(n)
    /\ UNCHANGED <<running, proc, exits>>

Waited(n) ==
    /\ sup[n] = "wait"
    /\ sup' = [sup EXCEPT ![n] = "start"]
    /\ UNCHANGED <<running, proc, restarts, exits>>

\* Mutant: the coroutine that wakes up after stop() starts the process once more.
RespawnAfterStop(n) ==
    /\ \/ sup[n] = "watch" /\ ~running
       \/ sup[n] = "start" /\ (~running \/ restarts[n] > MaxRestarts)
    /\ sup' = [sup EXCEPT ![n] = "done"]
    /\ proc' = [proc EXCEPT ![n] = IF sup[n] = "start" /\ restarts[n] <= MaxRestarts
                                   THEN "alive" ELSE "dead"]
    /\ UNCHANGED <<running, restarts, exits>>

\* The coroutine ends: terminate() after stop(), or no restart is left.
Finish(n) ==
    /\ \/ sup[n] = "watch" /\ ~running
       \/ sup[n] = "start" /\ (~running \/ restarts[n] > MaxRestarts)
    /\ sup' = [sup EXCEPT ![n] = "done"]
    /\ proc' = [proc EXCEPT ![n] = "dead"]
    /\ UNCHANGED <<running, restarts, exits>>

\* stop(): every process is terminated, or killed after ten seconds.
Stop ==
    /\ running
    /\ running' = FALSE
    /\ proc' = [n \in Adapters |-> "dead"]
    /\ UNCHANGED <<sup, restarts, exits>>

SupInit ==
    /\ running = TRUE
    /\ sup = [n \in Adapters |-> "start"] /\ proc = [n \in Adapters |-> "dead"]
    /\ restarts = [n \in Adapters |-> 0]
    /\ exits = 0

-----------------------------------------------------------------------------
\* Every variable keeps its type.
SupTypeOK ==
    /\ running \in BOOLEAN
    /\ sup \in [Adapters -> {"start", "watch", "wait", "done"}]
    /\ proc \in [Adapters -> {"alive", "dead"}]
    /\ restarts \in [Adapters -> 0..MaxRestarts + 1]
    /\ exits \in 0..MaxExits

=============================================================================
