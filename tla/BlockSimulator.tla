---------------------------- MODULE BlockSimulator ----------------------------
(***************************************************************************)
(* The simulated block the Modbus adapters are run against                 *)
(* (edge/modbus_simulator.py): the event loop advances the thermal model,  *)
(* lets its safety PLC choose the mode and serves the registers, once a    *)
(* second; scenarios act between two updates, and the interactive prompt   *)
(* is a thread that acts at any time.  A thread's assignments that others  *)
(* may come between wait in a queue.                                       *)
(*                                                                         *)
(* Temperatures are classes, with the PLC's limits between them, and of    *)
(* the physics the split of the heat is kept; the servers are under load.  *)
(***************************************************************************)
EXTENDS Naturals, Sequences

CONSTANTS
    RejectDwell,  \* ticks in REJECT before EXPORT is tried (300)
    MixedDwell,   \* ticks in MIXED before a return to EXPORT (180)
    Scenario,     \* what timed events may do: sets of faults and "demand"
    MaxCommands   \* bound: commands at the prompt

ASSUME DwellAssumption ==
    /\ RejectDwell \in Nat /\ MixedDwell \in Nat /\ MaxCommands \in Nat
    /\ Scenario \subseteq {"demand", "leak_zone1", "pump_trip"}

VARIABLES
    mode, timer,
    valves,    \* v_exp_pos and v_rej_pos
    supply,    \* the class of l2_supply_t
    heat,      \* where it went in the last tick, in percent
    demand,    \* host_demand
    faults,    \* _faults
    effects,   \* faults whose effect stands: zone 1 leaks, the standby pump runs
    loop,      \* the update: [at, todo, seen], with the faults it has seen
    prompt,    \* assignments the prompt's thread has still to make
    commands,
    raced,     \* the two threads were between assignments at the same time
    quiet,     \* updates since the prompt last set a mode
    unmet      \* updates since the host's demand ended

plcVars == <<mode, timer, valves, faults, effects>>
obsVars == <<commands, raced, quiet, unmet>>
simVars == <<plcVars, supply, heat, demand, loop, prompt, obsVars>>

ThermalModes  == {"EXPORT", "MIXED", "REJECT", "MAINTENANCE"}
Faults == {"leak_zone1", "pump_trip"}
\* Up to 40, 45 and 52 degrees, and above.
Classes == 1..4
Least(i, j) == IF i < j THEN i ELSE j

-----------------------------------------------------------------------------
(* Assignments.                                                            *)

ValvesFor(m) ==
    CASE m = "EXPORT" -> <<100, 0>> [] m = "REJECT" -> <<0, 100>>
      [] m = "MIXED"  -> <<50, 50>> [] OTHER        -> <<0, 0>>

To(variable, value) == [variable |-> variable, value |-> value]
SetMode(m)    == <<To("mode", m), To("timer", 0), To("v_exp", ValvesFor(m)[1]), To("v_rej", ValvesFor(m)[2])>>
ClearFault(f) == <<To("fault", f), To("effect", f)>>

\* What a variable is after an assignment.
Now(a, variable, same, new) == IF a.variable = variable THEN new ELSE same
Assign(a) ==
    /\ mode'    = Now(a, "mode", mode, a.value)
    /\ timer'   = Now(a, "timer", timer, a.value)
    /\ valves'  = Now(a, "v_exp", Now(a, "v_rej", valves, <<valves[1], a.value>>), <<a.value, valves[2]>>)
    /\ faults'  = Now(a, "fault", faults, faults \ {a.value})
    /\ effects' = Now(a, "effect", effects, effects \ {a.value})

-----------------------------------------------------------------------------
(* One update.                                                             *)

Stands(place) == loop.at = place /\ loop.todo = <<>>
Move(place) == loop' = [loop EXCEPT !.at = place]

Split ==
    CASE mode = "EXPORT" -> [exported |-> 100, rejected |-> 0]
      [] mode = "REJECT" -> [exported |-> 0, rejected |-> 100]
      [] mode = "MIXED"  -> [exported |-> valves[1], rejected |-> 100 - valves[1]]
      [] OTHER           -> [exported |-> 0, rejected |-> 0]

\* tick(), but for what it does about faults: the temperature moves by inertia.
Tick ==
    /\ Stands("sleep")
    /\ timer' = Least(timer + 1, RejectDwell + MixedDwell + 1)
    /\ heat' = Split
    /\ supply' \in {c \in Classes : c <= supply + 1 /\ supply <= c + 1}
    /\ loop' = [loop EXCEPT !.at = "effects", !.seen = faults]
    /\ raced' = (raced \/ prompt # <<>>)
    /\ UNCHANGED <<mode, valves, demand, faults, effects, prompt, commands, quiet, unmet>>

\* The faults that were found injected take effect.
TakeEffect ==
    /\ Stands("effects")
    /\ effects' = effects \cup loop.seen
    /\ loop' = [loop EXCEPT !.at = "auto", !.seen = {}]
    /\ UNCHANGED <<mode, timer, valves, faults, supply, heat, demand, prompt, obsVars>>

Leaking == "leak_zone1" \in effects

\* auto_mode_transitions, when nothing leaks.
ModeByDemand ==
    CASE mode = "REJECT" /\ timer > RejectDwell /\ supply \in {2, 3} /\ demand -> "EXPORT"
      [] mode = "EXPORT" /\ ~demand -> "REJECT"
      [] mode = "EXPORT" /\ demand /\ supply = 4 -> "MIXED"
      [] mode = "MIXED" /\ supply \in {1, 2} /\ timer > MixedDwell -> "EXPORT"
      [] mode = "MIXED" /\ ~(supply \in {1, 2} /\ timer > MixedDwell) /\ ~demand -> "REJECT"
      [] OTHER -> mode

\* Mutant: that it leaks is not asked again when the dwell in REJECT is over.
AutoModeLeaking == IF Leaking /\ mode # "REJECT" THEN "REJECT" ELSE ModeByDemand
AutoMode        == IF Leaking THEN "REJECT" ELSE ModeByDemand

Decide ==
    /\ Stands("auto")
    /\ loop' = [loop EXCEPT !.at = "serve", !.todo = IF AutoMode = mode THEN <<>> ELSE SetMode(AutoMode)]
    /\ UNCHANGED <<plcVars, supply, heat, demand, prompt, obsVars>>

LoopAssigns ==
    /\ loop.todo # <<>>
    /\ Assign(Head(loop.todo))
    /\ loop' = [loop EXCEPT !.todo = Tail(@)]
    /\ UNCHANGED <<supply, heat, demand, prompt, obsVars>>

\* build_register_block, of the registers that follow from what is modelled.
Registers ==
    [mode |-> mode, maintenance |-> mode = "MAINTENANCE", hostValve |-> IF demand THEN 100 ELSE 0,
     billed |-> heat.exported, valves |-> valves, leak |-> Leaking, standby |-> "pump_trip" \in effects]

\* _update_registers: all of them, before a master is answered.
UpdateRegisters ==
    /\ Stands("serve")
    /\ Move("sleep")
    /\ quiet' = Least(quiet + 1, 2)
    /\ unmet' = IF demand THEN 0 ELSE Least(unmet + 1, 2)
    /\ UNCHANGED <<plcVars, supply, heat, demand, prompt, commands, raced>>

-----------------------------------------------------------------------------
(* Scenarios and the prompt.                                               *)

HostTurns == demand' = ~demand /\ unmet' = 0

\* A timed event runs on the event loop.
TimedEvent(e) ==
    /\ Stands("sleep")
    /\ raced' = (raced \/ prompt # <<>>)
    /\ IF e = "demand"
       THEN HostTurns /\ UNCHANGED <<faults, effects>>
       ELSE /\ faults'  = IF e \in faults THEN faults \ {e} ELSE faults \cup {e}
            /\ effects' = effects \ (faults \cap {e})
            /\ UNCHANGED <<demand, unmet>>
    /\ UNCHANGED <<mode, timer, valves, supply, heat, loop, prompt, commands, quiet>>

NewCommand == prompt = <<>> /\ commands < MaxCommands /\ commands' = commands + 1

Command(todo) ==
    /\ NewCommand
    /\ prompt' = todo
    /\ UNCHANGED <<plcVars, supply, heat, demand, loop, raced, quiet, unmet>>

\* host on, host off, and fault: a single assignment.
ToggleDemand ==
    /\ NewCommand /\ HostTurns
    /\ raced' = (raced \/ loop.at # "sleep")
    /\ UNCHANGED <<plcVars, supply, heat, loop, prompt, quiet>>
InjectFault(f) ==
    /\ NewCommand /\ faults' = faults \cup {f}
    /\ raced' = (raced \/ loop.at # "sleep")
    /\ UNCHANGED <<mode, timer, valves, effects, supply, heat, demand, loop, prompt, quiet, unmet>>

PromptAssigns ==
    /\ prompt # <<>>
    /\ Assign(Head(prompt)) /\ prompt' = Tail(prompt)
    /\ raced' = (raced \/ loop.at # "sleep")
    /\ quiet' = IF Head(prompt).variable \in {"fault", "effect"} THEN quiet ELSE 0
    /\ UNCHANGED <<supply, heat, demand, loop, commands, unmet>>

-----------------------------------------------------------------------------
SimInit ==
    /\ mode \in {"EXPORT", "REJECT"} /\ valves = ValvesFor(mode) /\ timer = 0
    /\ supply \in {1, 3} /\ heat = [exported |-> 0, rejected |-> 0]
    /\ demand = TRUE /\ faults = {} /\ effects = {}
    /\ loop = [at |-> "sleep", todo |-> <<>>, seen |-> {}] /\ prompt = <<>>
    /\ commands = 0 /\ raced = FALSE /\ quiet = 0 /\ unmet = 0

SimNext ==
    \/ Tick \/ TakeEffect \/ Decide \/ LoopAssigns \/ UpdateRegisters
    \/ \E e \in Scenario : TimedEvent(e)
    \/ \E m \in ThermalModes : Command(SetMode(m))
    \/ \E f \in Faults : Command(ClearFault(f)) \/ InjectFault(f)
    \/ ToggleDemand \/ PromptAssigns

SimSpec == SimInit /\ [][SimNext]_simVars

-----------------------------------------------------------------------------

\* Whatever is typed when, the registers of a block that leaks say REJECT, unless a mode
\* was set at the prompt since the update before, and a host that has wanted no heat for
\* two updates without a mode set at the prompt is given none.  As long as the prompt does
\* not act in the middle of an update, the valves stand as the mode says and the faults
\* that show are those injected; afterwards valves may stay as another mode wants them,
\* and a leak until its fault is cleared again.
RegistersAreSafe ==
    Stands("serve") =>
        LET served == Registers IN
        /\ served.leak /\ quiet >= 1 => served.mode = "REJECT"
        /\ quiet = 2 /\ unmet = 2 => served.hostValve = 0 /\ served.mode \notin {"EXPORT", "MIXED"}
        /\ ~raced => /\ served.valves = ValvesFor(served.mode)
                     /\ served.standby <=> "pump_trip" \in faults
                     /\ served.leak <=> "leak_zone1" \in faults

===============================================================================
