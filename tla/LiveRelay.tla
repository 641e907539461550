------------------------------ MODULE LiveRelay ------------------------------
(***************************************************************************)
(* The WebSocket endpoints of the API (platform/api/routes/websockets.py): *)
(* one coroutine per socket subscribes to a Redis channel, filters what    *)
(* comes and sends it on.  It never reads from the socket, so that it      *)
(* learns of a client that left only from a send that fails.               *)
(*                                                                         *)
(* An event is the sensor it is about; events of one sensor that wait for  *)
(* a coroutine count once, and it takes what waits in one turn.            *)
(***************************************************************************)
EXTENDS FiniteSets, Naturals

CONSTANTS
    Events,       \* what is published
    Clients,      \* sockets
    Subscribed,   \* the events of each socket's channel
    Wanted,       \* those of them its filter lets through
    MaxSessions   \* bound: connections of a client

ASSUME RelayAssumption ==
    /\ Subscribed \in [Clients -> SUBSET Events] /\ Wanted \in [Clients -> SUBSET Events]
    /\ MaxSessions \in Nat

VARIABLES
    open,       \* the client is at the other end
    relay,      \* its coroutine is subscribed
    inbox,      \* what Redis handed it
    seen,       \* what the client was sent in this session
    sessions

relayVars == <<open, relay, inbox, seen, sessions>>

\* websocket.accept and pubsub.subscribe.
Open(c) ==
    /\ ~open[c] /\ ~relay[c] /\ sessions[c] < MaxSessions
    /\ open' = [open EXCEPT ![c] = TRUE]
    /\ relay' = [relay EXCEPT ![c] = TRUE]
    /\ inbox' = [inbox EXCEPT ![c] = {}]
    /\ seen' = [seen EXCEPT ![c] = {}]
    /\ sessions' = [sessions EXCEPT ![c] = @ + 1]

Leave(c) ==
    /\ open[c]
    /\ open' = [open EXCEPT ![c] = FALSE]
    /\ UNCHANGED <<relay, inbox, seen, sessions>>

\* unsubscribe, in the finally of every way out.
Unsubscribe(c) ==
    /\ relay' = [relay EXCEPT ![c] = FALSE]
    /\ inbox' = [inbox EXCEPT ![c] = {}]

\* Mutant: a failed send is passed over and the loop goes on.
ForwardAnyway(c) ==
    /\ relay[c] /\ inbox[c] # {}
    /\ seen' = IF open[c] THEN [seen EXCEPT ![c] = @ \cup (inbox[c] \cap Wanted[c])] ELSE seen
    /\ inbox' = [inbox EXCEPT ![c] = {}]
    /\ UNCHANGED <<open, relay, sessions>>

\* What the filter holds back is dropped without a look at the socket.
Forward(c) ==
    /\ relay[c] /\ inbox[c] # {}
    /\ IF inbox[c] \cap Wanted[c] = {} \/ open[c]
       THEN /\ seen' = [seen EXCEPT ![c] = @ \cup (inbox[c] \cap Wanted[c])]
            /\ inbox' = [inbox EXCEPT ![c] = {}]
            /\ UNCHANGED relay
       ELSE Unsubscribe(c) /\ UNCHANGED seen
    /\ UNCHANGED <<open, sessions>>

\* Redis hands an event to the subscribers there are.
Deliver(e) ==
    /\ inbox' = [c \in Clients |-> IF relay[c] /\ e \in Subscribed[c] THEN inbox[c] \cup {e}
                                   ELSE inbox[c]]
    /\ UNCHANGED <<open, relay, seen, sessions>>

\* A lost Redis connection ends every coroutine and closes its socket.
Sever ==
    /\ open' = [c \in Clients |-> open[c] /\ ~relay[c]]
    /\ relay' = [c \in Clients |-> FALSE]
    /\ inbox' = [c \in Clients |-> {}]
    /\ UNCHANGED <<seen, sessions>>

RelayInit ==
    /\ open = [c \in Clients |-> FALSE] /\ relay = open
    /\ inbox = [c \in Clients |-> {}] /\ seen = inbox
    /\ sessions = [c \in Clients |-> 0]

RelayTypeOK ==
    /\ open \in [Clients -> BOOLEAN] /\ relay \in [Clients -> BOOLEAN]
    /\ inbox \in [Clients -> SUBSET Events] /\ seen \in [Clients -> SUBSET Events]
    /\ sessions \in [Clients -> 0..MaxSessions]

\* The filter of /ws/alarms: a priority nobody knows counts as P3, as does no minimum.
Level(p) == IF p \in {"P0", "P1", "P2"} THEN (CASE p = "P0" -> 0 [] p = "P1" -> 1 [] OTHER -> 2)
            ELSE 3
AlarmPasses(block, wantedBlock, priority, minimum) ==
    /\ wantedBlock \in {"any", block}
    /\ Level(priority) <= Level(minimum)

=============================================================================
