----------------------------- MODULE RabbitSession -----------------------------
(***************************************************************************)
(* The RabbitMQ session (console/rabbitmq.go): one connection, a channel   *)
(* per queue name, monitors that wait for the connection to close, and the *)
(* goroutine that dials again and opens the channels anew.  Connections    *)
(* are numbered as they are made; all but the last, s.Conn, are closed.    *)
(*                                                                         *)
(* The client library is modelled by what the code sees of it: an error    *)
(* closes a connection and reaches the receivers registered by then; a     *)
(* local Close, or registering on a closed connection, closes the receiver *)
(* and reads as nil.                                                       *)
(***************************************************************************)
EXTENDS Integers, FiniteSets

CONSTANTS
    Queues,      \* the queue names (config: RABBITMQ_QUEUE)
    MaxConn,     \* bound: connections made
    MaxLosses,   \* bound: connections that break
    MaxFaults    \* bound: channels that cannot be opened or declared anew

ASSUME SessionAssumption == /\ MaxConn \in Nat \ {0}
                            /\ MaxLosses \in Nat /\ MaxFaults \in Nat

Conns == 1..MaxConn

VARIABLES
    conn,       \* s.Conn: the number of the last connection
    isOpen,     \* whether it is open
    chan,       \* s.Channels: the connection of each queue's channel, 0: not in the map
    reconnect,  \* s.Reconnect, a channel of capacity one: whether it holds a signal
    mon,        \* mon[c]: the monitor started with connection c
    watch,      \* watch[c]: the connection it is registered on
    recon,      \* HandleReconnection: "idle", "dial" or "recreate"
    todo,       \* the queues recreateChannels has yet to open
    losses, faults  \* how many there were

sessionVars == <<conn, isOpen, chan, reconnect, mon, watch, recon, todo, losses, faults>>

SessionInit ==
    /\ conn = 1 /\ isOpen = TRUE
    /\ chan = [q \in Queues |-> 1]
    /\ reconnect = FALSE
    /\ mon = [c \in Conns |-> IF c = 1 THEN "register" ELSE "none"]
    /\ watch = [c \in Conns |-> 0]
    /\ recon = "idle" /\ todo = {}
    /\ losses = 0 /\ faults = 0

\* Send passes its checks for this queue.
Usable(q) == chan[q] = conn /\ isOpen

\* What the monitors registered on the last connection read when it closes.
Notified(what) ==
    [c \in Conns |-> IF mon[c] = "wait" /\ watch[c] = conn THEN what ELSE mon[c]]

\* The connection breaks.
ConnLost ==
    /\ isOpen /\ losses < MaxLosses
    /\ isOpen' = FALSE
    /\ mon' = Notified("error")
    /\ losses' = losses + 1
    /\ UNCHANGED <<conn, chan, reconnect, watch, recon, todo, faults>>

-----------------------------------------------------------------------------
\* MonitorConnection.

\* NotifyClose on whatever s.Conn is by now.
Register(c) ==
    /\ mon[c] = "register"
    /\ mon' = [mon EXCEPT ![c] = IF isOpen THEN "wait" ELSE "nil"]
    /\ watch' = [watch EXCEPT ![c] = conn]
    /\ UNCHANGED <<conn, isOpen, chan, reconnect, recon, todo, losses, faults>>

\* Mutant: no signal while a reconnection is in progress.
SignalsWhenIdle(c) ==
    /\ mon[c] = "error"
    /\ reconnect' = (reconnect \/ recon = "idle")
    /\ mon' = [mon EXCEPT ![c] = "register"]
    /\ UNCHANGED <<conn, isOpen, chan, watch, recon, todo, losses, faults>>

\* An error: the signal, dropped when one is pending, and the loop's next round.
Signal(c) ==
    /\ mon[c] = "error"
    /\ reconnect' = TRUE
    /\ mon' = [mon EXCEPT ![c] = "register"]
    /\ UNCHANGED <<conn, isOpen, chan, watch, recon, todo, losses, faults>>

\* nil: a normal close, the monitor ends.
Return(c) ==
    /\ mon[c] = "nil"
    /\ mon' = [mon EXCEPT ![c] = "done"]
    /\ UNCHANGED <<conn, isOpen, chan, reconnect, watch, recon, todo, losses, faults>>

-----------------------------------------------------------------------------
\* HandleReconnection.

TakeSignal ==
    /\ recon = "idle" /\ reconnect
    /\ reconnect' = FALSE
    /\ recon' = "dial"
    /\ UNCHANGED <<conn, isOpen, chan, mon, watch, todo, losses, faults>>

\* Mutant: a dial that leaves the channels of the old connection in the map.
DialKeepsChannels ==
    /\ recon = "dial" /\ conn < MaxConn
    /\ mon' = IF isOpen THEN Notified("nil") ELSE mon
    /\ conn' = conn + 1 /\ isOpen' = TRUE
    /\ recon' = "recreate"
    /\ UNCHANGED <<chan, reconnect, watch, todo, losses, faults>>

\* A dial that succeeds (one that fails is tried again after 5 s): the old
\* connection is closed and recreateChannels empties the map.
Dial ==
    /\ recon = "dial" /\ conn < MaxConn
    /\ mon' = IF isOpen THEN Notified("nil") ELSE mon
    /\ conn' = conn + 1 /\ isOpen' = TRUE
    /\ todo' = {q \in Queues : chan[q] # 0}
    /\ chan' = [q \in Queues |-> 0]
    /\ recon' = "recreate"
    /\ UNCHANGED <<reconnect, watch, losses, faults>>

Recreate(q) ==
    /\ recon = "recreate" /\ q \in todo /\ isOpen
    /\ chan' = [chan EXCEPT ![q] = conn]
    /\ todo' = todo \ {q}
    /\ UNCHANGED <<conn, isOpen, reconnect, mon, watch, recon, losses, faults>>

\* A channel cannot be opened or its queue declared: the connection is closed
\* and dialled again, with the map as far as it got.
RecreateFails ==
    /\ recon = "recreate" /\ todo # {}
    /\ \/ ~isOpen /\ UNCHANGED faults
       \/ isOpen /\ faults < MaxFaults /\ faults' = faults + 1
    /\ mon' = IF isOpen THEN Notified("nil") ELSE mon
    /\ isOpen' = FALSE
    /\ recon' = "dial"
    /\ todo' = {}
    /\ UNCHANGED <<conn, chan, reconnect, watch, losses>>

\* Mutant: no monitor for the new connection.
RecreatedUnwatched ==
    /\ recon = "recreate" /\ todo = {}
    /\ recon' = "idle"
    /\ UNCHANGED <<conn, isOpen, chan, reconnect, mon, watch, todo, losses, faults>>

\* Every queue is back: a monitor for the new connection, and the next signal.
Recreated ==
    /\ recon = "recreate" /\ todo = {}
    /\ mon' = [mon EXCEPT ![conn] = "register"]
    /\ recon' = "idle"
    /\ UNCHANGED <<conn, isOpen, chan, reconnect, watch, todo, losses, faults>>

SessionStep ==
    \/ \E c \in Conns : Register(c) \/ Signal(c) \/ Return(c)
    \/ TakeSignal \/ Dial \/ Recreated \/ RecreateFails
    \/ \E q \in Queues : Recreate(q)

SessionNext == ConnLost \/ SessionStep

-----------------------------------------------------------------------------
\* Properties.

\* Type correctness of the session's variables.
SessionTypeOK ==
    /\ conn \in Conns /\ isOpen \in BOOLEAN
    /\ chan \in [Queues -> 0..MaxConn]
    /\ reconnect \in BOOLEAN
    /\ mon \in [Conns -> {"none", "register", "wait", "error", "nil", "done"}]
    /\ watch \in [Conns -> 0..MaxConn]
    /\ recon \in {"idle", "dial", "recreate"}
    /\ todo \subseteq Queues
    /\ losses \in 0..MaxLosses /\ faults \in 0..MaxFaults

\* Between reconnections no channel of an earlier connection is left in the map,
\* through broken dials, failed declarations and superfluous signals: a queue is
\* usable, or missing, never stale (rabbitmq.go:171,187).
NoStaleChannel ==
    recon = "idle" => \A q \in Queues : chan[q] \in {0, conn}

\* An open connection that is not being replaced has a monitor, or is about to
\* get one (rabbitmq.go:149-150 and the loop at 100).
Watched ==
    isOpen /\ recon = "idle" =>
        \E c \in Conns : mon[c] = "register" \/ (mon[c] = "wait" /\ watch[c] = conn)

\* Between two reconnections the session is one that works or is repaired: no queue is used over
\* an old connection and a break would be noticed (rabbitmq.go:105, 166).
SessionSound == NoStaleChannel /\ Watched
=============================================================================
