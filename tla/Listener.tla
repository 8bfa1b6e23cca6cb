------------------------------ MODULE Listener ------------------------------
(***************************************************************************)
(* The server's listeners (rust/server/src/transport/accept.rs) and the    *)
(* serving loop over them (runtime/mod.rs): each accepts connections under *)
(* holds of the server's quota, backs off from failed accepts, and at      *)
(* shutdown, or when its socket breaks, drains its connections within a    *)
(* grace and aborts the rest.  A QUIC endpoint then closes what is left    *)
(* and waits a moment for the closes to be sent (transport/quic.rs).       *)
(***************************************************************************)
EXTENDS Integers, FiniteSets

CONSTANTS
    Listeners,
    Connections,    \* what may connect to a listener
    Capacity,       \* connections the quota holds
    RetryFirst, RetryLast,
    Grace,          \* SHUTDOWN_GRACE
    Quic,           \* the listeners that are QUIC endpoints
    CloseFlush      \* CLOSE_FLUSH

\* What the code gives them: a finite set of sockets, and durations.
ListenerAssumption ==
    /\ IsFiniteSet(Listeners) /\ IsFiniteSet(Connections)
    /\ Grace \in Nat /\ CloseFlush \in Nat /\ RetryFirst \in Nat /\ RetryLast \in Nat

VARIABLES
    listener,   \* [pc, delay, left]: its place, retry delay, and time left to it
    running,    \* the connections each listener's JoinSet runs
    holds,      \* Quota: holds in use
    server,     \* "Serving", "Stopping", "Stopped"
    failed,     \* serve's result is an error
    since,      \* time since the shutdown, -1 before it
    broken      \* time since a listener's socket broke, -1 before it

vars == <<listener, running, holds, server, failed, since, broken>>

Off == -1
Older(age, most) == IF age = Off \/ age >= most THEN age ELSE age + 1
Sooner(left) == IF left > 0 THEN left - 1 ELSE left

Init ==
    /\ listener = [l \in Listeners |-> [pc |-> "Accepting", delay |-> 0, left |-> Off]]
    /\ running = [l \in Listeners |-> {}]
    /\ holds = 0 /\ server = "Serving" /\ failed = FALSE /\ since = Off /\ broken = Off

Shutdown == server # "Serving"

\* select! is biased: once shutdown is cancelled the loop accepts nothing.
Accepting(l) == listener[l].pc = "Accepting" /\ ~Shutdown

\* A connection is served under its hold, or dropped without one.
Accept(l, c) ==
    /\ Accepting(l) /\ c \notin running[l]
    /\ listener' = [listener EXCEPT ![l].delay = 0]
    /\ IF holds < Capacity
       THEN /\ holds' = holds + 1
            /\ running' = [running EXCEPT ![l] = @ \union {c}]
       ELSE UNCHANGED <<holds, running>>
    /\ UNCHANGED <<server, failed, since, broken>>

Clamp(delay) ==
    IF delay < RetryFirst THEN RetryFirst ELSE IF delay > RetryLast THEN RetryLast ELSE delay

AcceptFails(l) ==
    /\ Accepting(l)
    /\ LET delay == Clamp(2 * listener[l].delay)
       IN listener' = [listener EXCEPT ![l] = [pc |-> "Retrying", delay |-> delay, left |-> delay]]
    /\ UNCHANGED <<running, holds, server, failed, since, broken>>

Retry(l) ==
    /\ listener[l].pc = "Retrying" /\ listener[l].left = 0 /\ ~Shutdown
    /\ listener' = [listener EXCEPT ![l].pc = "Accepting", ![l].left = Off]
    /\ UNCHANGED <<running, holds, server, failed, since, broken>>

Drains(l) == listener' = [listener EXCEPT ![l].pc = "Draining", ![l].left = Grace]

\* InvalidInput: the socket no longer listens.
Break(l) ==
    /\ Accepting(l) /\ Drains(l) /\ failed' = TRUE
    /\ broken' = IF broken = Off THEN 0 ELSE broken
    /\ UNCHANGED <<running, holds, server, since>>

StopAccepting(l) ==
    /\ Shutdown /\ listener[l].pc \in {"Accepting", "Retrying"} /\ Drains(l)
    /\ UNCHANGED <<running, holds, server, failed, since, broken>>

\* A connection's task ends, in a panic too, and drops its hold.
ConnectionEnds(l, c) ==
    /\ c \in running[l]
    /\ running' = [running EXCEPT ![l] = @ \ {c}]
    /\ holds' = holds - 1
    /\ UNCHANGED <<listener, server, failed, since, broken>>

\* closer(): a QUIC endpoint waits for its closes to leave, a TCP listener for nothing.
Flush(l) == IF l \in Quic THEN CloseFlush ELSE 0

\* The drain ends with the last connection, or after the grace with an abort.
DrainEnds(l) ==
    /\ listener[l].pc = "Draining" /\ (running[l] = {} \/ listener[l].left = 0)
    /\ listener' = [listener EXCEPT ![l].pc = "Closing", ![l].left = Flush(l)]
    /\ holds' = holds - Cardinality(running[l])
    /\ running' = [running EXCEPT ![l] = {}]
    /\ UNCHANGED <<server, failed, since, broken>>

\* The closes are sent, or their time is over; until then the listener waits.
CloseEnds(l) ==
    /\ listener[l].pc = "Closing"
    /\ listener' = [listener EXCEPT ![l].pc = "Done", ![l].left = Off]
    /\ UNCHANGED <<running, holds, server, failed, since, broken>>

\* Server::serve: a stop, or the first listener to end, cancels the rest.
Stop ==
    /\ server = "Serving" /\ server' = "Stopping" /\ since' = 0
    /\ UNCHANGED <<listener, running, holds, failed, broken>>

ListenerEnded ==
    /\ \E l \in Listeners : listener[l].pc = "Done"
    /\ server = "Serving" /\ server' = "Stopping" /\ since' = 0 /\ failed' = TRUE
    /\ UNCHANGED <<listener, running, holds, broken>>

Stopped ==
    /\ server = "Stopping" /\ \A l \in Listeners : listener[l].pc = "Done"
    /\ server' = "Stopped"
    /\ UNCHANGED <<listener, running, holds, failed, since, broken>>

Due ==
    \/ \E l \in Listeners : listener[l].left = 0
    \/ Shutdown /\ \E l \in Listeners : listener[l].pc \in {"Accepting", "Retrying"}
    \/ server # "Stopped" /\ \E l \in Listeners : listener[l].pc = "Draining" /\ running[l] = {}
    \/ server = "Serving" /\ \E l \in Listeners : listener[l].pc = "Done"
    \/ server = "Stopping" /\ \A l \in Listeners : listener[l].pc = "Done"

\* How long a listener takes from its last accept to its end.
StopBound == Grace + CloseFlush

Tick ==
    /\ server # "Stopped" /\ ~Due
    /\ listener' = [l \in Listeners |-> [listener[l] EXCEPT !.left = Sooner(@)]]
    /\ since' = Older(since, StopBound + 1) /\ broken' = Older(broken, 2 * StopBound + 1)
    /\ UNCHANGED <<running, holds, server, failed>>

Next ==
    \/ \E l \in Listeners :
          \/ AcceptFails(l) \/ Retry(l) \/ Break(l) \/ StopAccepting(l)
          \/ DrainEnds(l) \/ CloseEnds(l)
          \/ \E c \in Connections : Accept(l, c) \/ ConnectionEnds(l, c)
    \/ Stop \/ ListenerEnded \/ Stopped \/ Tick

Spec == Init /\ [][Next]_vars

\* The server stops within the grace and the closer's wait of a shutdown, and
\* within twice that of a socket that broke, whose listener ends before the others
\* hear of it.  By then no connection runs and every hold is back; until then each
\* running connection, and nothing else, has one.
StopsInTime ==
    /\ server # "Stopped" => since <= StopBound /\ broken <= 2 * StopBound
    /\ holds = Cardinality({p \in Listeners \X Connections : p[2] \in running[p[1]]})
    /\ server = "Stopped" => holds = 0 /\ (broken # Off => failed)
==============================================================================
