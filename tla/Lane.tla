-------------------------------- MODULE Lane --------------------------------
(***************************************************************************)
(* The time bounds of an admitted request (rust/server/src/lane.rs) and of *)
(* its reply (transport/body.rs), as the transports use them.  A timer     *)
(* holds the time it has left, Off when there is none; `shutdown` is the   *)
(* time since the server's shutdown, Off before it.                        *)
(***************************************************************************)
EXTENDS Integers

CONSTANTS
    ExchangeBound,  \* EXCHANGE_BOUND
    ConnectionIdle, \* CONNECTION_IDLE
    IdleBound,      \* IDLE_BOUND
    Grace,          \* SHUTDOWN_GRACE
    Lifetime        \* the operation lifetime of a lane

ASSUME LaneAssumption ==
    /\ ExchangeBound \in Nat /\ ConnectionIdle \in Nat /\ IdleBound \in Nat
    /\ Grace \in Nat /\ Lifetime \in Nat

Off == -1
Older(age, most) == IF age = Off \/ age >= most THEN age ELSE age + 1
Sooner(left) == IF left > 0 THEN left - 1 ELSE left

\* `on` while a clone of the lane lives.
NoLane == [on |-> FALSE, left |-> Off, idle |-> Off, revoked |-> FALSE]

Start == [on |-> TRUE, left |-> Lifetime, idle |-> IdleBound, revoked |-> FALSE]

Moved(l) == [l EXCEPT !.idle = IF l.on THEN IdleBound ELSE Off]

\* due: revocation, shutdown or the lifetime, seen without waiting.
LaneDue(l, shutdown) == l.on /\ (l.revoked \/ shutdown # Off \/ l.left = 0)

\* ended: what `due` sees and the idle bound, waited for.
LaneEnded(l, shutdown) == LaneDue(l, shutdown) \/ (l.on /\ l.idle = 0)

\* The endings an upload is told as a refusal; the others abort it.
Refuses(l, shutdown) == l.revoked \/ (shutdown = Off /\ l.left # 0)

\* ReplyBound: check before the next data of a body, and while blocked.
ReplyDue(l, until, shutdown) == IF l.on THEN LaneDue(l, shutdown) ELSE until = 0

ReplyEnded(l, until, shutdown) == IF l.on THEN LaneEnded(l, shutdown) ELSE until = 0

Elapsed(l) == [l EXCEPT !.left = Sooner(@), !.idle = Sooner(@)]
==============================================================================
