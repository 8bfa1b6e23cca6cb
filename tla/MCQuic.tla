------------------------------- MODULE MCQuic --------------------------------
(***************************************************************************)
(* QUIC and HTTP/3 for TLC, part by part. Of the server: the buffer budget *)
(* with two connections and their uploads, the endpoints that share a      *)
(* port, one connection, and one WebTransport session. Of the HTTP/3       *)
(* crate: a connection with a session and its lanes, one with two          *)
(* requests, a request stream, and the peer's control streams. Each is     *)
(* explored on its own: the budget rests in its initial state and the      *)
(* variables of the other parts out of focus hold Nothing. The budget's    *)
(* limit and an endpoint's bytes are multiples of four, as pressure's      *)
(* fractions are.                                                          *)
(***************************************************************************)
EXTENDS BufferBudget, Integers, TLC

CONSTANTS x1, x2, y1, y2, z1

VARIABLES
    focus,
    bound, routed, sockets, queues, flights, held, shardsConns, shardsSent, forgotten,
    connectionAt, holds, left, connectionRequests, worked, tail, stopped, silent, window, quiet, noticed,
    ended,
    plan, routeAt, lane, shutdown, ending, routeCode, routePeer, routeStreams, sink, upload, linger, barren,
    quic, driver, pass, sessionRequests, connects, registry, handles, lanes, own, announced, since,
    messageRole, method, messageSent, declared, msg, half, out, conn,
    controlRole, frameless, controlStreams, floor, critical, controlReader, controlPeer, known, going,
    controlCode, frames, pairs

S == INSTANCE QuicShards WITH
    Clients <- {x1, x2}, Runtimes <- 6, MaxShards <- 4, Budgets <- {14, 22}, Packet <- 1, Kernel <- 1,
    Incoming <- 4, Connections <- 6, QueueDatagrams <- 2, FirstFlights <- 1, HandshakeBound <- 1, Slots <- 1,
    Resends <- 2, conns <- shardsConns, sent <- shardsSent

Q == INSTANCE QuicConnection WITH
    Requests <- {x1, x2}, MaxRequests <- 1, HandshakeBound <- 1, ExchangeBound <- 1, Quiet <- 2, Unasked <- 6,
    Idle <- 3, Backlog <- 0, MaxTail <- 2, MinWindow <- 2, MaxWindow <- 5, Step <- 2, Shrink <- 1,
    at <- connectionAt, requests <- connectionRequests

W == INSTANCE WebTransportRoute WITH
    Streams <- {x1, x2}, MaxLaneStreams <- 1, ExchangeBound <- 1, ConnectionIdle <- 1, IdleBound <- 2,
    Grace <- 1, Lifetime <- 4, VerifyLinger <- 1, RefusalLinger <- 1, at <- routeAt, code <- routeCode,
    peer <- routePeer, streams <- routeStreams

L == INSTANCE Http3Session WITH
    Requests <- {0}, Sessions <- {0, 1}, Lanes <- {x1}, Own <- {z1}, CloseWait <- 1, EarlyWait <- 1,
    Drain <- 2, ResetDeadline <- 1, MaxEarly <- 1, StreamQueue <- 1, MaxDeferred <- 1,
    requests <- sessionRequests

R == INSTANCE Http3Session WITH
    Requests <- {0, 1}, Sessions <- {0, 1}, Lanes <- {}, Own <- {}, CloseWait <- 1, EarlyWait <- 1,
    Drain <- 2, ResetDeadline <- 1, MaxEarly <- 1, StreamQueue <- 1, MaxDeferred <- 1,
    requests <- sessionRequests

M == INSTANCE Http3Message WITH
    Limit <- 1, Connect <- 5, MaxFrames <- 4, MaxLength <- 2, MaxInterim <- 1, role <- messageRole,
    sent <- messageSent

C == INSTANCE Http3Control WITH
    Streams <- {x1, x2}, Floor <- 1, TypeTimeout <- 1, MaxIds <- 2, MaxFrames <- 3, role <- controlRole,
    streams <- controlStreams, reader <- controlReader, peer <- controlPeer, code <- controlCode

shards == <<bound, routed, sockets, queues, flights, held, shardsConns, shardsSent, forgotten>>
connection == <<connectionAt, holds, left, connectionRequests, worked, tail, stopped, silent, window, quiet, noticed,
    ended>>
route == <<plan, routeAt, lane, shutdown, ending, routeCode, routePeer, routeStreams, sink, upload, linger, barren>>
session == <<quic, driver, pass, sessionRequests, connects, registry, handles, lanes, own, announced, since>>
message == <<messageRole, method, messageSent, declared, msg, half, out, conn>>
control == <<controlRole, frameless, controlStreams, floor, critical, controlReader, controlPeer, known, going,
    controlCode, frames, pairs>>

NoShards ==
    /\ bound = "Nothing" /\ routed = "Nothing" /\ sockets = "Nothing" /\ queues = "Nothing"
    /\ flights = "Nothing" /\ held = "Nothing" /\ shardsConns = "Nothing" /\ shardsSent = "Nothing"
    /\ forgotten = "Nothing"

NoConnection ==
    /\ connectionAt = "Nothing" /\ holds = "Nothing" /\ left = "Nothing" /\ connectionRequests = "Nothing"
    /\ worked = "Nothing" /\ tail = "Nothing" /\ stopped = "Nothing" /\ silent = "Nothing"
    /\ window = "Nothing" /\ quiet = "Nothing" /\ noticed = "Nothing" /\ ended = "Nothing"

NoRoute ==
    /\ plan = "Nothing" /\ routeAt = "Nothing" /\ lane = "Nothing" /\ shutdown = "Nothing"
    /\ ending = "Nothing" /\ routeCode = "Nothing" /\ routePeer = "Nothing" /\ routeStreams = "Nothing"
    /\ sink = "Nothing" /\ upload = "Nothing" /\ linger = "Nothing" /\ barren = "Nothing"

NoSession ==
    /\ quic = "Nothing" /\ driver = "Nothing" /\ pass = "Nothing" /\ sessionRequests = "Nothing"
    /\ connects = "Nothing" /\ registry = "Nothing" /\ handles = "Nothing" /\ lanes = "Nothing"
    /\ own = "Nothing" /\ announced = "Nothing" /\ since = "Nothing"

NoMessage ==
    /\ messageRole = "Nothing" /\ method = "Nothing" /\ messageSent = "Nothing" /\ declared = "Nothing"
    /\ msg = "Nothing" /\ half = "Nothing" /\ out = "Nothing" /\ conn = "Nothing"

NoControl ==
    /\ controlRole = "Nothing" /\ frameless = "Nothing" /\ controlStreams = "Nothing" /\ floor = "Nothing"
    /\ critical = "Nothing" /\ controlReader = "Nothing" /\ controlPeer = "Nothing" /\ known = "Nothing"
    /\ going = "Nothing" /\ controlCode = "Nothing" /\ frames = "Nothing" /\ pairs = "Nothing"

MCInit ==
    \/ /\ focus = "budget" /\ Init
       /\ NoShards /\ NoConnection /\ NoRoute /\ NoSession /\ NoMessage /\ NoControl
    \/ /\ focus = "shards" /\ S!Init
       /\ Init /\ NoConnection /\ NoRoute /\ NoSession /\ NoMessage /\ NoControl
    \/ /\ focus = "connection" /\ Q!Init
       /\ Init /\ NoShards /\ NoRoute /\ NoSession /\ NoMessage /\ NoControl
    \/ /\ focus = "route" /\ W!Init
       /\ Init /\ NoShards /\ NoConnection /\ NoSession /\ NoMessage /\ NoControl
    \/ /\ focus = "lanes" /\ L!Init
       /\ Init /\ NoShards /\ NoConnection /\ NoRoute /\ NoMessage /\ NoControl
    \/ /\ focus = "requests" /\ R!Init
       /\ Init /\ NoShards /\ NoConnection /\ NoRoute /\ NoMessage /\ NoControl
    \/ /\ focus = "message" /\ M!Init
       /\ Init /\ NoShards /\ NoConnection /\ NoRoute /\ NoSession /\ NoControl
    \/ /\ focus = "control" /\ C!Init
       /\ Init /\ NoShards /\ NoConnection /\ NoRoute /\ NoSession /\ NoMessage

MCNext ==
    \/ focus = "budget" /\ Next /\ UNCHANGED <<focus, shards, connection, route, session, message, control>>
    \/ focus = "shards" /\ S!Next /\ UNCHANGED <<focus, vars, connection, route, session, message, control>>
    \/ focus = "connection" /\ Q!Next /\ UNCHANGED <<focus, vars, shards, route, session, message, control>>
    \/ focus = "route" /\ W!Next /\ UNCHANGED <<focus, vars, shards, connection, session, message, control>>
    \/ focus = "lanes" /\ L!Next /\ UNCHANGED <<focus, vars, shards, connection, route, message, control>>
    \/ focus = "requests" /\ R!Next /\ UNCHANGED <<focus, vars, shards, connection, route, message, control>>
    \/ focus = "message" /\ M!Next /\ UNCHANGED <<focus, vars, shards, connection, route, session, control>>
    \/ focus = "control" /\ C!Next /\ UNCHANGED <<focus, vars, shards, connection, route, session, message>>

MCvars == <<focus, vars, shards, connection, route, session, message, control>>

MCSpec == MCInit /\ [][MCNext]_MCvars

Symmetry == Permutations({x1, x2}) \union Permutations({y1, y2})

\* No pressure is read too high: see PressureNeverHigh and PressureBounded of
\* BufferBudget.  The endpoints fit the budget and a client's packets reach one: see
\* EndpointsCounted, FlightsStayTogether and NamedReachOwner of QuicShards.
EndpointsFit ==
    /\ focus = "budget" => PressureNeverHigh /\ PressureBounded
    /\ focus = "shards" => S!EndpointsCounted /\ S!FlightsStayTogether /\ S!NamedReachOwner

\* A connection without work is retired, then closed, and one with work is not;
\* a session without traffic ends: see QuietEnds, ForgottenRetired and
\* HoldsReturned of QuicConnection, and SessionCarries of WebTransportRoute.
QuietEnds ==
    /\ focus = "connection" => Q!QuietEnds /\ Q!ForgottenRetired /\ Q!HoldsReturned
    /\ focus = "route" => W!SessionCarries

\* Nothing of a connection outlives it, the last CLOSE is heard, every lane has a
\* taker, and the driver is never left asleep with work, nor past its drain; a
\* message is read as its frames say, whatever chunks it comes in, and the control
\* streams as the protocol says: see NothingOutlives, CloseHeard, LanesRouted,
\* NeverUnwoken and DrainBounds of Http3Session, ReadExactly of Http3Message and
\* ControlSound of Http3Control.
SessionsSettle ==
    /\ focus = "lanes" => L!NothingOutlives /\ L!CloseHeard /\ L!LanesRouted /\ L!NeverUnwoken /\ L!DrainBounds
    /\ focus = "requests" => R!NothingOutlives /\ R!CloseHeard /\ R!NeverUnwoken /\ R!DrainBounds
    /\ focus = "message" => M!ReadExactly
    /\ focus = "control" => C!ControlSound

\* GOAWAYs fall, refuse what they say, and a session's end stands; a lane's first
\* ending stands and is the one its peer is told: see EndingsStand of Http3Session
\* and EndingTold of WebTransportRoute.
EndingsStand ==
    [][/\ focus = "lanes" => L!EndingsStand
       /\ focus = "requests" => R!EndingsStand
       /\ focus = "route" => W!EndingTold]_MCvars
==============================================================================
