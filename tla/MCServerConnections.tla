------------------------- MODULE MCServerConnections -------------------------
(***************************************************************************)
(* The server's connections and listeners for TLC, and what guards them:   *)
(* an HTTP/2 connection with two streams, an HTTP/1.1 connection, two      *)
(* listeners, the certificates and their reload, and the table of          *)
(* attempts. Each is explored on its own: out of focus the HTTP/2          *)
(* connection and the certificates rest, and the variables of the other    *)
(* parts hold Nothing.                                                     *)
(***************************************************************************)
EXTENDS Http2Connection, Certificates, TLC

CONSTANTS s1, s2, l1, l2

VARIABLES
    focus,
    io, deadline, started, request, lane, until, pipelined, h1Shutdown, stopping, asked, rested, held,
    listener, running, holds, server, failed, since, broken,
    now, table, ceiling, allowed

H1 == INSTANCE Http1Connection WITH
    ExchangeBound <- 2, ConnectionIdle <- 2, IdleBound <- 3, Grace <- 1, Lifetime <- 4, CloseBound <- 1,
    shutdown <- h1Shutdown

L == INSTANCE Listener WITH
    Listeners <- {l1, l2}, Connections <- {s1, s2}, Capacity <- 3, RetryFirst <- 1, RetryLast <- 3, Grace <- 2,
    Quic <- {l1}, CloseFlush <- 1

ASSUME ListenersFit == L!ListenerAssumption

A == INSTANCE Attempts WITH
    Clients <- {<<"v4">>, <<"n1", "w">>, <<"n2", "w">>}, Limit <- 1, MaxKeys <- 3, Ceiling <- 1, Window <- 2,
    MaxTime <- 4

h1 == <<io, deadline, started, request, lane, until, pipelined, h1Shutdown, stopping, asked, rested, held>>
accepts == <<listener, running, holds, server, failed, since, broken>>
attempts == <<now, table, ceiling, allowed>>

NoH1 ==
    /\ io = "Nothing" /\ deadline = "Nothing" /\ started = "Nothing" /\ request = "Nothing"
    /\ lane = "Nothing" /\ until = "Nothing" /\ pipelined = "Nothing" /\ h1Shutdown = "Nothing"
    /\ stopping = "Nothing" /\ asked = "Nothing" /\ rested = "Nothing" /\ held = "Nothing"

NoAccepts ==
    /\ listener = "Nothing" /\ running = "Nothing" /\ holds = "Nothing" /\ server = "Nothing"
    /\ failed = "Nothing" /\ since = "Nothing" /\ broken = "Nothing"

NoAttempts ==
    /\ now = "Nothing" /\ table = "Nothing" /\ ceiling = "Nothing" /\ allowed = "Nothing"

MCInit ==
    /\ Init /\ CertificatesInit
    /\ \/ focus \in {"http2", "tls"} /\ NoH1 /\ NoAccepts /\ NoAttempts
       \/ focus = "http1" /\ H1!Init /\ NoAccepts /\ NoAttempts
       \/ focus = "listeners" /\ L!Init /\ NoH1 /\ NoAttempts
       \/ focus = "attempts" /\ A!Init /\ NoH1 /\ NoAccepts

MCNext ==
    \/ focus = "http2" /\ Next /\ UNCHANGED <<focus, h1, accepts, pair, attempts>>
    \/ focus = "http1" /\ H1!Next /\ UNCHANGED <<focus, vars, accepts, pair, attempts>>
    \/ focus = "listeners" /\ L!Next /\ UNCHANGED <<focus, vars, h1, pair, attempts>>
    \/ focus = "tls" /\ CertificatesNext /\ UNCHANGED <<focus, vars, h1, accepts, attempts>>
    \/ focus = "attempts" /\ A!Next /\ UNCHANGED <<focus, vars, h1, accepts, pair>>

MCvars == <<focus, vars, h1, accepts, pair, attempts>>

MCSpec == MCInit /\ [][MCNext]_MCvars

Symmetry == Permutations({s1, s2})

\* An HTTP/1.1 connection ends in time, whatever its peer does, and the server
\* stops in time with every hold returned: see PeerBounded of Http1Connection and
\* StopsInTime of Listener.
ConnectionsBounded ==
    /\ focus = "http1" => H1!PeerBounded
    /\ focus = "listeners" => L!StopsInTime

\* A client's attempts stay within its share, and none is refused for another's old
\* ones: see SharesKept and RefusedForCause of Attempts.
AttemptsBounded == focus = "attempts" => A!SharesKept /\ A!RefusedForCause
==============================================================================
