----------------------------- MODULE QuicShards -----------------------------
(***************************************************************************)
(* The server's QUIC endpoints on one UDP port (transport/quic/endpoint.rs *)
(* and shard.rs): how many the buffer budget covers, how a datagram finds  *)
(* the endpoint that its connection ID names, and how a new connection is  *)
(* steered to the endpoint with the fewest.  A socket receives what the    *)
(* kernel delivers to it and forwards what belongs to another endpoint.    *)
(***************************************************************************)
EXTENDS Integers, Sequences, SequencesExt, FiniteSets, FiniteSetsExt

CONSTANTS
    Clients,            \* each opens one connection, with an ID of its own
    Runtimes, MaxShards,
    Budgets,            \* what the budget may leave the endpoints
    Packet, Kernel, Incoming, Connections,  \* the terms of endpoint_bytes
    QueueDatagrams, FirstFlights, HandshakeBound,
    Slots,              \* the batch a socket receives
    Resends             \* how often a client sends its first packet here

VARIABLES
    bound,      \* Endpoints: [shards, bytes, budget]
    routed,     \* the kernel took the routing program
    sockets,    \* per endpoint what the kernel delivered to it
    queues,     \* per endpoint what others forwarded to it
    flights,    \* per endpoint its recent new connections [id, to, age], oldest first
    held,       \* per endpoint its count of connections
    conns,      \* per client [at, shards]: the endpoints that began a connection for it
    sent,       \* per client [first, from]: first packets sent, and the socket its address hashes to
    forgotten   \* the clients some socket forgot

vars == <<bound, routed, sockets, queues, flights, held, conns, sent, forgotten>>

DivCeil(a, b) == (a + b - 1) \div b

\* endpoint_bytes, with forwarding_bytes among several.
EndpointBytes(shards) ==
    Packet * (DivCeil(Connections, shards) + 1) + DivCeil(Incoming, shards) + Kernel
        + IF shards > 1 THEN Packet * QueueDatagrams + FirstFlights ELSE 0

\* Binding::bind: as many of half the runtimes as fit, one when two do not.
Wanted == Max({2, Min({Runtimes \div 2, MaxShards})})
Fitting(budget) == {n \in 2..Wanted : n * EndpointBytes(n) <= budget}

Bind(budget) ==
    IF Runtimes > 1 /\ Fitting(budget) # {} THEN Max(Fitting(budget)) ELSE 1

Shards == 0..(bound.shards - 1)

\* A single endpoint that does not fit stops the server before it serves.
Init ==
    /\ \E budget \in Budgets :
         bound = [shards |-> Bind(budget), bytes |-> Bind(budget) * EndpointBytes(Bind(budget)), budget |-> budget]
    /\ EndpointBytes(1) <= bound.budget
    /\ routed \in IF bound.shards > 1 THEN BOOLEAN ELSE {FALSE}
    /\ sockets = [s \in Shards |-> <<>>] /\ queues = [s \in Shards |-> <<>>]
    /\ flights = [s \in Shards |-> <<>>] /\ held = [s \in Shards |-> 0]
    /\ conns = [c \in Clients |-> [at |-> "None", shards |-> {}]]
    /\ sent = [c \in Clients |-> [first |-> 0, from |-> 0]]
    /\ forgotten = {}

(***************************************************************************)
(* Datagrams: a client's first packet carries its own ID, a later one the  *)
(* ID its server chose, which names the endpoint.                          *)
(***************************************************************************)
\* named, of a first packet, a later one, or one that names no endpoint here.
Named(d) == IF d.kind = "Named" THEN d.to ELSE -1

\* The kernel routes by the named endpoint, or by the client's address.
Delivered(d, from) == IF routed /\ Named(d) \in Shards THEN Named(d) ELSE from

\* A resent packet keeps its client's address.
Send(c, d, from) ==
    /\ Len(sockets[Delivered(d, from)]) < Slots
    /\ sockets' = [sockets EXCEPT ![Delivered(d, from)] = Append(@, d)]
    /\ UNCHANGED <<bound, routed, queues, flights, held, conns, forgotten>>

SendFirst(c, from) ==
    /\ sent[c].first < Resends /\ (sent[c].first > 0 => from = sent[c].from)
    /\ Send(c, [kind |-> "First", id |-> c, to |-> -1], from)
    /\ sent' = [sent EXCEPT ![c] = [first |-> @.first + 1, from |-> from]]

\* A later packet, from any address the client moved to; astray: its ID names
\* an endpoint past the set.
SendNamed(c, from, astray) ==
    /\ conns[c].at = "Open"
    /\ \E to \in IF astray THEN {bound.shards} ELSE conns[c].shards : Send(c, [kind |-> "Named", id |-> c, to |-> to], from)
    /\ UNCHANGED sent

(***************************************************************************)
(* Router: where a datagram goes that the socket of endpoint s received.   *)
(***************************************************************************)
Steered(s) ==
    LET least == Min({held[t] : t \in Shards})
    IN IF held[s] = least THEN s ELSE Min({t \in Shards : held[t] = least})

\* FirstFlights::endpoint: flights past the bound are dropped, then the oldest.
Young(s) == SelectSeq(flights[s], LAMBDA f : f.age <= HandshakeBound)
Known(s, c) == {i \in DOMAIN Young(s) : Young(s)[i].id = c}
Room(s) == IF Len(Young(s)) = FirstFlights THEN Tail(Young(s)) ELSE Young(s)

DestinationSteered(s, d) == IF d.kind = "Named" THEN d.to ELSE IF ~routed THEN s ELSE Steered(s)

Destination(s, d) ==
    IF d.kind = "Named" THEN d.to
    ELSE IF ~routed THEN s
    ELSE IF Known(s, d.id) # {} THEN Young(s)[Min(Known(s, d.id))].to
    ELSE Steered(s)

Kept(s, d) ==
    IF d.kind # "First" \/ ~routed THEN flights[s] ELSE IF Known(s, d.id) # {} THEN Young(s) ELSE Room(s)

Flights(s, d) ==
    IF d.kind = "First" /\ routed /\ Known(s, d.id) = {}
    THEN Append(Room(s), [id |-> d.id, to |-> Destination(s, d), age |-> 0]) ELSE Kept(s, d)

Ids(fs) == {fs[i].id : i \in DOMAIN fs}

(***************************************************************************)
(* poll_recv: what was forwarded goes first, in half the slots at most;    *)
(* then the socket's.  A full queue drops, as UDP would.                   *)
(***************************************************************************)
\* noq takes a first packet for a new connection unless it runs it.
Taken(s, d) ==
    IF d.kind = "First"
    THEN conns' = [conns EXCEPT ![d.id] = [at |-> "Open", shards |-> @.shards \union {s}]]
         /\ held' = IF s \in conns[d.id].shards THEN held ELSE [held EXCEPT ![s] = @ + 1]
    ELSE UNCHANGED <<conns, held>>

TakeForwarded(s) ==
    /\ queues[s] # <<>>
    /\ queues' = [queues EXCEPT ![s] = Tail(@)]
    /\ Taken(s, Head(queues[s]))
    /\ UNCHANGED <<bound, routed, sockets, flights, sent, forgotten>>

\* route and forward of one received segment.
Receive(s) ==
    LET d == Head(sockets[s])
        to == Destination(s, d)
        forwards == to # s /\ to \in Shards
    IN /\ sockets[s] # <<>>
       /\ sockets' = [sockets EXCEPT ![s] = Tail(@)]
       /\ flights' = [flights EXCEPT ![s] = Flights(s, d)]
       /\ forgotten' = forgotten \union (Ids(flights[s]) \ Ids(Kept(s, d)))
       /\ queues' = IF forwards /\ Len(queues[to]) < QueueDatagrams THEN [queues EXCEPT ![to] = Append(@, d)] ELSE queues
       /\ IF forwards THEN UNCHANGED <<conns, held>> ELSE Taken(s, d)
       /\ UNCHANGED <<bound, routed, sent>>

Close(c) ==
    /\ conns[c].at = "Open" /\ conns' = [conns EXCEPT ![c] = [at |-> "None", shards |-> {}]]
    /\ held' = [s \in Shards |-> IF s \in conns[c].shards THEN held[s] - 1 ELSE held[s]]
    /\ UNCHANGED <<bound, routed, sockets, queues, flights, sent, forgotten>>

\* Ages count only until a flight is past the bound.
Tick ==
    /\ \E s \in Shards : \E i \in DOMAIN flights[s] : flights[s][i].age <= HandshakeBound
    /\ flights' = [s \in Shards |-> [i \in DOMAIN flights[s] |->
                     [flights[s][i] EXCEPT !.age = IF @ <= HandshakeBound THEN @ + 1 ELSE @]]]
    /\ UNCHANGED <<bound, routed, sockets, queues, held, conns, sent, forgotten>>

Next ==
    \/ \E c \in Clients :
         \/ \E from \in Shards : SendFirst(c, from) \/ \E astray \in BOOLEAN : SendNamed(c, from, astray)
         \/ Close(c)
    \/ \E s \in Shards : TakeForwarded(s) \/ Receive(s)
    \/ Tick

Spec == Init /\ [][Next]_vars

(***************************************************************************)
(* Properties.                                                             *)
(***************************************************************************)
\* The endpoints are as many as fit the budget, and hold no more than it; each
\* counts the connections it runs.
EndpointsCounted ==
    /\ bound.bytes <= bound.budget
    /\ bound.shards < Wanted => bound.shards = Max({1} \union Fitting(bound.budget))
    /\ \A s \in Shards : held[s] = Cardinality({c \in Clients : s \in conns[c].shards})

\* All of a client's first flight reaches one endpoint, however the counts move
\* meanwhile, unless its socket has forgotten the flight.
FlightsStayTogether ==
    \A c \in Clients : Cardinality(conns[c].shards) > 1 => c \in forgotten

\* A datagram that names an endpoint is taken by that endpoint only, and one
\* that names none where it arrived.
NamedReachOwner ==
    /\ \A s \in Shards : \A i \in DOMAIN queues[s] : queues[s][i].kind = "Named" => queues[s][i].to = s
    /\ ~routed => \A s \in Shards : \A i \in DOMAIN queues[s] : queues[s][i].kind = "Named"
==============================================================================
