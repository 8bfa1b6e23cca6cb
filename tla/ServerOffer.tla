----------------------------- MODULE ServerOffer -----------------------------
(***************************************************************************)
(* From a server's settings to the paths it offers: its start accepts or   *)
(* refuses the listeners and public origins, and every preflight offers    *)
(* them on the host its request named.                                     *)
(*                                                                         *)
(* An origin is a scheme, a host and a port; an address is a host and a    *)
(* port, and "Served" is the base URL that names the origin the preflight  *)
(* came from.  Settings that do not parse are refused before this.         *)
(***************************************************************************)
EXTENDS Naturals, SequencesExt

CONSTANTS
    Addresses, Publics, \* by kind: the addresses, and the public origins; <<>> is none
    Advertising,        \* the sets of kinds that may be advertised
    Lists,              \* the proxies' base URLs: both, throughput and latency
    Hosts               \* the hosts that requests name

VARIABLES settings, phase, offered

vars == <<settings, phase, offered>>

\* In the order the listeners are bound and offered.
Kinds == <<"H1", "H1Tls", "H2", "H3">>

Scheme(kind) == IF kind = "H1" THEN "http" ELSE "https"
Protocol(kind) == CASE kind \in {"H1", "H1Tls"} -> "Http1" [] kind = "H2" -> "Http2" [] kind = "H3" -> "Http3"

Nothing == [throughput |-> <<>>, latency |-> <<>>]

Init ==
    /\ settings \in [address : {a \in [ToSet(Kinds) -> UNION {Addresses[k] : k \in ToSet(Kinds)}] :
                                   \A k \in ToSet(Kinds) : a[k] \in Addresses[k]},
                     public : {p \in [ToSet(Kinds) -> UNION {Publics[k] : k \in ToSet(Kinds)}] :
                                   \A k \in ToSet(Kinds) : p[k] \in Publics[k]},
                     advertised : Advertising, certificate : BOOLEAN, lists : Lists]
    /\ phase = "Starting" /\ offered = Nothing

(***************************************************************************)
(* The start.                                                              *)
(***************************************************************************)
Enabled(kind) == settings.address[kind] # <<>>
Advertised(kind) == Enabled(kind) /\ kind \in settings.advertised

\* HTTP/1.1 is always served, TLS needs a certificate, two listeners share no
\* address unless the system picks their ports.
ListenersAccepted ==
    /\ Enabled("H1")
    /\ settings.certificate \/ \A kind \in {"H1Tls", "H2", "H3"} : ~Enabled(kind)
    /\ \A kind, other \in ToSet(Kinds) :
          Enabled(kind) /\ settings.address[kind] = settings.address[other] /\ settings.address[kind][2] # 0 => kind = other
    /\ settings.advertised = ToSet(Kinds) \/ \A kind \in settings.advertised : Enabled(kind)

\* The origin a listener is advertised under has its scheme and one protocol.
Fixed(kind) == Advertised(kind) /\ settings.public[kind] # <<>>

OriginsAccepted ==
    /\ \A kind \in ToSet(Kinds) : settings.public[kind] # <<>> => settings.public[kind][1] = Scheme(kind)
    /\ \A kind, other \in ToSet(Kinds) :
          Fixed(kind) /\ Fixed(other) /\ settings.public[kind] = settings.public[other] => Protocol(kind) = Protocol(other)
    /\ \A kind \in ToSet(Kinds) : Fixed(kind) =>
          ~Contains(settings.lists.both \o settings.lists.throughput, settings.public[kind])
    /\ settings.lists.both \o settings.lists.throughput # <<>> \/ \E kind \in ToSet(Kinds) : Advertised(kind)

Start ==
    /\ phase = "Starting" /\ phase' = IF ListenersAccepted /\ OriginsAccepted THEN "Serving" ELSE "Refused"
    /\ UNCHANGED <<settings, offered>>

(***************************************************************************)
(* A preflight.                                                            *)
(***************************************************************************)
\* A base offered with two protocols becomes negotiated.
FetchStream(paths, base, protocol) ==
    LET known == {i \in DOMAIN paths.throughput :
                     paths.throughput[i].transport = "FetchStream" /\ paths.throughput[i].base = base}
        added == [base |-> base, transport |-> "FetchStream", protocol |-> protocol]
    IN IF known = {} THEN [paths EXCEPT !.throughput = Append(@, added)]
       ELSE [paths EXCEPT !.throughput = [i \in DOMAIN @ |->
                IF i \in known /\ @[i].protocol # protocol THEN [@[i] EXCEPT !.protocol = "Negotiated"] ELSE @[i]]]

WebSocket(paths, base) ==
    LET target == [base |-> base, transport |-> "WebSocket"]
    IN IF Contains(paths.latency, target) THEN paths ELSE [paths EXCEPT !.latency = Append(@, target)]

WebTransport(paths, base) ==
    [throughput |-> paths.throughput \o
        [i \in 1..2 |-> [base |-> base, protocol |-> "Http3",
                         transport |-> IF i = 1 THEN "WebTransport" ELSE "WebTransportDatagram"]],
     latency |-> Append(paths.latency, [base |-> base, transport |-> "WebTransport"])]

Listened(paths, listener) ==
    LET streamed == FetchStream(paths, listener.base, listener.protocol)
    IN CASE listener.protocol = "Http1" -> WebSocket(streamed, listener.base)
         [] listener.protocol = "Http2" -> streamed
         [] listener.protocol = "Http3" -> WebTransport(streamed, listener.base)

\* The advertised listeners in order, then the public base URLs of a proxy: for
\* both kinds of path, for throughput and for latency.
Preflight(listeners, public) ==
    LET advertised == SelectSeq(listeners, LAMBDA listener : listener.advertised)
        streamed(paths, base) == FetchStream(paths, base, "Negotiated")
        either(paths, base) == WebSocket(streamed(paths, base), base)
    IN FoldLeft(WebSocket,
           FoldLeft(streamed,
               FoldLeft(either, FoldLeft(Listened, Nothing, advertised), public.both),
               public.throughput),
           public.latency)

\* A listener's own origin on the host the request named.
Native(kind, host) == <<Scheme(kind), host, settings.address[kind][2]>>

Base(kind, host) == IF settings.public[kind] # <<>> THEN settings.public[kind] ELSE Native(kind, host)

Listeners(host) ==
    LET enabled == SelectSeq(Kinds, Enabled)
    IN [i \in DOMAIN enabled |-> [protocol |-> Protocol(enabled[i]), base |-> Base(enabled[i], host),
                                  advertised |-> Advertised(enabled[i])]]

Answer(host) ==
    /\ phase = "Serving" /\ offered' = Preflight(Listeners(host), settings.lists)
    /\ phase' = "Offered" /\ UNCHANGED settings

Next == Start \/ \E host \in Hosts : Answer(host)

Spec == Init /\ [][Next]_vars

(***************************************************************************)
(* Properties.                                                             *)
(***************************************************************************)
NativeOrigins == {Native(kind, host) : kind \in {k \in ToSet(Kinds) : Advertised(k)}, host \in Hosts}

\* A server that starts offers a path to test on, each once; a WebTransport path is
\* offered beside an HTTP/3 one at the same origin; and the public origin of a
\* listener is offered with that listener's protocol, unless another listener is
\* natively reached at the same origin.
OffersSound ==
    LET throughput == offered.throughput
    IN phase = "Offered" =>
        /\ throughput # <<>>
        /\ \A i, j \in DOMAIN throughput :
              throughput[i].base = throughput[j].base /\ throughput[i].transport = throughput[j].transport => i = j
        /\ \A i \in DOMAIN throughput : throughput[i].transport # "FetchStream" =>
              \E j \in DOMAIN throughput : /\ throughput[j].transport = "FetchStream" /\ throughput[j].base = throughput[i].base
                                           /\ throughput[j].protocol \in {"Http3", "Negotiated"}
        /\ \A kind \in ToSet(Kinds) : Fixed(kind) /\ settings.public[kind] \notin NativeOrigins =>
              \A i \in DOMAIN throughput : throughput[i].base = settings.public[kind] =>
                  throughput[i].protocol = Protocol(kind)
==============================================================================
