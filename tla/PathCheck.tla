------------------------------ MODULE PathCheck ------------------------------
(***************************************************************************)
(* A path check (prepare): the catalog, then for every selected server at  *)
(* once its preflight, its lease, and its throughput and latency           *)
(* candidates side by side, all by one deadline.  The candidates           *)
(* themselves are Settings's.                                              *)
(*                                                                         *)
(* A reply is the environment's choice; so is its loss, which a bound ends. *)
(* `sides' is a server's two walks along its candidates; a walk keeps what *)
(* each candidate met, the newest last.                                    *)
(***************************************************************************)
EXTENDS Integers, Sequences, FiniteSets

CONSTANTS
    Servers,
    Candidates,      \* by side, "Throughput" and "Latency": the transports to try, in order
    Faults,          \* what a probe may meet: of "SignIn", "Shutdown", "Incompatible", "Lost"
    Preparation, Verify, Reply,   \* the deadline, a channel's bound, a datagram's
    MaxPings

VARIABLES now, catalog, servers, sides, flights

vars == <<now, catalog, servers, sides, flights>>

Sides == {"Throughput", "Latency"}
Off == -1

\* A walk before its first candidate: its step, when that began, the ping under
\* way, and what the candidates met; `travel' is the time its reply really took.
Unwalked == [step |-> "Idle", since |-> Off, ping |-> 0, sent |-> Off, met |-> <<>>, rtt |-> Off, travel |-> Off, incompatible |-> FALSE]

Init ==
    /\ now = 0 /\ catalog = "Asked"
    /\ servers = [s \in Servers |-> [phase |-> "Waiting", path |-> "Late"]]
    /\ sides = [s \in Servers |-> [side \in Sides |-> Unwalked]]
    /\ flights = [s \in Servers |-> {}]

(***************************************************************************)
(* The catalog, the preflight and the lease.                               *)
(***************************************************************************)
\* A refused selection, a fault or the deadline fails the whole check.
CatalogAnswers ==
    /\ catalog = "Asked"
    /\ \/ catalog' = "Failed" /\ UNCHANGED servers
       \/ catalog' = "Read" /\ servers' = [s \in Servers |-> [servers[s] EXCEPT !.phase = "Preflight"]]
    /\ UNCHANGED <<now, sides, flights>>

\* A server's check ends: what is under way is dropped with its future.
Ends(s, path) ==
    /\ servers' = [servers EXCEPT ![s] = [phase |-> "Done", path |-> path]]
    /\ sides' = [sides EXCEPT ![s] = [side \in Sides |-> [@[side] EXCEPT !.step = "Idle"]]]
    /\ flights' = [flights EXCEPT ![s] = {}]

\* The document of another API version, one that does not decode, no candidate,
\* no checkpoints, or a fault.
PreflightFails(s) ==
    /\ servers[s].phase = "Preflight"
    /\ \E path \in {"Incompatible", "PathFailed", "SignIn"} : Ends(s, path)
    /\ UNCHANGED <<now, catalog>>

PreflightAnswers(s) ==
    /\ servers[s].phase = "Preflight"
    /\ servers' = [servers EXCEPT ![s].phase = "Lease"]
    /\ UNCHANGED <<now, catalog, sides, flights>>

\* The step a candidate starts with, if one is left.
Start(walk, candidates) ==
    LET at == Len(walk.met) + 1
    IN IF at > Len(candidates) THEN [walk EXCEPT !.step = "Over"]
       ELSE [walk EXCEPT !.since = now, !.step = CASE candidates[at] = "Session" -> "Session"
                                                   [] candidates[at] = "Fetch" -> "Probe"
                                                   [] candidates[at] \in {"Datagram", "Socket"} -> "Bus"]

\* Both walks start once the lease covers what the run asks for.
LeaseAnswers(s) ==
    /\ servers[s].phase = "Lease"
    /\ \/ \E path \in {"ClientLimit", "SignIn", "PathFailed"} : Ends(s, path)
       \/ /\ servers' = [servers EXCEPT ![s].phase = "Paths"]
          /\ sides' = [sides EXCEPT ![s] = [side \in Sides |-> Start(@[side], Candidates[side])]]
          /\ UNCHANGED flights
    /\ UNCHANGED <<now, catalog>>

(***************************************************************************)
(* The candidates of a side, one after the other.                          *)
(***************************************************************************)
\* The fault that ends a walk: one that asks for sign-in or stopped at once, else
\* after the last candidate the first of another version, or the last one.
Fault(walk) ==
    IF walk.met # <<>> /\ walk.met[Len(walk.met)] \in {"SignIn", "Shutdown"} THEN walk.met[Len(walk.met)]
    ELSE IF walk.step # "Over" THEN "None"
    ELSE IF walk.incompatible THEN "Incompatible"
    ELSE IF walk.met = <<>> THEN "PathFailed" ELSE walk.met[Len(walk.met)]

\* A check that lapsed proved no channel, so it never stopped delivering.
Unproven(fault) == IF fault = "TimedOut" THEN "PathFailed" ELSE fault

Passed(s, side) == sides[s][side].step = "Passed" \/ (side = "Latency" /\ Candidates[side] = <<>>)
Other(side) == CHOOSE other \in Sides : other # side

\* The first fault of either side fails the server; both passed prepare it.
Passes(s, side, walk) ==
    IF Passed(s, Other(side)) THEN
        /\ servers' = [servers EXCEPT ![s] = [phase |-> "Done", path |-> "Ok"]]
        /\ sides' = [sides EXCEPT ![s][side] = walk] /\ flights' = [flights EXCEPT ![s] = {}]
    ELSE sides' = [sides EXCEPT ![s][side] = walk] /\ UNCHANGED <<servers, flights>>

Meets(s, side, fault) ==
    LET walk == sides[s][side]
        met == [walk EXCEPT !.met = Append(@, fault), !.incompatible = @ \/ fault = "Incompatible", !.ping = 0]
        next == Start(met, Candidates[side])
        ends == Fault(next)
    IN IF ends = "None" THEN /\ sides' = [sides EXCEPT ![s][side] = next]
                             /\ flights' = IF side = "Latency" THEN [flights EXCEPT ![s] = {}] ELSE flights
                             /\ UNCHANGED servers
       ELSE /\ servers' = [servers EXCEPT ![s] = [phase |-> "Done", path |-> Unproven(ends)]]
            /\ sides' = [sides EXCEPT ![s] = [other \in Sides |->
                   IF other = side THEN [next EXCEPT !.step = "Over"] ELSE [@[other] EXCEPT !.step = "Idle"]]]
            /\ flights' = [flights EXCEPT ![s] = {}]

\* A WebTransport session opens before the probe that resolves the protocol.
SessionOpens(s) ==
    /\ sides[s]["Throughput"].step = "Session"
    /\ sides' = [sides EXCEPT ![s]["Throughput"].step = "Probe"]
    /\ UNCHANGED <<now, catalog, servers, flights>>

ProbeAnswers(s) ==
    /\ sides[s]["Throughput"].step = "Probe"
    /\ Passes(s, "Throughput", [sides[s]["Throughput"] EXCEPT !.step = "Passed"])
    /\ UNCHANGED <<now, catalog>>

Meet(s, side) ==
    /\ sides[s][side].step \in {"Session", "Probe", "Bus", "Pinging"}
    /\ \E fault \in Faults : Meets(s, side, fault)
    /\ UNCHANGED <<now, catalog>>

(***************************************************************************)
(* The latency bus: a datagram's ping goes again unanswered, and only the  *)
(* latest one's reply counts.                                              *)
(***************************************************************************)
Pinged(s, walk, ping) ==
    /\ sides' = [sides EXCEPT ![s]["Latency"] = [walk EXCEPT !.step = "Pinging", !.ping = ping, !.sent = now]]
    /\ flights' = [flights EXCEPT ![s] = @ \cup {[id |-> ping, at |-> now]}]

BusOpens(s) ==
    /\ sides[s]["Latency"].step = "Bus" /\ Pinged(s, sides[s]["Latency"], 1)
    /\ UNCHANGED <<now, catalog, servers>>

Transport(s) == Candidates["Latency"][Len(sides[s]["Latency"].met) + 1]

Lapsed(s) ==
    LET walk == sides[s]["Latency"]
    IN walk.step = "Pinging" /\ Transport(s) = "Datagram" /\ now - walk.sent >= Reply

PingAgain(s) ==
    /\ Lapsed(s) /\ sides[s]["Latency"].ping < MaxPings
    /\ Pinged(s, sides[s]["Latency"], sides[s]["Latency"].ping + 1)
    /\ UNCHANGED <<now, catalog, servers>>

\* A reply is its own ping's.
Counts(walk, pong) == pong.id = walk.ping

Pong(s) ==
    LET walk == sides[s]["Latency"]
    IN /\ walk.step = "Pinging" /\ UNCHANGED <<now, catalog>>
       /\ \E pong \in flights[s] :
             IF Counts(walk, pong)
             THEN Passes(s, "Latency", [walk EXCEPT !.step = "Passed", !.rtt = now - walk.sent, !.travel = now - pong.at])
             ELSE flights' = [flights EXCEPT ![s] = @ \ {pong}] /\ UNCHANGED <<servers, sides>>

\* A session, and a bus from its dial to its reply, have one bound each.
Overdue(s, side) ==
    /\ sides[s][side].step \in {"Session", "Bus", "Pinging"}
    /\ now - sides[s][side].since >= Verify

Expire(s, side) == Overdue(s, side) /\ Meets(s, side, "TimedOut") /\ UNCHANGED <<now, catalog>>

Deadline ==
    /\ now = Preparation
    /\ \/ catalog = "Asked" /\ catalog' = "Failed" /\ UNCHANGED <<servers, sides, flights>>
       \/ /\ \E s \in Servers : servers[s].phase \in {"Preflight", "Lease", "Paths"} /\ Ends(s, "Late")
          /\ UNCHANGED catalog
    /\ UNCHANGED now

Busy == catalog = "Asked" \/ (catalog = "Read" /\ \E s \in Servers : servers[s].phase # "Done")

Tick ==
    /\ Busy /\ now < Preparation
    /\ \A s \in Servers : (\A side \in Sides : ~Overdue(s, side)) /\ ~(Lapsed(s) /\ sides[s]["Latency"].ping < MaxPings)
    /\ now' = now + 1 /\ UNCHANGED <<catalog, servers, sides, flights>>

Next ==
    \/ CatalogAnswers \/ Deadline \/ Tick
    \/ \E s \in Servers :
          \/ PreflightFails(s) \/ PreflightAnswers(s) \/ LeaseAnswers(s) \/ SessionOpens(s) \/ ProbeAnswers(s)
          \/ BusOpens(s) \/ PingAgain(s) \/ Pong(s)
          \/ \E side \in Sides : Meet(s, side) \/ Expire(s, side)

Spec == Init /\ [][Next]_vars

(***************************************************************************)
(* Properties.                                                             *)
(***************************************************************************)
Decided(s, side) == sides[s][side].step = "Over"

\* A prepared server has a path of each kind that was asked for.  Of a server that
\* failed, a side that met another API version says so unless it was asked to sign
\* in or told of a shutdown, which end the walk at once; no side walks on.
OutcomeSound ==
    \A s \in Servers :
        LET met(side) == {sides[s][side].met[i] : i \in DOMAIN sides[s][side].met}
            last(side) == sides[s][side].met[Len(sides[s][side].met)]
        IN /\ servers[s].path = "Ok" => \A side \in Sides : Passed(s, side)
           /\ servers[s].phase = "Done" => \A side \in Sides : sides[s][side].step \in {"Idle", "Over", "Passed"}
           /\ \A side \in Sides :
                 /\ \A i \in DOMAIN sides[s][side].met :
                       sides[s][side].met[i] \in {"SignIn", "Shutdown"} => i = Len(sides[s][side].met)
                 /\ Decided(s, side) /\ sides[s][side].met # <<>> =>
                       IF last(side) \in {"SignIn", "Shutdown"} THEN servers[s].path = last(side)
                       ELSE "Incompatible" \in met(side) => servers[s].path = "Incompatible"

\* The round trip a check reports is that of the ping whose reply it is: a late
\* reply to an earlier datagram makes the path look no faster.
RttIsOwn ==
    \A s \in Servers :
        LET walk == sides[s]["Latency"] IN walk.step = "Passed" => walk.rtt = walk.travel
==============================================================================
