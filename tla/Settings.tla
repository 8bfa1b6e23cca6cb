------------------------------ MODULE Settings ------------------------------
(***************************************************************************)
(* The settings sheet of the terminal client: what each row's keys do to   *)
(* the configuration, while checks of earlier settings answer.  The sheet's *)
(* focus, its editor's text and the rest of its timing are Console's.      *)
(*                                                                         *)
(* Times are in tenths of a second.  `view' is the servers the last check  *)
(* brought, `asked' the servers of the check under way.  An origin is a    *)
(* model value or a string, "Served" the base URL that names the origin    *)
(* the preflight came from; a forced choice is None when it is automatic.  *)
(* A refusal is an empty sequence: its wording is left out.                *)
(***************************************************************************)
EXTENDS Integers, SequencesExt

CONSTANTS
    Rows,        \* the rows used
    Starts,      \* the configurations the flags may start with
    Offered,     \* the test servers' offers, by ID: an origin and capabilities
    Default,     \* the operator's default selection
    Typed,       \* the values typed into an editor
    MaxSelected, \* servers that one test may share
    MaxStreams, MaxWarmup, MaxStage

VARIABLES config, view, recheck, asked

vars == <<config, view, recheck, asked>>

None == "None"
Nothing == [throughput |-> <<>>, latency |-> <<>>]
Resolve(base, served) == IF base = "Served" THEN served ELSE base

(***************************************************************************)
(* The paths a check tries, in order.                                      *)
(***************************************************************************)
PickAny(eligible, wanted, served) == IF eligible = <<>> THEN <<>> ELSE <<Head(eligible)>>

\* The target at the wanted origin, or with an automatic origin the one at the
\* served origin, else the only one.
Pick(eligible, wanted, served) ==
    LET at == IF wanted = None THEN served ELSE wanted
        there == SelectSeq(eligible, LAMBDA target : Resolve(target.base, served) = at)
    IN IF there # <<>> THEN <<Head(there)>>
       ELSE IF wanted = None /\ Len(eligible) = 1 THEN eligible ELSE <<>>

Serves(offered, forced) == forced = None \/ offered \in {forced, "Negotiated"}

\* A forced protocol replaces a negotiated one and refuses a fixed other.
ThroughputPath(target, forced, served) ==
    LET protocol == IF forced = None THEN target.protocol ELSE forced
        fixed == forced # None /\ target.protocol \notin {"Negotiated", forced}
    IN IF fixed \/ (target.transport = "WebTransport" /\ protocol # "Http3") THEN <<>>
       ELSE <<[origin |-> Resolve(target.base, served), transport |-> target.transport, protocol |-> protocol]>>

Transports(forced, all) == IF forced = None THEN all ELSE <<forced>>

ThroughputCandidates(choice, served, offered) ==
    LET path(transport) ==
            LET eligible == SelectSeq(offered.throughput, LAMBDA target :
                    /\ target.transport = transport
                    /\ choice.throughputOrigin # None \/ Serves(target.protocol, choice.protocol))
                picked == Pick(eligible, choice.throughputOrigin, served)
            IN IF picked = <<>> THEN <<>> ELSE ThroughputPath(picked[1], choice.protocol, served)
        transports == Transports(choice.throughputTransport, <<"FetchStream", "WebTransport">>)
    IN FlattenSeq([i \in DOMAIN transports |-> path(transports[i])])

LatencyCandidates(choice, served, offered) ==
    LET path(transport) ==
            LET eligible == SelectSeq(offered.latency, LAMBDA target : target.transport = transport)
                picked == Pick(eligible, choice.latencyOrigin, served)
            IN [i \in DOMAIN picked |-> [origin |-> Resolve(picked[i].base, served), transport |-> transport]]
        transports == Transports(choice.latencyTransport, <<"WebTransport", "WebSocket">>)
    IN FlattenSeq([i \in DOMAIN transports |-> path(transports[i])])

(***************************************************************************)
(* The servers a run takes.                                                *)
(***************************************************************************)
\* The chosen test servers, else the catalog's default, unless explicit origins
\* meet several; {} is a refusal.
Servers(catalog, c) ==
    LET ids == IF c.servers = {} THEN catalog.default ELSE c.servers
        explicit == c.choice.throughputOrigin # None \/ c.choice.latencyOrigin # None
    IN IF ~(ids \subseteq catalog.ids) \/ (explicit /\ Cardinality(ids) > 1) THEN {} ELSE ids

\* Selecting servers keeps explicit origins for the one server checked alone.
Select(c, servers, checked) ==
    IF Cardinality(servers) = 1 /\ servers = checked THEN [c EXCEPT !.servers = servers]
    ELSE [c EXCEPT !.servers = servers, !.choice.throughputOrigin = None, !.choice.latencyOrigin = None]

(***************************************************************************)
(* The console's choices.                                                  *)
(***************************************************************************)
Automatic == [origin |-> None, transport |-> None]

Single == Len(view) = 1 /\ view[1].offered # Nothing

\* A server's offers as a row names them; datagram throughput is not offered.
Offers(kind, server) ==
    LET targets == IF kind = "Latency" THEN server.offered.latency
                   ELSE SelectSeq(server.offered.throughput, LAMBDA target : target.transport # "WebTransportDatagram")
    IN [i \in DOMAIN targets |->
           [origin |-> Resolve(targets[i].base, server.origin), transport |-> targets[i].transport]]

Shared(kind) == IF kind = "Latency" THEN <<"WebTransport", "WebSocket">> ELSE <<"FetchStream", "WebTransport">>

\* Automatic, then the single server's offers once each, or the shared transports.
PathChoices(kind) ==
    LET once(choices, offer) == IF Contains(choices, offer) THEN choices ELSE Append(choices, offer)
        shared == Shared(kind)
    IN IF Single THEN FoldLeft(once, <<Automatic>>, Offers(kind, view[1]))
       ELSE <<Automatic>> \o [i \in DOMAIN shared |-> [origin |-> None, transport |-> shared[i]]]

Chosen(kind, choice) ==
    IF kind = "Latency" THEN [origin |-> choice.latencyOrigin, transport |-> choice.latencyTransport]
    ELSE [origin |-> choice.throughputOrigin, transport |-> choice.throughputTransport]

\* The next choice, or the first when the chosen one is not offered.
Cycled(kind, choice, step) ==
    LET choices == PathChoices(kind)
        at == {i \in DOMAIN choices : choices[i] = Chosen(kind, choice)}
        next == IF at = {} THEN 1 ELSE 1 + (((CHOOSE i \in at : TRUE) - 1 + Len(choices) + step) % Len(choices))
        to == choices[next]
    IN IF kind = "Latency" THEN [choice EXCEPT !.latencyOrigin = to.origin, !.latencyTransport = to.transport]
       ELSE [choice EXCEPT !.throughputOrigin = to.origin, !.throughputTransport = to.transport]

\* The chosen throughput path does not negotiate its HTTP version.
FixedProtocol(choice) ==
    /\ Single /\ choice.throughputOrigin # None /\ choice.throughputTransport # None
    /\ LET matching == SelectSeq(view[1].offered.throughput, LAMBDA target :
               /\ Resolve(target.base, view[1].origin) = choice.throughputOrigin
               /\ target.transport = choice.throughputTransport
               /\ target.transport # "WebTransportDatagram")
       IN matching # <<>> /\ matching[1].protocol # "Negotiated"

(***************************************************************************)
(* What a run holds, and the lease its check asks for.                     *)
(***************************************************************************)
\* Lanes per direction of a path.
Lanes(streams, protocol, transport) ==
    CASE streams.forced # 0 -> [down |-> streams.forced, up |-> streams.forced]
      [] streams.forced = 0 /\ transport = "FetchStream" /\ protocol = "Http2" -> [down |-> 1, up |-> 4]
      [] streams.forced = 0 /\ transport = "FetchStream" /\ protocol \in {"Http1", "Negotiated"} ->
            [down |-> streams.auto, up |-> streams.auto]
      [] OTHER -> [down |-> 1, up |-> 1]

\* What a run holds on a path: measurements, both directions' lanes or a WebTransport
\* session each, and those sessions.
Need(streams, path) ==
    IF path.transport # "FetchStream" THEN [lanes |-> 2, sessions |-> 2]
    ELSE LET lanes == Lanes(streams, path.protocol, path.transport)
         IN [lanes |-> lanes.down + lanes.up, sessions |-> 0]

\* The most of the candidates as they stand before their check: a negotiated one
\* counts as HTTP/1.1.  Beside the lanes: the latency bus, an upload's feed and its
\* finalize.
Ceilings(streams, paths) ==
    LET needs == {Need(streams, paths[i]) : i \in DOMAIN paths}
    IN [measurements |-> Max({0} \cup {need.lanes : need \in needs}) + 3,
        sessions |-> Max({0} \cup {need.sessions : need \in needs})]

(***************************************************************************)
(* The configuration.                                                      *)
(***************************************************************************)
Second == 10
Cadences == 0..3
Stages == {"Latency", "Download", "Upload", "Bidirectional"}
Versions == <<None, "Http1", "Http2", "Http3">>
AnyPath == [throughputOrigin |-> None, throughputTransport |-> None, protocol |-> None,
            latencyOrigin |-> None, latencyTransport |-> None]

DefaultConfig ==
    [servers |-> {}, choice |-> AnyPath, stages |-> {"Latency", "Download", "Upload"},
     warmup |-> 8, durations |-> [stage \in Stages |-> IF stage = "Latency" THEN 40 ELSE 100],
     streams |-> [auto |-> 6, forced |-> 0],
     idle |-> 0, loaded |-> 2, skip |-> TRUE, insecure |-> FALSE]

Probes(c) == "Latency" \in c.stages \/ (~c.skip /\ c.stages # {})
Uploads(c) == c.stages \cap {"Upload", "Bidirectional"} # {}

\* What a path check depends on.
Key(c) ==
    [servers |-> c.servers, choice |-> c.choice, cadences |-> <<c.idle, c.loaded>>, streams |-> c.streams,
     insecure |-> c.insecure, latency |-> Probes(c), checkpoints |-> Uploads(c)]

Init == config \in Starts /\ view = <<>> /\ recheck = FALSE /\ asked = {}

(***************************************************************************)
(* The rows.  A stage's row has its name.                                  *)
(***************************************************************************)
IsFlag(row) == row \in Stages \cup {"SkipLoadedLatency", "ForceStreams", "Insecure"}
IsSpan(row) == row \in Stages \cup {"Warmup"}

Flag(c, row) ==
    CASE row \in Stages -> row \in c.stages
      [] row = "SkipLoadedLatency" -> c.skip
      [] row = "ForceStreams" -> c.streams.forced # 0
      [] row = "Insecure" -> c.insecure

SetFlag(c, row, on) ==
    CASE row \in Stages -> [c EXCEPT !.stages = IF on THEN @ \cup {row} ELSE @ \ {row}]
      [] row = "SkipLoadedLatency" -> [c EXCEPT !.skip = on]
      [] row = "ForceStreams" -> [c EXCEPT !.streams.forced = IF on THEN c.streams.auto ELSE 0]
      [] row = "Insecure" -> [c EXCEPT !.insecure = on]

Least(row) == IF row = "Warmup" THEN 0 ELSE Second
Greatest(row) == IF row = "Warmup" THEN MaxWarmup ELSE MaxStage
Within(row, value) == Least(row) <= value /\ value <= Greatest(row)
Clamp(value, least, greatest) == IF value < least THEN least ELSE IF value > greatest THEN greatest ELSE value

\* The step at a value: a finer one just below each boundary than above it.
UnitAt(row, value) ==
    LET seconds == value \div Second
    IN CASE row = "Warmup" -> 1
         [] row # "Warmup" /\ seconds < 60 -> Second
         [] row # "Warmup" /\ seconds \in 60..599 -> 10 * Second
         [] row # "Warmup" /\ seconds \in 600..3599 -> 60 * Second
         [] OTHER -> 300 * Second

\* Stepping down, the boundary itself belongs to the range below.
Unit(row, value, step) == UnitAt(row, IF step < 0 /\ value > 0 THEN value - 1 ELSE value)

Stepped(row, value, step) == Clamp(value + step * Unit(row, value, step), Least(row), Greatest(row))

\* The count a streams row shows and edits: the forced one, or the automatic limit.
Shown(streams) == IF streams.forced = 0 THEN streams.auto ELSE streams.forced
Show(streams, count) == IF streams.forced = 0 THEN [streams EXCEPT !.auto = count] ELSE [streams EXCEPT !.forced = count]

PathCycledOnly(c, step) == [c EXCEPT !.choice = Cycled("Throughput", c.choice, step)]

\* A path that fixes its version leaves none forced.
PathCycled(c, step) ==
    LET choice == Cycled("Throughput", c.choice, step)
    IN [c EXCEPT !.choice = IF FixedProtocol(choice) THEN [choice EXCEPT !.protocol = None] ELSE choice]

Version(c, step) ==
    LET at == CHOOSE i \in DOMAIN Versions : Versions[i] = c.choice.protocol
    IN IF FixedProtocol(c.choice) THEN c
       ELSE [c EXCEPT !.choice.protocol = Versions[1 + ((at + 3 + step) % 4)]]

Cycle(c, row, step) ==
    CASE row = "ThroughputPath" -> PathCycled(c, step)
      [] row = "LatencyPath" -> [c EXCEPT !.choice = Cycled("Latency", @, step)]
      [] row = "Protocol" -> Version(c, step)
      [] row = "IdleCadence" -> [c EXCEPT !.idle = (@ + 4 + step) % 4]
      [] row = "LoadedCadence" -> [c EXCEPT !.loaded = (@ + 4 + step) % 4]
      [] row = "Streams" -> [c EXCEPT !.streams = Show(@, Clamp(Shown(@) + step, 1, MaxStreams))]

Adjusted(c, row, step) ==
    CASE row = "Warmup" -> [c EXCEPT !.warmup = Stepped(row, @, step)]
      [] row \in Stages -> [c EXCEPT !.durations[row] = Stepped(row, @, step)]
      [] IsFlag(row) /\ ~IsSpan(row) -> SetFlag(c, row, IF row = "ForceStreams" THEN ~Flag(c, row) ELSE step > 0)
      [] ~IsFlag(row) /\ ~IsSpan(row) -> Cycle(c, row, step)

\* Reset keeps the server and its test servers.
Restored(c) == [DefaultConfig EXCEPT !.servers = c.servers]

\* An editor's value, refused outside its bounds.
Entered(c, row, value) ==
    CASE row = "Streams" -> IF value \in 1..MaxStreams THEN [c EXCEPT !.streams = Show(@, value)] ELSE c
      [] row = "Warmup" -> IF Within(row, value) THEN [c EXCEPT !.warmup = value] ELSE c
      [] row \in Stages -> IF Within(row, value) THEN [c EXCEPT !.durations[row] = value] ELSE c

(***************************************************************************)
(* Steps: a row's keys, the chooser, and the check under way.              *)
(***************************************************************************)
\* A change to what a check depends on rechecks the paths.
Change(c) == config' = c /\ recheck' = (recheck \/ Key(c) # Key(config)) /\ UNCHANGED <<view, asked>>

Adjust(row, step) == row \notin {"Servers", "Reset"} /\ Change(Adjusted(config, row, step))

Activate(row) ==
    \/ IsFlag(row) /\ Change(SetFlag(config, row, ~Flag(config, row)))
    \/ row \in {"ThroughputPath", "LatencyPath", "Protocol", "IdleCadence", "LoadedCadence"} /\ Change(Cycle(config, row, 1))
    \/ row = "Reset" /\ Change(Restored(config))
    \/ row \in Stages \cup {"Streams", "Warmup"} /\ \E value \in Typed : Change(Entered(config, row, value))

\* The chooser's draft, which always asks for a check.
Choose(servers) ==
    /\ "Servers" \in Rows /\ view # <<>> /\ Cardinality(servers) <= MaxSelected
    /\ config' = Select(config, servers, IF Len(view) = 1 THEN {view[1].id} ELSE {})
    /\ recheck' = TRUE /\ UNCHANGED <<view, asked>>

Ask ==
    /\ recheck /\ asked' = Servers([ids |-> DOMAIN Offered, default |-> Default], config)
    /\ recheck' = FALSE /\ UNCHANGED <<config, view>>

\* A server whose preflight failed shows no offer; a refused selection shows nothing.
Answer ==
    /\ asked # {} /\ asked' = {} /\ UNCHANGED <<config, recheck>>
    /\ \E reached \in SUBSET asked :
          LET order == SetToSortSeq(asked, <)
          IN view' = [i \in DOMAIN order |->
                         [id |-> order[i], origin |-> Offered[order[i]].origin,
                          offered |-> IF order[i] \in reached THEN Offered[order[i]].offered ELSE Nothing]]

Next ==
    \/ \E row \in Rows : Activate(row) \/ \E step \in {-1, 1} : Adjust(row, step)
    \/ \E servers \in (SUBSET DOMAIN Offered) \ {{}} : Choose(servers)
    \/ Ask \/ Answer

Spec == Init /\ [][Next]_vars

(***************************************************************************)
(* Properties.                                                             *)
(***************************************************************************)
\* Why a run's start refuses the settings, Ok when it does not.
Validate(c) ==
    CASE c.stages = {} -> "NoStages"
      [] c.stages # {} /\ ~Within("Warmup", c.warmup) -> "Warmup"
      [] c.stages # {} /\ Within("Warmup", c.warmup) ->
            IF \E stage \in Stages : ~Within(stage, c.durations[stage]) THEN "StageDuration"
            ELSE IF ~({c.idle, c.loaded} \subseteq Cadences) THEN "Cadence"
            ELSE IF c.streams.forced > MaxStreams THEN "ForcedStreams"
            ELSE IF c.streams.auto \notin 1..MaxStreams THEN "AutoStreams" ELSE "Ok"

OnGrid(value) == value % UnitAt("Upload", value) = 0

\* Whatever is typed, stepped, switched or reset, a run's start refuses the settings
\* for nothing but that no stage is on, which one row puts right; and a step down
\* undoes a step up, also across the values where the step changes, from any value
\* the steps themselves reach.
SettingsValid ==
    /\ Validate(config) \in {"Ok", "NoStages"}
    /\ \A stage \in Stages :
          /\ Validate(SetFlag(config, stage, TRUE)) = "Ok"
          /\ LET value == config.durations[stage]
             IN value < MaxStage /\ OnGrid(value) => Stepped(stage, Stepped(stage, value, 1), -1) = value

Explicit(kind, c) == Chosen(kind, c).origin # None /\ Contains(PathChoices(kind), Chosen(kind, c))

\* A path or an HTTP version chosen on a row, where the one server checked offers
\* the path, is one that its check accepts.
ChoicesAccepted ==
    LET c == config'.choice
        kept(kind) == Chosen(kind, c) = Chosen(kind, config.choice)
    IN Single /\ UNCHANGED view =>
          /\ Explicit("Throughput", c) /\ ~(kept("Throughput") /\ c.protocol = config.choice.protocol) =>
                ThroughputCandidates(c, view[1].origin, view[1].offered) # <<>>
          /\ Explicit("Latency", c) /\ ~kept("Latency") =>
                LatencyCandidates(c, view[1].origin, view[1].offered) # <<>>

\* The paths that a check tries honour every forced choice, are offered by the
\* server, and are one for each transport at most.
CandidatesSound ==
    \A id \in DOMAIN Offered :
        LET server == Offered[id]
            c == config.choice
            paths == ThroughputCandidates(c, server.origin, server.offered)
        IN /\ \A i, j \in DOMAIN paths : paths[i].transport = paths[j].transport => i = j
           /\ \A i \in DOMAIN paths :
                 /\ c.throughputOrigin \in {None, paths[i].origin}
                 /\ c.throughputTransport \in {None, paths[i].transport}
                 /\ c.protocol \in {None, paths[i].protocol}
                 /\ \E j \in DOMAIN server.offered.throughput :
                       LET target == server.offered.throughput[j]
                       IN /\ target.transport = paths[i].transport
                          /\ Resolve(target.base, server.origin) = paths[i].origin
                          /\ target.protocol \in {"Negotiated", paths[i].protocol}

\* What a run holds once its check found the path's protocol.
Held(found, path) == Need(config.streams, [path EXCEPT !.protocol = found])

\* The lease covers what any candidate path's run holds at once, whatever its check
\* finds, but for one case: fewer than three automatic streams, counted for HTTP/1.1
\* on a negotiated path that turns out to be HTTP/2, which takes five.  There it is
\* short, by three measurements at most.
LeaseCovers ==
    \A id \in DOMAIN Offered :
        LET paths == ThroughputCandidates(config.choice, Offered[id].origin, Offered[id].offered)
            lease == Ceilings(config.streams, paths)
        IN \A i \in DOMAIN paths :
              \A found \in IF paths[i].protocol # "Negotiated" THEN {paths[i].protocol} ELSE {"Http1", "Http2", "Http3"} :
                  LET held == Held(found, paths[i])
                      short == held.lanes + 3 - lease.measurements
                  IN /\ lease.sessions >= held.sessions
                     /\ short > 0 <=> /\ paths[i].protocol = "Negotiated" /\ found = "Http2"
                                      /\ config.streams.forced = 0 /\ config.streams.auto < 3
                     /\ short <= 3
==============================================================================
