---------------------------- MODULE MCClientPaths ----------------------------
(***************************************************************************)
(* The clients' choices and counts for TLC, part by part: the settings     *)
(* sheet's times, its stages, its streams, and its path rows beside checks *)
(* of test servers; the offers of a server's settings; a path check of one *)
(* server with every fault, and of two; a dial of three and two addresses; *)
(* the browser's History with a database that answers and one that fails,  *)
(* and its limiter of checks; the aggregate of one upload whose receiver   *)
(* may be replaced, over four boundaries and with a lagging feed over      *)
(* three, of two downloads over five and of two uploads over two. Each is  *)
(* explored on its own: the variables of the parts out of focus hold       *)
(* Nothing.                                                                *)
(***************************************************************************)
EXTENDS Integers, Sequences, TLC

CONSTANTS east, west

VARIABLES
    focus,
    config, view, recheck, asked,
    settings, phase, offerOffered,
    checkNow, catalog, servers, sides, flights,
    dialNow, chains, outcome,
    rows, clears, requests, notices, historyQueue, drain, retrying, settled, lost, historyOffered, saving,
    known, changes, completed, faults, overtaken, crossed,
    priority, state, limiterQueue, counts,
    plan, agg, present, log, truth, aggregateBase

StartConfig ==
    [servers |-> {}, stages |-> {"Latency", "Download", "Upload"}, warmup |-> 8,
     durations |-> [Latency |-> 40, Download |-> 100, Upload |-> 100, Bidirectional |-> 100],
     choice |-> [throughputOrigin |-> "None", throughputTransport |-> "None", protocol |-> "None",
                 latencyOrigin |-> "None", latencyTransport |-> "None"],
     streams |-> [auto |-> 6, forced |-> 0], idle |-> 0, loaded |-> 2, skip |-> TRUE, insecure |-> FALSE]

\* Every stage at its shortest.
StartStages ==
    [StartConfig EXCEPT !.durations = [Latency |-> 10, Download |-> 10, Upload |-> 10, Bidirectional |-> 10]]

StartPaths ==
    {[StartConfig EXCEPT !.choice.protocol = "Http1"], [StartConfig EXCEPT !.choice.throughputTransport = "WebTransport"]}

\* Listeners on shared ports, and public origins that listeners, proxies and a
\* native origin share.
Shared == <<"https", "p", 443>>
TestAddresses == [H1 |-> {<<>>, <<"x", 80>>}, H1Tls |-> {<<>>, <<"x", 2>>}, H2 |-> {<<>>, <<"x", 2>>, <<"y", 3>>},
                  H3 |-> {<<>>, <<"z", 2>>, <<"y", 3>>}]
TestPublics == [H1 |-> {<<>>}, H1Tls |-> {<<>>, Shared}, H2 |-> {<<>>, Shared, <<"https", "h", 2>>}, H3 |-> {<<>>, Shared}]
TestLists == [both : {<<>>, <<<<"Served">>>>, <<Shared>>}, throughput : {<<>>, <<Shared>>}, latency : {<<>>, <<<<"Served">>>>}]

O == INSTANCE ServerOffer WITH
    Addresses <- TestAddresses, Publics <- TestPublics,
    Advertising <- {{"H1", "H1Tls", "H2", "H3"}, {"H1"}, {"H2", "H3"}}, Lists <- TestLists, Hosts <- {"h"},
    offered <- offerOffered

\* Two servers: three listeners beside a proxy of the served origin; and of three
\* listeners two at one origin and one not advertised, behind two proxies.
Listening(protocol, base, advertised) == [protocol |-> protocol, base |-> base, advertised |-> advertised]
Proxied(both) == [both |-> both, throughput |-> <<>>, latency |-> <<>>]

TestServers ==
    <<[origin |-> "a", offered |-> O!Preflight(<<Listening("Http1", "a1", TRUE), Listening("Http2", "a", TRUE),
                                                  Listening("Http3", "a3", TRUE)>>, Proxied(<<"Served">>))],
      [origin |-> "p", offered |-> O!Preflight(<<Listening("Http1", "p1", FALSE), Listening("Http2", "q", TRUE), Listening("Http3", "q", TRUE)>>, Proxied(<<"p", "a">>))]>>

Plans ==
    {[servers |-> {east}, directions |-> {"up"}, end |-> 4, receivers |-> 2, lag |-> 0],
     [servers |-> {west}, directions |-> {"up"}, end |-> 3, receivers |-> 2, lag |-> 1],
     [servers |-> {east, west}, directions |-> {"down"}, end |-> 5, receivers |-> 1, lag |-> 0],
     [servers |-> {east, west}, directions |-> {"up"}, end |-> 2, receivers |-> 1, lag |-> 0]}

D == INSTANCE Settings WITH
    Rows <- {"Upload", "SkipLoadedLatency", "IdleCadence", "LoadedCadence"}, Starts <- {StartConfig},
    Offered <- <<>>, Default <- {}, Typed <- {0, 10, 605, 6000, 864001}, MaxSelected <- 1, MaxStreams <- 14,
    MaxWarmup <- 40, MaxStage <- 864000

T == INSTANCE Settings WITH
    Rows <- {"Latency", "Download", "Upload", "Bidirectional"}, Starts <- {StartStages}, Offered <- <<>>,
    Default <- {}, Typed <- {0, 20, 21}, MaxSelected <- 1, MaxStreams <- 14, MaxWarmup <- 40, MaxStage <- 20

S == INSTANCE Settings WITH
    Rows <- {"Streams", "ForceStreams", "Warmup", "Insecure", "Reset"}, Starts <- {StartConfig},
    Offered <- <<TestServers[2]>>, Default <- {1}, Typed <- {0, 3, 41}, MaxSelected <- 1, MaxStreams <- 14,
    MaxWarmup <- 10, MaxStage <- 100

P == INSTANCE Settings WITH
    Rows <- {"ThroughputPath", "Protocol", "LatencyPath", "Servers", "Reset"}, Starts <- StartPaths,
    Offered <- TestServers, Default <- {1}, Typed <- {}, MaxSelected <- 2, MaxStreams <- 14, MaxWarmup <- 40,
    MaxStage <- 100

K == INSTANCE PathCheck WITH
    Servers <- {1},
    Candidates <- [Throughput |-> <<"Fetch", "Session">>, Latency |-> <<"Datagram", "Socket">>],
    Faults <- {"SignIn", "Shutdown", "Incompatible", "Lost"}, Preparation <- 7, Verify <- 3, Reply <- 1,
    MaxPings <- 4, now <- checkNow

J == INSTANCE PathCheck WITH
    Servers <- {1, 2}, Candidates <- [Throughput |-> <<"Fetch", "Session">>, Latency |-> <<>>],
    Faults <- {"SignIn", "Incompatible", "Lost"}, Preparation <- 3, Verify <- 1, Reply <- 1, MaxPings <- 1,
    now <- checkNow

L == INSTANCE Dial WITH
    Sizes <- [Primary |-> 3, Fallback |-> 2], Timeout <- 9, Delay <- 1, MinShare <- 2, now <- dialNow

H == INSTANCE HistorySaving WITH
    MaxQueued <- 2, Limit <- 1, MaxRecords <- 2, MaxClears <- 1, MaxFaults <- 0, MaxNotices <- 2,
    MaxRequests <- 3, queue <- historyQueue, offered <- historyOffered

F == INSTANCE HistorySaving WITH
    MaxQueued <- 2, Limit <- 1, MaxRecords <- 3, MaxClears <- 1, MaxFaults <- 1, MaxNotices <- 0,
    MaxRequests <- 3, queue <- historyQueue, offered <- historyOffered

M == INSTANCE CheckLimiter WITH
    Checks <- 1..4, Origin <- <<"a", "a", "a", "b">>, Total <- 3, PerOrigin <- 2, Background <- 1,
    MaxPriority <- 1, queue <- limiterQueue

A == INSTANCE StageAggregate WITH
    Servers <- {east, west}, Plans <- Plans, MaxIntervals <- 3, MinPeak <- 2, base <- aggregateBase

sheet == <<config, view, recheck, asked>>
offer == <<settings, phase, offerOffered>>
check == <<checkNow, catalog, servers, sides, flights>>
dial == <<dialNow, chains, outcome>>
history == <<rows, clears, requests, notices, historyQueue, drain, retrying, settled, lost, historyOffered, saving,
    known, changes, completed, faults, overtaken, crossed>>
limiter == <<priority, state, limiterQueue, counts>>
aggregate == <<plan, agg, present, log, truth, aggregateBase>>

NoSheet ==
    /\ config = "Nothing" /\ view = "Nothing" /\ recheck = "Nothing" /\ asked = "Nothing"

NoOffer ==
    /\ settings = "Nothing" /\ phase = "Nothing" /\ offerOffered = "Nothing"

NoCheck ==
    /\ checkNow = "Nothing" /\ catalog = "Nothing" /\ servers = "Nothing" /\ sides = "Nothing"
    /\ flights = "Nothing"

NoDial ==
    /\ dialNow = "Nothing" /\ chains = "Nothing" /\ outcome = "Nothing"

NoHistory ==
    /\ rows = "Nothing" /\ clears = "Nothing" /\ requests = "Nothing" /\ notices = "Nothing"
    /\ historyQueue = "Nothing" /\ drain = "Nothing" /\ retrying = "Nothing" /\ settled = "Nothing"
    /\ lost = "Nothing" /\ historyOffered = "Nothing" /\ saving = "Nothing" /\ known = "Nothing"
    /\ changes = "Nothing" /\ completed = "Nothing" /\ faults = "Nothing" /\ overtaken = "Nothing"
    /\ crossed = "Nothing"

NoLimiter ==
    /\ priority = "Nothing" /\ state = "Nothing" /\ limiterQueue = "Nothing" /\ counts = "Nothing"

NoAggregate ==
    /\ plan = "Nothing" /\ agg = "Nothing" /\ present = "Nothing" /\ log = "Nothing" /\ truth = "Nothing"
    /\ aggregateBase = "Nothing"

MCInit ==
    \/ /\ focus = "durations" /\ D!Init
       /\ NoOffer /\ NoCheck /\ NoDial /\ NoHistory /\ NoLimiter /\ NoAggregate
    \/ /\ focus = "stages" /\ T!Init
       /\ NoOffer /\ NoCheck /\ NoDial /\ NoHistory /\ NoLimiter /\ NoAggregate
    \/ /\ focus = "streams" /\ S!Init
       /\ NoOffer /\ NoCheck /\ NoDial /\ NoHistory /\ NoLimiter /\ NoAggregate
    \/ /\ focus = "paths" /\ P!Init
       /\ NoOffer /\ NoCheck /\ NoDial /\ NoHistory /\ NoLimiter /\ NoAggregate
    \/ /\ focus = "offers" /\ O!Init
       /\ NoSheet /\ NoCheck /\ NoDial /\ NoHistory /\ NoLimiter /\ NoAggregate
    \/ /\ focus = "check" /\ K!Init
       /\ NoSheet /\ NoOffer /\ NoDial /\ NoHistory /\ NoLimiter /\ NoAggregate
    \/ /\ focus = "checks" /\ J!Init
       /\ NoSheet /\ NoOffer /\ NoDial /\ NoHistory /\ NoLimiter /\ NoAggregate
    \/ /\ focus = "dial" /\ L!Init
       /\ NoSheet /\ NoOffer /\ NoCheck /\ NoHistory /\ NoLimiter /\ NoAggregate
    \/ /\ focus = "tabs" /\ H!Init
       /\ NoSheet /\ NoOffer /\ NoCheck /\ NoDial /\ NoLimiter /\ NoAggregate
    \/ /\ focus = "storage" /\ F!Init
       /\ NoSheet /\ NoOffer /\ NoCheck /\ NoDial /\ NoLimiter /\ NoAggregate
    \/ /\ focus = "limiter" /\ M!Init
       /\ NoSheet /\ NoOffer /\ NoCheck /\ NoDial /\ NoHistory /\ NoAggregate
    \/ /\ focus = "counts" /\ A!Init
       /\ NoSheet /\ NoOffer /\ NoCheck /\ NoDial /\ NoHistory /\ NoLimiter

MCNext ==
    \/ focus = "durations" /\ D!Next /\ UNCHANGED <<focus, offer, check, dial, history, limiter, aggregate>>
    \/ focus = "stages" /\ T!Next /\ UNCHANGED <<focus, offer, check, dial, history, limiter, aggregate>>
    \/ focus = "streams" /\ S!Next /\ UNCHANGED <<focus, offer, check, dial, history, limiter, aggregate>>
    \/ focus = "paths" /\ P!Next /\ UNCHANGED <<focus, offer, check, dial, history, limiter, aggregate>>
    \/ focus = "offers" /\ O!Next /\ UNCHANGED <<focus, sheet, check, dial, history, limiter, aggregate>>
    \/ focus = "check" /\ K!Next /\ UNCHANGED <<focus, sheet, offer, dial, history, limiter, aggregate>>
    \/ focus = "checks" /\ J!Next /\ UNCHANGED <<focus, sheet, offer, dial, history, limiter, aggregate>>
    \/ focus = "dial" /\ L!Next /\ UNCHANGED <<focus, sheet, offer, check, history, limiter, aggregate>>
    \/ focus = "tabs" /\ H!Next /\ UNCHANGED <<focus, sheet, offer, check, dial, limiter, aggregate>>
    \/ focus = "storage" /\ F!Next /\ UNCHANGED <<focus, sheet, offer, check, dial, limiter, aggregate>>
    \/ focus = "limiter" /\ M!Next /\ UNCHANGED <<focus, sheet, offer, check, dial, history, aggregate>>
    \/ focus = "counts" /\ A!Next /\ UNCHANGED <<focus, sheet, offer, check, dial, history, limiter>>

MCvars == <<focus, sheet, offer, check, dial, history, limiter, aggregate>>

MCSpec == MCInit /\ [][MCNext]_MCvars

Symmetry == Permutations({east, west})

\* A server offers what its settings say, a client tries what it offers and was
\* chosen, leases what that takes but for one case, and keeps settings that a run's
\* start accepts once a stage is on: see OffersSound of ServerOffer, and
\* CandidatesSound, LeaseCovers and SettingsValid of Settings.
PathsSound ==
    /\ focus = "durations" => D!SettingsValid
    /\ focus = "stages" => T!SettingsValid
    /\ focus = "streams" => S!SettingsValid /\ S!LeaseCovers
    /\ focus = "offers" => O!OffersSound
    /\ focus = "paths" => P!CandidatesSound /\ P!LeaseCovers

\* A path or a version chosen on a row is one its check accepts: see
\* ChoicesAccepted of Settings.
ChoicesAccepted == [][focus = "paths" => P!ChoicesAccepted]_MCvars

\* A check ends as its candidates did, with its own round trip, a dial gives every
\* address its turn, and the browser's limiter counts its checks exactly and keeps
\* none waiting that may start: see OutcomeSound and RttIsOwn of PathCheck,
\* DialTriesAll of Dial and LimitsHeld of CheckLimiter.
CheckSound ==
    /\ focus = "check" => K!OutcomeSound /\ K!RttIsOwn
    /\ focus = "checks" => J!OutcomeSound
    /\ focus = "dial" => L!DialTriesAll
    /\ focus = "limiter" => M!LimitsHeld

\* A clear outlasts the writes queued before it, no queued write is forgotten and a
\* result shown as saved is in History: see ClearsOutlast, NeverForgotten and
\* SavedIsThere of HistorySaving.
HistorySound ==
    /\ focus = "tabs" => H!ClearsOutlast /\ H!NeverForgotten /\ H!SavedIsThere
    /\ focus = "storage" => F!ClearsOutlast /\ F!NeverForgotten

\* The aggregate counts no byte twice and none that no one sent, and its intervals
\* share none and follow one another without a gap: see NeverOvercounts,
\* WindowsWithinLedger, IntervalsConsecutive and CountedIsContinuous of
\* StageAggregate.
CountsSound ==
    focus = "counts" =>
        A!NeverOvercounts /\ A!WindowsWithinLedger /\ A!IntervalsConsecutive /\ A!CountedIsContinuous
==============================================================================
