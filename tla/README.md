# graphite-meter in TLA+

graphite-meter measures throughput and latency between a client and a server it
trusts to count. The server (`rust/server`) serves payload, counts uploads,
leases its capacity to clients and signs operators in. Two clients measure
against it: a terminal client (`rust/client`) and a browser client
(`client/src`). They share an HTTP/3 and WebTransport crate (`rust/http3`),
dialling code (`rust/net`) and the protocol's documents (`rust/proto`).

This directory holds TLA+ models of the parts where concurrency, time and
partial failure decide correctness, TLC configurations that check them on small
instances, and TLAPS proofs of nine components' main properties for every
instance. `PROJECT.json` maps each definition to the lines it models and lists
runs, properties, mutants, hazards and theorems.

Run a check with `tlc -config <X>.cfg <module>` (section 3 names both) and the
proofs with `tlapm <module>`.

## 1. The system, its parts and their modules

| Part | Source | Module | What makes it hard |
| --- | --- | --- | --- |
| Upload store | `server/engine/uploads.rs` | UploadStore | finish takes two locks; an ID outlives its entry; capacity returns with the entry |
| Upload receiver and feed | `server/engine/uploads.rs`, `mod.rs` | UploadAggregate | lock-free counters observed under a lock; missed wakeups; no timer on datagram lanes |
| Admission | `server/admission.rs`, `limits/quota.rs` | Admission | a resize takes holds one by one and can fail halfway; `end` races it |
| Lanes and replies | `server/lane.rs`, `transport/body.rs` | Lane | the first of several endings decides |
| HTTP/2 connection | `transport/http2.rs`, `lifecycle.rs`, `window.rs` | Http2Connection | one task polls everything; timers go stale |
| HTTP/1.1, WebSocket | `transport/http1.rs`, `websocket.rs` | Http1Connection | pipelining; keep-alive against deadlines |
| Listeners, runtime | `transport/accept.rs`, `runtime/mod.rs` | Listener | back-off, drain, one listener breaking |
| Certificates | `transport/tls.rs` | Certificates | two files are renewed while a reload reads one, then the other |
| Sign-ins | `server/auth/` | SignIns | handlers take the store's lock more than once |
| Attempts | `server/auth/rate.rs` | Attempts | a full table, an address and its network |
| Buffer budget | `limits/budget.rs`, `transport/quic/budget.rs` | BufferBudget | credit is drawn on after it is returned; pressure is read in three loads |
| QUIC endpoints | `transport/quic/endpoint.rs`, `shard.rs` | QuicShards | packets of one client reach several sockets |
| QUIC connection | `transport/quic.rs` | QuicConnection | idleness is sampled |
| WebTransport routes | `transport/webtransport*` | WebTransportRoute | several tasks see different endings |
| HTTP/3 driver, sessions | `http3/driver.rs`, `webtransport.rs`, `stream.rs` | Http3Session | a registry shared by driver and application |
| HTTP/3 messages, control | `http3/message.rs`, `frame.rs`, `driver.rs` | Http3Message, Http3Control | frames arrive in any chunks |
| Controller | `client/controller.rs`, `net/mod.rs`, `run/prepare.rs` | Controller, Operations | answers outlive their asker |
| Console | `client/events.rs`, `tui/` | Console, Settings | keys race queued events |
| Path checks, offers | `client/run/prepare.rs`, `select.rs`, `server/app/control.rs`, `config/` | PathCheck, ServerOffer, Settings | one deadline over many candidates |
| Connections and lanes | `client/net/mod.rs`, `conn.rs`, `lanes.rs`, `retry.rs` | ClientConnections, ClientLanes | retries, shared dials, late failures |
| Upload sessions | `client/run/upload.rs` | UploadSession | a receiver is replaced while its stage ends |
| Approval polls, dialling | `client/net/approval.rs`, `net/dial.rs` | SignInPoll, Dial | deadlines |
| Stage engine | `client/run/engine.rs`, `coordinator.rs` | StageEngine | several servers fail in one tick; bounds restart |
| Throughput aggregate | `client/measure/aggregate.rs` | StageAggregate | late evidence, replaced receivers, boundaries in the past |
| Prober | `client/run/probe.rs`, `net/bus.rs` | Prober | late, lost and duplicate replies |
| Browser's run | `client/src/engine/run/` | BrowserRun | callbacks of every server while the clock is held |
| History, limiter of checks | `client/src/app/history/`, `engine/net/limiter.ts` | HistorySaving, CheckLimiter | other tabs; priorities that change |

Components meet in a few places. A lane of an upload joins an aggregate, is
admitted under a lease and lives on a connection. A run of the terminal client is
a chain of stages under the controller, whose console acts on its events. Each
module keeps the others' part as a free choice of its environment, which allows
more behaviours than the composition. Two modules are composed by refinement:
Console is explored over Operations, the little that the console may rely on, and
Controller is shown to implement Operations (section 4).

## 2. How to read a module

A module declares its constants, its state, an action per handler or step, and its
properties. Definitions keep the source's names where they can. A function that
runs under a lock or between two awaits is one step; a handler that locks, awaits
or stores twice is a task with a step for each.

- **UploadStore.** `store.heap` is every aggregate ever made; a handle is an index
  and stands for an `Arc`, so a lane or a finish can hold one the map no longer
  has. `Reach` is all that happens under the `entries` lock; `Finish` is the first
  lock of finishing, `Finalize` the second. `displace` takes its victim out of the map
  under one lock and expires it under another (`ExpireDisplaced`).
- **UploadAggregate.** `Mark` and `Count` are the two atomic writes of `record`.
  `Notify` wakes only who enabled before it.
- **Admission.** Leases, resizes, the task that ends an unused lease, and requests
  that use a grant, go past it or come without a lease. A resize holds the lease's
  state across its takes; `end` cancels before it locks.
- **Lane, Http2Connection, Http1Connection, Listener, WebTransportRoute.** Timers
  hold the time they have left, `Off` is none. Time never passes a timer that the
  task's last poll registered. A listener that drained closes its socket: a QUIC
  endpoint waits up to `CLOSE_FLUSH` for its last packets, a TCP listener for nothing.
- **BufferBudget.** What an endpoint, a connection and its credit hold. `Read...`
  are the loads of one pressure reading among the others' steps.
- **Controller and Operations.** Controller has the chain of checks and runs, their
  lease requests and the tasks that end leases. Operations is what its events
  promise: `KeepsPromise` reads Controller's state through the events still queued.
  A selection may ask for sign-in once per origin (`Askers`).
- **ClientLanes.** A connection told to go away is `Leaving` until it has heard of it,
  and looks usable until then.
- **Settings.** `Need` and `Ceilings` are what a path takes and what a lease asks for;
  `Validate` is the run's own check of its settings.
- **Attempts.** A known device is asked for its share only, a stranger also for the
  ceiling and for room in the table (`Passes`).
- **StageEngine, StageAggregate, Prober.** A tick is one synchronous call in the code;
  the only interleavings are at the coordinator's awaits. One is the opening: upload
  IDs are minted server by server (`Mint`), lanes send as soon as theirs is, the first
  tick waits for the slowest (`Joined`), and a stop may fall anywhere in it. A tick may
  fire late. StageAggregate compares its arithmetic with a reference count (`truth`,
  `base`, `log`); a receiver's feed may tell a count behind the receiver's, or nothing yet.
- **BrowserRun.** One record `run`: the page is one thread, and a step is a call, a
  callback or the continuation of an `await`. A server finishes once its own final
  evidence is known (`FinishKnown`): its checkpoint, and the flush of everyone's
  download lanes at their one cutoff, or a refusal.
- **Counting.** `Tally` sums a function over a finite set as the cardinality of a
  set of units, so that the provers can reason about sums without induction.

## 3. Runs

Where one run holds several instances, a variable `focus` chooses one in the
initial state. The others rest in their initial state or hold "Nothing".

| Run (`.cfg`, module) | Instance | Shows |
| --- | --- | --- |
| `uploads` (Uploads, MCUploads) | 3 IDs, 2 owners with a key each and one they share, capacity 2, lifetime 1, clock to 2; a receiver with a stream and a datagram lane, a feed, a checkpoint, a finish, counters that saturate at 1 | an ID names one aggregate; capacity and lane counts exact; lives only forward, and expired or removed only when unused; totals exact, observations never back |
| `admission` (Admission, MCServer) | 2 leases of 2 clients, 2 requests, 3 operations, 1 session | quotas exact, work covered, only unused leases fall due |
| `server_progress` (ServerProgress, MCServer) | a datagram lane with a feed, two feeds, a lease with 2 requests | liveness: lanes leave, feeds end, leases end |
| `sign_ins` (SignIns, MCServer) | caps of 1 and 2, 2 requests, a lane; with OIDC, with a terminal and a browser, with two terminals | what a login gave out goes with it; a grant for each approval |
| `server_connections` (ServerConnections, MCServerConnections) | 2 HTTP/2 streams; an HTTP/1.1 connection; 2 listeners, one of them QUIC, 2 peers, 3 holds; 3 certificate versions; 3 clients' attempts | connections end in time and not before their grace; the wide window is funded; a whole pair is served; attempts within shares |
| `quic` (Quic, MCQuic) | 2 connections with 2 uploads and an endpoint on 12 units; up to 4 endpoints, 2 clients; a connection; a session per route; a driver with a lane, with 2 requests; a message of up to 4 frames; 2 control streams | the budget exact; packets reach their owner; quiet connections end; nothing outlives a connection; the first ending is told |
| `stage` (Stage, MCStage) | 5 plans of 1 or 2 servers, with late ticks and slow openings; a prober of each cadence; a browser's run over 2 servers, over 1 that uploads and over 1 without a latency path | work and engine agree; gaps explained; bounded phases; probes resolve once; silence never empties a stage |
| `client` (Client, MCClient) | 3 connections, 2 requests; a lane with every fault, a group of 2; 3 receivers over 2 stages; a sign-in; 2 operations over 3 clients; 5 uses of the console | safe retries in time; no lease without an owner or an ender; the controller keeps its promise; the console settles |
| `client_paths` (ClientPaths, MCClientPaths) | the settings sheet's rows over 2 servers; a server's offers; path checks of 1 and 2 servers; a dial of 5 addresses; History with another tab; the limiter; aggregates over 2, 4 and 5 boundaries | settings a run accepts; when a lease covers its run; a check answers for what was asked; History keeps what it said; bytes counted once |
| `client_checking` (ConsoleChecking, Console), `client_finish` (ControllerFinish, Controller) | 2 and 3 operations | the two disagreements of section 6 |

Why these bounds are enough. Counting properties need two parties and a limit one
of them can reach while the other holds something: two owners of a shared key, two
clients on three operations, two listeners on three holds, two connections whose
credits do not both fit. Ordering properties need a second event between the two
steps of the first, so each handler with two locks or awaits has one other actor
per thing that can happen in between. Time bounds keep the order that matters (a
grace shorter than a request's timeout, an idle bound longer than an exchange's) and
not the code's values; most are one to four units, so a property that only fails
over longer times than these is not found by TLC. Counters end at named bounds (`MaxTime`, `MaxBytes`, `MaxSequence`, `MaxOps`,
`MaxEvents`, `MaxOpen`, `Copies`, `MaxFrames`). Every property is violated, under
the bounds of its own run, by a mutation of the code it is about.

**Deadlock** is checked in `stage`, where an end is an explicit stuttering step. It
is off where the system may rest for good: all leases ended, connections closed, a
server stopped, a console nobody touches, a behaviour at its bounds.

**Fairness** appears only in `server_progress`. Tokio runs a woken task eventually:
each task's step is fair. Strong fairness is used where a step needs a lock or a
`select!` arm that others take and release again and again (`life`, `observing`,
the lease's state): the locks are fair to a waiter. Weak fairness is enough for
`notify_waiters` after its change, for a resize that has its lock, and for the
clock. No peer, client or user is assumed to do anything. The other modules bound
time instead: "ends in time" is a safety property over the time that has passed.

**Symmetry** is used over IDs, requests, test servers, streams, listeners, principals,
connections, uploads and clients, only with safety properties.

## 4. Proofs

Every theorem holds for all values of the constants that satisfy the module's
`ASSUME` or, where the theorem names one, its hypothesis: TLC evaluates
`ReceiverAssumption` and `ListenerAssumption` on the instances of MCUploads and
MCServerConnections. TLC finds each inductive invariant below to hold on the constants of the
component's run, in a module that extends the proofs' and is not kept here. TLC
cannot enumerate the types of UploadStoreProofs, UploadAggregate and the pressure's
reader, so those conjuncts were checked field by field.

| Module | Theorem | Statement | Assumes |
| --- | --- | --- | --- |
| UploadStoreProofs | `OneAggregatePerId` | `[]IdNamesOneAggregate` | finite IDs and sinks, `MaxLive` > 0 |
| | `TypeCorrect` | `[]TypeOK` | |
| | `CapacityExact` | `[]CapacityAccounted` | |
| | `LanesExact` | `[]LanesAreSinks` | |
| | `LivesOnlyForward` | `LivesForward` | |
| UploadAggregate | `ToldTotalsExact` | `[]TotalsExact` | finite lanes, feeds that are no checkpoints, a natural bound of the counters (`ReceiverAssumption`) |
| | `ToldInOrder` | `ObservationsFollow` | |
| AdmissionProofs | `LeasesCover` | `[]LeaseCovered` | finite leases, clients and work |
| | `DueWhenUnused` | `DueOnlyUnused` | |
| | `QuotasAreExact` | `[]QuotasExact` | |
| ConnectionProofs | `ConnectionsCloseInTime` | `[]ClosesInTime` | natural bounds |
| | `WindowsFunded` | `[]WindowFunded` | |
| | `WorkRunsOut` | `WorkUncut` | |
| | `ServedPairSound` | `[]CertificatesSound` | a torn file is no version |
| | `ServerStopsInTime` | Listener's `[]StopsInTime` | finite listeners and connections, natural times (`ListenerAssumption`) |
| BufferBudgetProofs | `BudgetIsExact` | `[]BudgetExact` | finite connections and endpoints, natural sizes |
| | `PressureNotOverread` | `[]PressureBounded` | |
| ControllerProofs | `LeasesNotOrphaned` | `[]NoLeaseOrphaned` | a grace above zero |
| | `ControllerKeepsPromise` | `KeepsPromise`: Controller implements Operations | |
| Prober | `ProbesResolveOnce` | `[]ResolvesOnce` | a window above zero, natural deadlines |
| | `ClosedStaysQuiet` | `ClosedSendsNothing` | |

*Uploads.* `IdNamesOneAggregate` is not inductive: where an ID's aggregate is gone and
the ID still usable, `reach` would make a second one. `IInv` adds `GoneIsSpent`: an ID
whose aggregate left the map has a tombstone or is past its lifetime. A sweep needs
`TouchedSinceIssue` for that, a displacement the tombstone, dropped only with the ID's
lifetime. `Accounted` says that `used` and `held` are the cardinalities of the map and
of each key's part of it. `Laned` says that lane counts are numbers of open sinks and
that an aggregate with lanes, or with bytes and not expired, is in the map: a sweep or a
displacement spares those while they are fresh, so both are needed, and `LivesForward`
follows from what each step does to one aggregate (`Lives`).

*Receiver.* `ReceiverInv` carries the two locks (`Locked`): a feed counts with `life`
held and an observer loads and tells with `observing` held. So a feed that finds no lane
left when it tells had none when it loaded the bytes (`Exact`), and what an observer has
loaded stays ahead of what was last told (`Ordered`). `Timed` is the order of the two
writes of `record`: a lane that is to count has stamped `first`.

*Admission.* `LeaseInv` is about one lease at a time: what it holds is its grant and what
a resize under way has raised; its counts of use are the numbers of live requests under
it (`WorkCounted`); a cancelled one holds what its work uses. A drop gives back a hold
only past the shrunk grant, which needs the exact count. `QuotaInv` then relates each
quota to the sum of all holds: `Tally` of the leases' holds, of work past a grant and of
handlers. The sums move by what the step moved (`TallyChange`), one lemma per kind of
step, and the limits hold since every take checked them under the quota's lock.

*HTTP/2.* A deadline is only as good as the poll that sets it. `ConnectionInv` relates
what the lifecycle last saw to what is so: `Observed` (its `busy` is the truth of the
last poll), `Stops` (once the server stops, the close is within the grace of it) and
`Idles` (the time left of `stale` and `quiet`, with the age of the last work and of the
last stream, stays within the idle bound). Time only passes after a poll, which is why
these survive `Tick`, the one step that moves time.

*Buffer budget.* Per connection, `Sound` bounds what is drawn on a credit, its overdraft
and what noq still holds; with `CreditFollowsUploads` and `ReadersOpen` it is inductive
on its own (`BudgetInv`). The total is `Held` plus the `Tally` of what connections hold,
and each step changes one summand (`ConnAccounts`).

The pressure's reading is a second invariant (`ReaderInv`): the reserved total is the
released one and the bytes of the endpoints in between, and the released total is loaded
first, so the reservations left out of the reading are at least those held when the use
was read.

*Certificates.* A reload reads certificate and key apart. `Followed` says what each file
holds while a renewal is half written and what the reload under way can have read of
it; a pair from two renewals never matches, so what is served was whole.

*Listeners.* `StopsInTime` needs where the time goes: a listener takes at most
`StopBound`, the grace of its drain and the flush of its close. `Drained` bounds each
part; `Stopping` adds the time since the shutdown to what is left of both; `Breaking`
says that from the first break on some listener's stop, with the time since the break,
stays within `StopBound`, or ended within it, which is the shutdown's cause. Twice
`StopBound` follows. The holds are the cardinality of the connections that run.

*Prober.* `ProbeInv` says which probes are resolved (`Resolved`) and, for the
reply-driven cadence, that the probe in flight is the last one sent and the next is due
no earlier than its deadline (`OneFlies`): by then it has timed out, so a second never
flies beside it.

*Controller.* `LeaseInv` adds to `NoLeaseOrphaned` where in the chain an operation can
have a client (`Chained`) and that the kept check's client is nobody else's (`Kept`).
The refinement maps the chain and the queue: a finished operation that sent its last
event is Operations' finished one, and the events not yet taken are those Operations
has said and not shown. `Cuts` (an operation cut by its grace is a stopped one) and
`Queued` (the queue's length) strengthen it. There is a lemma for each action: it is a
step of Operations or changes nothing Operations sees.

Only model-checked, and why:

- Liveness under fairness (`server_progress`) and what needs ENABLED.
- What folds and recursive definitions compute for every input: StageAggregate's
  intervals, BrowserRun's loops over servers, Console's tables.
- `PressureNeverHigh`, the exact form of `PressureBounded`: it does not hold for every
  value of the constants. Pressure's fractions are integer divisions, so a limit or an
  endpoint's size that is not a multiple of four can read a level too high, within the
  few bytes the division drops; `PressureBounded` says how many and is proved.
  `GM_MAX_BUFFER_BYTES` may be any number; the run's sizes are multiples of four.
- The properties of the remaining components, whose invariants have not been made
  inductive yet, among them SignIns, Attempts, Http1Connection, QuicConnection,
  Http3Session, StageEngine and ClientLanes; and `DrainsInTime` of Prober.

## 5. What is abstracted, what is left out

- Byte counts, rates and times are small numbers, or the comparison a property needs.
  Saturation at `MAX_COUNTER` is kept.
- A network key, an owner or a principal is a model value; how it is derived from an
  address or a header is not modelled. Header, cookie and form encodings neither.
- The learnt probe deadline is any of a set. A stage's evidence is enough or not, by
  choice, in StageEngine and BrowserRun.
- hyper, h2, noq, rustls, tokio's `Notify`, IndexedDB and the OIDC provider are modelled
  from how the code uses them.
- A panic inside a task, the process's last two seconds (`Controller::close`), hashing
  and discovery.
- Not modelled at all: drawing, reports, wording, codecs held to the repository's
  vectors, the browser's lanes and workers (BrowserRun has what they report), the
  browser's checks and leases, and scripts. `PROJECT.json` lists every part.
- HistorySaving's property leaves out a result that waits for the first read of the
  database while another tab clears it, and reads that fail at that moment.

## 6. Findings

- **A cancelled sign-in leaves the console checking** (`client_checking`). If the prompt
  is cancelled after the approval ended the sign-in and before the console took that
  event, the stop reaches the check that follows, which ends without a word.
  `tui/paths.rs` describes the state as a check under way; none is.
- **A run can end twice** (`client_finish`). A run reports its end and then waits for its
  leases to end. A stop whose grace runs out there reports the end again, as stopped.
  The controller's tests say "a run that ends needs no grace" and "a finished operation
  sends nothing more"; both hold only if the leases end within the grace.

Narrower windows met while modelling, which the properties leave out by name:

- A negotiated path found to be HTTP/2 with fewer than three automatic streams holds
  more lanes than its lease asked for (`run/prepare.rs:285`). `LeaseCovers` says that
  this is the only case, and that the lease is three measurements short at most.
- A stage stopped while its participants open ends before its receivers are asked to
  finalize (`run/coordinator.rs:259`; `EndsQuiet`).
- A run stopped before it starts clears the recheck that a setting changed meanwhile
  asked for (`tui/mod.rs:381`).
- A path row acts on the last check's view, which may be of a server no longer selected;
  Settings leaves that selection out (`tui/paths.rs:183`).
- A result read under its count after another tab cleared History is written all the same
  (`app/history/saving.ts:75`).
- In the browser, a latency failure recorded before a stop hides the stop's reason.
