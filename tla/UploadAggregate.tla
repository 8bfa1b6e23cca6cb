--------------------------- MODULE UploadAggregate ---------------------------
(***************************************************************************)
(* One upload's receiver (rust/server/src/engine/uploads.rs, Aggregate and *)
(* engine/mod.rs, UploadSink and ProgressFeed): data lanes count bytes     *)
(* into it with two atomic writes, progress feeds and checkpoints observe  *)
(* it under its `observing` lock, and whatever changes its `life` wakes    *)
(* the waiters of `changed`.  A Notify wakes only the waiters enabled      *)
(* before it, so what a waiter reads before enabling can be missed.        *)
(* The store's part (when an aggregate is created or expires) is           *)
(* UploadStore; here an aggregate without lanes may expire at any time.    *)
(***************************************************************************)
EXTENDS Integers, FiniteSets, FiniteSetTheorems, TLAPS

CONSTANTS
    Streams,    \* data lanes that end with their stream or body
    Datagrams,  \* data lanes without a FIN, which wait for finished()
    Feeds,      \* progress feeds that may be attached
    Checks,     \* checkpoint callers
    Finishes,   \* finish calls
    Nobody,     \* no holder of a lock
    MaxCounter, \* MAX_COUNTER
    MaxBytes,   \* bound on the bytes received
    MaxTime     \* bound on the clock

VARIABLES
    now,        \* the store clock
    bytes,      \* Aggregate::bytes
    first,      \* Aggregate::first, the time of the first accepted chunk
    life,       \* Aggregate::life: [lanes, phase, reader]
    holder,     \* the feed that keeps `life` locked while it counts
    observing,  \* who holds the `observing` lock
    pending,    \* notify_waiters calls still to come after their change
    sinks,      \* sinks[s]: [pc, watch, woken]
    feeds,      \* feeds[f]: [pc, reader, ready, ticked, grid, woken]
    got,        \* got[o]: the bytes observer o loaded
    checks,     \* checks[k]: the pc of checkpoint k
    finishes,   \* finishes[c]: the pc of finish call c
    seen        \* the last observation made, in the order of the lock

vars == <<now, bytes, first, life, holder, observing, pending, sinks, feeds, got, checks,
          finishes, seen>>

LaneSinks == Streams \cup Datagrams
Observers == Feeds \cup Checks
Unset == -1
Min(a, b) == IF a < b THEN a ELSE b

Counters(b, n) == [bytes |-> Min(b, MaxCounter), nanos |-> Min(n, MaxCounter)]

Ended == {"Superseded", "Invalid", "Complete", "Dropped"}
Attached(f) == feeds[f].pc \in {"Top", "Step", "Count", "Loaded", "Rest", "Wait"}

(***************************************************************************)
(* Every change of `life` waits for a feed that counts with it locked.     *)
(***************************************************************************)
Init ==
    /\ now = 0 /\ bytes = 0 /\ first = Unset
    /\ life = [lanes |-> 0, phase |-> "Open", reader |-> 0]
    /\ holder = Nobody /\ observing = Nobody /\ pending = 0
    /\ sinks = [s \in LaneSinks |-> [pc |-> "Idle", watch |-> "Off", woken |-> FALSE]]
    /\ feeds = [f \in Feeds |-> [pc |-> "Idle", reader |-> 0, ready |-> FALSE,
                                 ticked |-> FALSE, grid |-> FALSE, woken |-> FALSE]]
    /\ got = [o \in Observers |-> 0]
    /\ checks = [k \in Checks |-> "Idle"]
    /\ finishes = [c \in Finishes |-> "Idle"]
    /\ seen = Counters(0, 0)

(***************************************************************************)
(* Data lanes.                                                             *)
(***************************************************************************)
Join(s) ==
    /\ sinks[s].pc = "Idle" /\ holder = Nobody /\ life.phase = "Open"
    /\ life' = [life EXCEPT !.lanes = @ + 1]
    /\ sinks' = [sinks EXCEPT ![s].pc = "Open",
                              ![s].watch = IF s \in Datagrams THEN "Top" ELSE "Off"]
    /\ UNCHANGED <<now, bytes, first, holder, observing, pending, feeds, got, checks,
                   finishes, seen>>

\* record, its first write: the first chunk of any lane starts the clock.
Mark(s) ==
    /\ sinks[s].pc = "Open" /\ bytes < MaxBytes
    /\ first' = IF first = Unset THEN now ELSE first
    /\ sinks' = [sinks EXCEPT ![s].pc = "Marked"]
    /\ UNCHANGED <<now, bytes, life, holder, observing, pending, feeds, got, checks,
                   finishes, seen>>

\* record, its second write.
Count(s) ==
    /\ sinks[s].pc = "Marked"
    /\ bytes' = bytes + 1
    /\ sinks' = [sinks EXCEPT ![s].pc = "Open"]
    /\ UNCHANGED <<now, first, life, holder, observing, pending, feeds, got, checks,
                   finishes, seen>>

Leave(s) ==
    /\ sinks[s].pc = "Open" /\ holder = Nobody
    /\ life' = [life EXCEPT !.lanes = @ - 1]
    /\ pending' = pending + 1
    /\ sinks' = [sinks EXCEPT ![s] = [pc |-> "Left", watch |-> "Off", woken |-> FALSE]]
    /\ UNCHANGED <<now, bytes, first, holder, observing, feeds, got, checks, finishes, seen>>

(***************************************************************************)
(* finished(): a datagram lane enables its waiter, checks the phase, waits *)
(* and repeats; once done its lane is dropped.                             *)
(***************************************************************************)
WatchUnarmed(s) ==
    /\ \/ sinks[s].watch = "Top" /\ holder = Nobody
          /\ sinks' = [sinks EXCEPT ![s].watch =
                          IF life.phase # "Open" THEN "Done" ELSE "Armed"]
       \/ sinks[s].watch = "Armed"
          /\ sinks' = [sinks EXCEPT ![s].watch = "Wait", ![s].woken = FALSE]
       \/ sinks[s].watch = "Wait" /\ sinks[s].woken
          /\ sinks' = [sinks EXCEPT ![s].watch = "Top"]
    /\ UNCHANGED <<now, bytes, first, life, holder, observing, pending, feeds, got, checks,
                   finishes, seen>>

Watch(s) ==
    /\ \/ sinks[s].watch = "Top"
          /\ sinks' = [sinks EXCEPT ![s].watch = "Armed", ![s].woken = FALSE]
       \/ sinks[s].watch = "Armed" /\ holder = Nobody
          /\ sinks' = [sinks EXCEPT ![s].watch =
                          IF life.phase # "Open" THEN "Done" ELSE "Wait"]
       \/ sinks[s].watch = "Wait" /\ sinks[s].woken
          /\ sinks' = [sinks EXCEPT ![s].watch = "Top"]
    /\ UNCHANGED <<now, bytes, first, life, holder, observing, pending, feeds, got, checks,
                   finishes, seen>>

(***************************************************************************)
(* finish reaches the aggregate in the store's map and then locks `life`;  *)
(* the aggregate may expire in between.                                    *)
(***************************************************************************)
ReachFinish(c) ==
    /\ finishes[c] = "Idle" /\ life.phase # "Expired"
    /\ finishes' = [finishes EXCEPT ![c] = "Reached"]
    /\ UNCHANGED <<now, bytes, first, life, holder, observing, pending, sinks, feeds, got,
                   checks, seen>>

Finish(c) ==
    /\ finishes[c] = "Reached" /\ holder = Nobody
    /\ life' = [life EXCEPT !.phase = IF @ = "Open" THEN "Finished" ELSE @]
    /\ pending' = pending + 1
    /\ finishes' = [finishes EXCEPT ![c] = "Done"]
    /\ UNCHANGED <<now, bytes, first, holder, observing, sinks, feeds, got, checks, seen>>

Expire ==
    /\ life.phase # "Expired" /\ life.lanes = 0 /\ holder = Nobody
    /\ life' = [life EXCEPT !.phase = "Expired"]
    /\ pending' = pending + 1
    /\ UNCHANGED <<now, bytes, first, holder, observing, sinks, feeds, got, checks, finishes,
                   seen>>

NotifyWaitersPolled ==
    /\ pending > 0
    /\ pending' = pending - 1
    /\ sinks' = [s \in LaneSinks |-> [sinks[s] EXCEPT !.woken = @ \/ sinks[s].watch = "Wait"]]
    /\ feeds' = [f \in Feeds |-> [feeds[f] EXCEPT !.woken = @ \/ feeds[f].pc = "Wait"]]
    /\ UNCHANGED <<now, bytes, first, life, holder, observing, got, checks, finishes, seen>>

\* One notify_waiters: it wakes every waiter that is enabled now.
NotifyWaiters ==
    /\ pending > 0
    /\ pending' = pending - 1
    /\ sinks' = [s \in LaneSinks |->
          [sinks[s] EXCEPT !.woken = @ \/ sinks[s].watch \in {"Armed", "Wait"}]]
    /\ feeds' = [f \in Feeds |->
          [feeds[f] EXCEPT !.woken = @ \/ feeds[f].pc \in {"Step", "Count", "Loaded", "Rest", "Wait"}]]
    /\ UNCHANGED <<now, bytes, first, life, holder, observing, got, checks, finishes, seen>>

(***************************************************************************)
(* Observations: the bytes, then the time since the first chunk, under one *)
(* lock.                                                                   *)
(***************************************************************************)
Counting(o) == IF o \in Feeds THEN feeds[o].pc = "Count" ELSE checks[o] = "Count"

Loaded(o) ==
    /\ got' = [got EXCEPT ![o] = bytes]
    /\ feeds' = [f \in Feeds |-> IF f = o THEN [feeds[f] EXCEPT !.pc = "Loaded"] ELSE feeds[f]]
    /\ checks' = [k \in Checks |-> IF k = o THEN "Loaded" ELSE checks[k]]
    /\ UNCHANGED <<now, bytes, first, life, holder, pending, sinks, finishes, seen>>

LoadUnlocked(o) ==
    /\ Counting(o)
    /\ observing' = o
    /\ Loaded(o)

Load(o) ==
    /\ Counting(o) /\ observing = Nobody
    /\ observing' = o
    /\ Loaded(o)

Observation(o) == Counters(got[o], IF first = Unset THEN 0 ELSE now - first)

\* checkpoint: reaches a live aggregate and observes it, without `life`.
Checkpoint(k) ==
    /\ checks[k] = "Idle" /\ life.phase # "Expired"
    /\ checks' = [checks EXCEPT ![k] = "Count"]
    /\ UNCHANGED <<now, bytes, first, life, holder, observing, pending, sinks, feeds, got,
                   finishes, seen>>

Answer(k) ==
    /\ checks[k] = "Loaded"
    /\ observing' = Nobody
    /\ seen' = Observation(k)
    /\ checks' = [checks EXCEPT ![k] = "Idle"]
    /\ UNCHANGED <<now, bytes, first, life, holder, pending, sinks, feeds, got, finishes>>

(***************************************************************************)
(* Progress feeds.  subscribe reaches the live aggregate, then makes its   *)
(* reader the current one and wakes the one it replaces.                   *)
(***************************************************************************)
ReachWatch(f) ==
    /\ feeds[f].pc = "Idle" /\ life.phase # "Expired"
    /\ feeds' = [feeds EXCEPT ![f].pc = "Reached"]
    /\ UNCHANGED <<now, bytes, first, life, holder, observing, pending, sinks, got, checks,
                   finishes, seen>>

Subscribe(f) ==
    /\ feeds[f].pc = "Reached" /\ holder = Nobody
    /\ life' = [life EXCEPT !.reader = @ + 1]
    /\ pending' = pending + 1
    /\ feeds' = [feeds EXCEPT ![f].pc = "Top", ![f].reader = life.reader + 1,
                              ![f].grid = first # Unset]
    /\ UNCHANGED <<now, bytes, first, holder, observing, sinks, got, checks, finishes, seen>>

\* next, its head: the feed enables its waiter and sweeps the store.
Enable(f) ==
    /\ feeds[f].pc = "Top"
    /\ feeds' = [feeds EXCEPT ![f].pc = "Step", ![f].woken = FALSE]
    /\ UNCHANGED <<now, bytes, first, life, holder, observing, pending, sinks, got, checks,
                   finishes, seen>>

\* step, up to counters(): a superseded or expired feed ends, a new one is ready.
Step(f) ==
    /\ feeds[f].pc = "Step" /\ holder = Nobody
    /\ LET current == life.reader = feeds[f].reader
           alive == current /\ life.phase # "Expired"
           counts == alive /\ feeds[f].ready
       IN /\ feeds' = [feeds EXCEPT
                ![f].pc = CASE ~current -> "Superseded"
                            [] current /\ ~alive -> "Invalid"
                            [] alive /\ ~counts -> "Top"
                            [] counts -> "Count",
                ![f].ready = @ \/ alive,
                ![f].ticked = @ /\ counts]
          /\ holder' = IF counts THEN f ELSE Nobody
    /\ UNCHANGED <<now, bytes, first, life, observing, pending, sinks, got, checks, finishes,
                   seen>>

CompletesEarly(f) == life.phase = "Finished"

Completes(f) == life.phase = "Finished" /\ life.lanes = 0

\* step, from counters() on, with `life` still locked: the last record, a
\* progress record on the grid, or a wait.
Tell(f) ==
    /\ feeds[f].pc = "Loaded"
    /\ observing' = Nobody /\ holder' = Nobody
    /\ seen' = Observation(f)
    /\ LET progress == life.phase = "Open" /\ feeds[f].ticked /\ Observation(f).nanos > 0
       IN feeds' = [feeds EXCEPT
            ![f].pc = CASE Completes(f) -> "Complete"
                        [] ~Completes(f) /\ progress -> "Top"
                        [] OTHER -> "Rest",
            ![f].ticked = FALSE]
    /\ UNCHANGED <<now, bytes, first, life, pending, sinks, got, checks, finishes>>

\* next, on Step::Wait: the grid is known once a chunk came; then the feed waits.
Await(f) ==
    /\ feeds[f].pc = "Rest"
    /\ feeds' = [feeds EXCEPT ![f].pc = "Wait", ![f].grid = @ \/ first # Unset]
    /\ UNCHANGED <<now, bytes, first, life, holder, observing, pending, sinks, got, checks,
                   finishes, seen>>

\* The biased wait: a change wakes the feed first.
WakeChanged(f) ==
    /\ feeds[f].pc = "Wait" /\ feeds[f].woken
    /\ feeds' = [feeds EXCEPT ![f].pc = "Top"]
    /\ UNCHANGED <<now, bytes, first, life, holder, observing, pending, sinks, got, checks,
                   finishes, seen>>

\* A tick on the grid falls a period or more after the first chunk.
WakeTick(f) ==
    /\ feeds[f].pc = "Wait" /\ ~feeds[f].woken
    /\ feeds[f].grid => now > first
    /\ feeds' = [feeds EXCEPT ![f].pc = "Top", ![f].ticked = feeds[f].grid,
                              ![f].grid = first # Unset]
    /\ UNCHANGED <<now, bytes, first, life, holder, observing, pending, sinks, got, checks,
                   finishes, seen>>

Heartbeat(f) ==
    /\ feeds[f].pc = "Wait" /\ ~feeds[f].woken
    /\ feeds' = [feeds EXCEPT ![f].pc = "Top"]
    /\ UNCHANGED <<now, bytes, first, life, holder, observing, pending, sinks, got, checks,
                   finishes, seen>>

\* The reader's connection ends and its feed is dropped where it awaits.
Drop(f) ==
    /\ feeds[f].pc \in {"Top", "Wait"}
    /\ feeds' = [feeds EXCEPT ![f].pc = "Dropped"]
    /\ UNCHANGED <<now, bytes, first, life, holder, observing, pending, sinks, got, checks,
                   finishes, seen>>

Tick ==
    /\ now < MaxTime
    /\ now' = now + 1
    /\ UNCHANGED <<bytes, first, life, holder, observing, pending, sinks, feeds, got, checks,
                   finishes, seen>>

Next ==
    \/ \E s \in LaneSinks : Join(s) \/ Mark(s) \/ Count(s) \/ Leave(s) \/ Watch(s)
    \/ \E c \in Finishes : ReachFinish(c) \/ Finish(c)
    \/ Expire \/ NotifyWaiters \/ Tick
    \/ \E o \in Observers : Load(o)
    \/ \E k \in Checks : Checkpoint(k) \/ Answer(k)
    \/ \E f \in Feeds : \/ ReachWatch(f) \/ Subscribe(f) \/ Enable(f) \/ Step(f) \/ Tell(f) \/ Await(f)
                        \/ WakeChanged(f) \/ WakeTick(f) \/ Heartbeat(f) \/ Drop(f)

(***************************************************************************)
(* Fairness: a task that can run does run.  A stream lane ends by its FIN, *)
(* the idle bound or its session's lifetime.  Nothing is asked of ticks    *)
(* and heartbeats: a change must reach its waiters through `changed`.      *)
(***************************************************************************)
RunsLane(s) == Count(s) \/ Watch(s)
               \/ (Leave(s) /\ (s \in Streams \/ sinks[s].watch = "Done"))

RunsFeed(f) ==
    Subscribe(f) \/ Enable(f) \/ Step(f) \/ Load(f) \/ Tell(f) \/ Await(f) \/ WakeChanged(f)

Fairness ==
    /\ WF_vars(NotifyWaiters)
    /\ \A s \in LaneSinks : SF_vars(RunsLane(s))
    /\ \A c \in Finishes : SF_vars(Finish(c))
    /\ \A f \in Feeds : SF_vars(RunsFeed(f))
    /\ \A k \in Checks : SF_vars(Load(k)) /\ WF_vars(Answer(k))

Spec == Init /\ [][Next]_vars

(***************************************************************************)
(* Properties.                                                             *)
(***************************************************************************)
\* A `complete` record is the exact total: it was told after a finish, it holds
\* every byte any lane ever counted, and no lane counts another after it.
CompleteIsExact ==
    \A f \in Feeds : feeds[f].pc = "Complete" =>
        /\ got[f] = bytes
        /\ \A s \in LaneSinks : sinks[s].pc \in {"Idle", "Left"}
        /\ life.phase # "Open"

\* No observation runs backwards: each one made, by any feed or checkpoint,
\* may follow the one before it (Counters::follows), as `observing` promises.
ObservationsFollow == seen'.bytes >= seen.bytes /\ seen'.nanos >= seen.nanos

\* Bytes are only ever told with the time since their first chunk: the first
\* lane to record stamps `first` before it counts, whoever observes between.
BytesAreTimed == seen.bytes > 0 => first # Unset

\* What is told is exact in both: the last record's bytes, and the time of any.
TotalsExact == CompleteIsExact /\ BytesAreTimed

\* A finalized or expired upload ends every datagram lane, which no FIN ends:
\* finished() misses no wakeup, wherever the change falls in its loop.
DatagramsLeave ==
    \A s \in Datagrams : (life.phase # "Open" /\ sinks[s].pc = "Open") ~> sinks[s].pc = "Left"

\* A feed that was replaced, expired or whose upload drained after its finish
\* tells its end (or its reader leaves) on the change's own wakeup, without
\* waiting for a tick.
FeedsEnd ==
    \A f \in Feeds :
        (Attached(f) /\ \/ life.reader # feeds[f].reader
                        \/ life.phase = "Expired"
                        \/ life.phase = "Finished" /\ life.lanes = 0) ~> ~Attached(f)

(***************************************************************************)
(* CompleteIsExact, BytesAreTimed and ObservationsFollow, for any lanes,   *)
(* feeds and checkpoints.  A feed that counts holds `life`, so the lanes   *)
(* it finds gone when it tells were gone when it loaded; `observing` keeps *)
(* what an observer loaded ahead of what was last told.                    *)
(***************************************************************************)
ReceiverAssumption ==
    IsFiniteSet(LaneSinks) /\ Feeds \cap Checks = {} /\ Nobody \notin Observers /\ MaxCounter \in Nat

SinkType == [pc : {"Idle", "Open", "Marked", "Left"}, watch : {"Off", "Top", "Armed", "Wait", "Done"}, woken : BOOLEAN]
FeedPlaces == {"Idle", "Reached", "Top", "Step", "Count", "Loaded", "Rest", "Wait"} \cup Ended
FeedType == [pc : FeedPlaces, reader : Nat, ready : BOOLEAN, ticked : BOOLEAN, grid : BOOLEAN, woken : BOOLEAN]

ReceiverTypes ==
    /\ now \in Nat /\ bytes \in Nat /\ first \in Nat \cup {Unset}
    /\ life \in [lanes : Int, phase : {"Open", "Finished", "Expired"}, reader : Nat]
    /\ sinks \in [LaneSinks -> SinkType] /\ feeds \in [Feeds -> FeedType]
    /\ got \in [Observers -> Nat] /\ checks \in [Checks -> {"Idle", "Count", "Loaded"}]
    /\ seen \in [bytes : Nat, nanos : Nat]

ActiveSinks == {s \in LaneSinks : sinks[s].pc \in {"Open", "Marked"}}
HasLoaded(o) == IF o \in Feeds THEN feeds[o].pc = "Loaded" ELSE checks[o] = "Loaded"
Elapsed == IF first = Unset THEN 0 ELSE now - first

LanesCounted == life.lanes = Cardinality(ActiveSinks)

\* The locks: a feed counts with `life`, and an observer has loaded under `observing`.
Locked ==
    /\ \A f \in Feeds : feeds[f].pc \in {"Count", "Loaded"} => holder = f
    /\ \A o \in Observers : HasLoaded(o) => observing = o

Timed ==
    /\ first # Unset => first <= now
    /\ bytes > 0 => first # Unset
    /\ \A s \in LaneSinks : sinks[s].pc = "Marked" => first # Unset

\* What was told is behind what an observer has loaded, and that behind the bytes.
Ordered ==
    /\ \A o \in Observers : got[o] <= bytes /\ (HasLoaded(o) => seen.bytes <= Min(got[o], MaxCounter))
    /\ seen.bytes <= Min(bytes, MaxCounter) /\ seen.nanos <= Min(Elapsed, MaxCounter)

Exact ==
    \A f \in Feeds :
        /\ feeds[f].pc = "Loaded" /\ life.lanes = 0 => got[f] = bytes
        /\ feeds[f].pc = "Complete" => got[f] = bytes /\ life.lanes = 0 /\ life.phase # "Open"

ReceiverInv == ReceiverTypes /\ LanesCounted /\ Locked /\ Timed /\ Ordered /\ Exact

LEMMA MinBound == ASSUME NEW a \in Nat, NEW m \in Nat PROVE Min(a, m) \in Nat /\ Min(a, m) <= a
  BY DEF Min

LEMMA MinGrows == ASSUME NEW a \in Nat, NEW b \in Nat, NEW m \in Nat, a <= b PROVE Min(a, m) <= Min(b, m)
  BY DEF Min

\* What most steps do: no observer loads or tells, and no lane comes, counts or goes.
Quiet ==
    /\ UNCHANGED <<now, bytes, first, holder, observing, got, seen>>
    /\ \A k \in Checks : checks'[k] = checks[k] \/ checks'[k] # "Loaded"
    /\ life'.lanes = life.lanes /\ (life.phase # "Open" => life'.phase # "Open")
    /\ \A s \in LaneSinks : sinks'[s].pc = sinks[s].pc
    /\ \A f \in Feeds : feeds'[f].pc = feeds[f].pc \/ feeds'[f].pc \notin {"Count", "Loaded", "Complete"}

LEMMA QuietKeeps == ASSUME ReceiverInv, ReceiverTypes', Quiet PROVE ReceiverInv'
  <1>1. \A o \in Observers : HasLoaded(o)' => HasLoaded(o)
    BY DEF HasLoaded, Quiet, Observers
  <1>2. LanesCounted'
    <2>1. ActiveSinks' = ActiveSinks
      BY DEF ActiveSinks, Quiet
    <2> QED
      BY <2>1, Zenon DEF LanesCounted, ReceiverInv, Quiet
  <1>3. Locked'
    BY <1>1 DEF Locked, ReceiverInv, Quiet
  <1>4. Timed'
    BY DEF Timed, ReceiverInv, Quiet
  <1>5. Ordered'
    <2>1. Elapsed' = Elapsed
      BY DEF Elapsed, Quiet
    <2> QED
      BY <1>1, <2>1, Zenon DEF Ordered, ReceiverInv, Quiet
  <1>6. Exact'
    BY DEF Exact, ReceiverInv, Quiet
  <1> QED
    BY <1>2, <1>3, <1>4, <1>5, <1>6, Zenon DEF ReceiverInv

\* A lane's waiter, or a feed's, is woken or moves, and the lane or feed stays where it is.
LEMMA SinkWoken ==
    ASSUME NEW r \in SinkType, NEW b \in BOOLEAN
    PROVE  [r EXCEPT !.woken = b] \in SinkType /\ [r EXCEPT !.woken = b].pc = r.pc
  BY Zenon DEF SinkType

LEMMA FeedWoken ==
    ASSUME NEW r \in FeedType, NEW b \in BOOLEAN
    PROVE  [r EXCEPT !.woken = b] \in FeedType /\ [r EXCEPT !.woken = b].pc = r.pc
  BY Zenon DEF FeedType

LEMMA WatchMoves ==
    ASSUME NEW r \in SinkType, NEW w \in {"Off", "Top", "Armed", "Wait", "Done"}
    PROVE  [r EXCEPT !.watch = w] \in SinkType /\ [r EXCEPT !.watch = w].pc = r.pc
  BY Zenon DEF SinkType

LEMMA WatchQuiet == ASSUME ReceiverTypes, NEW s \in LaneSinks, Watch(s) PROVE ReceiverTypes' /\ Quiet
  <1>1. sinks \in [LaneSinks -> SinkType] /\ sinks[s] \in SinkType /\ FALSE \in BOOLEAN
    BY DEF ReceiverTypes
  <1>2. PICK new : new \in SinkType /\ new.pc = sinks[s].pc /\ sinks' = [sinks EXCEPT ![s] = new]
    <2>1. CASE sinks' = [sinks EXCEPT ![s].watch = "Armed", ![s].woken = FALSE]
      <3>1. sinks' = [sinks EXCEPT ![s] = [[sinks[s] EXCEPT !.watch = "Armed"] EXCEPT !.woken = FALSE]]
        BY <1>1, <2>1, Zenon
      <3>2. [sinks[s] EXCEPT !.watch = "Armed"] \in SinkType /\ [sinks[s] EXCEPT !.watch = "Armed"].pc = sinks[s].pc
        BY <1>1, WatchMoves, Zenon
      <3> QED
        BY <1>1, <3>1, <3>2, SinkWoken, Zenon
    <2>2. ASSUME NEW w \in {"Done", "Wait", "Top"}, sinks' = [sinks EXCEPT ![s].watch = w]
          PROVE  \E new : new \in SinkType /\ new.pc = sinks[s].pc /\ sinks' = [sinks EXCEPT ![s] = new]
      BY <1>1, <2>2, WatchMoves, Zenon
    <2> QED
      BY <2>1, <2>2, Zenon DEF Watch
  <1>3. sinks' \in [LaneSinks -> SinkType] /\ \A r \in LaneSinks : sinks'[r].pc = sinks[r].pc
    BY <1>1, <1>2
  <1> QED
    BY <1>3 DEF Watch, ReceiverTypes, Quiet

LEMMA FinishQuiet ==
    ASSUME ReceiverTypes, NEW c \in Finishes, ReachFinish(c) \/ Finish(c) PROVE ReceiverTypes' /\ Quiet
  <1>1. /\ life' \in [lanes : Int, phase : {"Open", "Finished", "Expired"}, reader : Nat]
        /\ life'.lanes = life.lanes /\ (life.phase # "Open" => life'.phase # "Open")
    BY DEF ReachFinish, Finish, ReceiverTypes
  <1> QED
    BY <1>1 DEF ReachFinish, Finish, ReceiverTypes, Quiet

LEMMA ExpireQuiet == ASSUME ReceiverTypes, Expire PROVE ReceiverTypes' /\ Quiet
  <1>1. /\ life' \in [lanes : Int, phase : {"Open", "Finished", "Expired"}, reader : Nat]
        /\ life'.lanes = life.lanes /\ (life.phase # "Open" => life'.phase # "Open")
    BY DEF Expire, ReceiverTypes
  <1> QED
    BY <1>1 DEF Expire, ReceiverTypes, Quiet

LEMMA NotifyQuiet == ASSUME ReceiverTypes, NotifyWaiters PROVE ReceiverTypes' /\ Quiet
  <1>1. ASSUME NEW s \in LaneSinks PROVE sinks'[s] \in SinkType /\ sinks'[s].pc = sinks[s].pc
    <2>1. PICK b \in BOOLEAN : sinks'[s] = [sinks[s] EXCEPT !.woken = b]
      <3>1. (sinks[s].woken \/ sinks[s].watch \in {"Armed", "Wait"}) \in BOOLEAN
        BY Zenon
      <3> QED
        BY <3>1, Zenon DEF NotifyWaiters
    <2>2. sinks[s] \in SinkType
      BY DEF ReceiverTypes
    <2> QED
      BY <2>1, <2>2, SinkWoken, Zenon
  <1>2. ASSUME NEW f \in Feeds PROVE feeds'[f] \in FeedType /\ feeds'[f].pc = feeds[f].pc
    <2>1. PICK b \in BOOLEAN : feeds'[f] = [feeds[f] EXCEPT !.woken = b]
      <3>1. (feeds[f].woken \/ feeds[f].pc \in {"Step", "Count", "Loaded", "Rest", "Wait"}) \in BOOLEAN
        BY Zenon
      <3> QED
        BY <3>1, Zenon DEF NotifyWaiters
    <2>2. feeds[f] \in FeedType
      BY DEF ReceiverTypes
    <2> QED
      BY <2>1, <2>2, FeedWoken, Zenon
  <1>3. sinks' \in [LaneSinks -> SinkType] /\ feeds' \in [Feeds -> FeedType]
    BY <1>1, <1>2, Zenon DEF NotifyWaiters
  <1> QED
    BY <1>1, <1>2, <1>3, Zenon DEF NotifyWaiters, ReceiverTypes, Quiet

\* A feed moves to a place where it neither counts nor has told its last record.
LEMMA FeedPlaced ==
    ASSUME ReceiverTypes, NEW f \in Feeds, NEW new \in FeedType, new.pc \notin {"Count", "Loaded", "Complete"},
           feeds' = [feeds EXCEPT ![f] = new], UNCHANGED <<now, bytes, first, holder, observing, sinks, got, checks, seen>>,
           life' \in [lanes : Int, phase : {"Open", "Finished", "Expired"}, reader : Nat],
           life'.lanes = life.lanes, life'.phase = life.phase
    PROVE  ReceiverTypes' /\ Quiet
  <1>1. feeds' \in [Feeds -> FeedType] /\ feeds'[f] = new /\ \A g \in Feeds \ {f} : feeds'[g] = feeds[g]
    BY DEF ReceiverTypes
  <1> QED
    BY <1>1, Zenon DEF ReceiverTypes, Quiet

LEMMA FeedGoes ==
    ASSUME NEW r \in FeedType, NEW p \in FeedPlaces
    PROVE  [r EXCEPT !.pc = p] \in FeedType /\ [r EXCEPT !.pc = p].pc = p
  BY Zenon DEF FeedType

LEMMA FeedRead ==
    ASSUME NEW r \in FeedType, NEW n \in Nat
    PROVE  [r EXCEPT !.reader = n] \in FeedType /\ [r EXCEPT !.reader = n].pc = r.pc
  BY Zenon DEF FeedType

LEMMA FeedReady ==
    ASSUME NEW r \in FeedType, NEW b \in BOOLEAN
    PROVE  [r EXCEPT !.ready = b] \in FeedType /\ [r EXCEPT !.ready = b].pc = r.pc
  BY Zenon DEF FeedType

LEMMA FeedTicked ==
    ASSUME NEW r \in FeedType, NEW b \in BOOLEAN
    PROVE  [r EXCEPT !.ticked = b] \in FeedType /\ [r EXCEPT !.ticked = b].pc = r.pc
  BY Zenon DEF FeedType

LEMMA FeedGrid ==
    ASSUME NEW r \in FeedType, NEW b \in BOOLEAN
    PROVE  [r EXCEPT !.grid = b] \in FeedType /\ [r EXCEPT !.grid = b].pc = r.pc
  BY Zenon DEF FeedType

LEMMA FeedQuiet ==
    ASSUME ReceiverTypes, NEW f \in Feeds,
           \/ ReachWatch(f) \/ Enable(f) \/ Await(f) \/ WakeChanged(f) \/ WakeTick(f) \/ Heartbeat(f) \/ Drop(f)
    PROVE  ReceiverTypes' /\ Quiet
  <1> DEFINE r == feeds[f]
  <1>1. r \in FeedType /\ feeds \in [Feeds -> FeedType]
    BY DEF ReceiverTypes
  <1>2. /\ UNCHANGED <<now, bytes, first, holder, observing, sinks, got, checks, seen>>
        /\ life' \in [lanes : Int, phase : {"Open", "Finished", "Expired"}, reader : Nat]
        /\ life'.lanes = life.lanes /\ life'.phase = life.phase
    BY Zenon DEF ReachWatch, Enable, Await, WakeChanged, WakeTick, Heartbeat, Drop, ReceiverTypes
  <1>3. PICK new \in FeedType : new.pc \notin {"Count", "Loaded", "Complete"} /\ feeds' = [feeds EXCEPT ![f] = new]
    <2>1. ASSUME NEW p \in {"Reached", "Top", "Dropped"}, feeds' = [feeds EXCEPT ![f].pc = p]
          PROVE  \E new \in FeedType : new.pc \notin {"Count", "Loaded", "Complete"} /\ feeds' = [feeds EXCEPT ![f] = new]
      <3>1. p \in FeedPlaces /\ p \notin {"Count", "Loaded", "Complete"}
        BY DEF FeedPlaces, Ended
      <3> QED
        BY <1>1, <2>1, <3>1, FeedGoes, Zenon
    <2>2. CASE feeds' = [feeds EXCEPT ![f].pc = "Step", ![f].woken = FALSE]
      <3> DEFINE mid == [r EXCEPT !.pc = "Step"]
                 new == [mid EXCEPT !.woken = FALSE]
      <3>1. feeds' = [feeds EXCEPT ![f] = new]
        BY <1>1, <2>2, Zenon
      <3>2. "Step" \in FeedPlaces /\ FALSE \in BOOLEAN
        BY DEF FeedPlaces
      <3>3. mid \in FeedType /\ mid.pc = "Step"
        BY <1>1, <3>2, FeedGoes, Zenon
      <3> HIDE DEF mid
      <3>4. new \in FeedType /\ new.pc = "Step"
        BY <3>2, <3>3, FeedWoken, Zenon
      <3> QED
        BY <3>1, <3>4, Zenon
    <2>3. ASSUME NEW b \in BOOLEAN, feeds' = [feeds EXCEPT ![f].pc = "Wait", ![f].grid = b]
          PROVE  \E new \in FeedType : new.pc \notin {"Count", "Loaded", "Complete"} /\ feeds' = [feeds EXCEPT ![f] = new]
      <3> DEFINE mid == [r EXCEPT !.pc = "Wait"]
                 new == [mid EXCEPT !.grid = b]
      <3>1. feeds' = [feeds EXCEPT ![f] = new]
        BY <1>1, <2>3, Zenon
      <3>2. "Wait" \in FeedPlaces
        BY DEF FeedPlaces
      <3>3. mid \in FeedType /\ mid.pc = "Wait"
        BY <1>1, <3>2, FeedGoes, Zenon
      <3> HIDE DEF mid
      <3>4. new \in FeedType /\ new.pc = "Wait"
        BY <3>3, FeedGrid, Zenon
      <3> QED
        BY <3>1, <3>4, Zenon
    <2>4. ASSUME NEW b \in BOOLEAN, NEW c \in BOOLEAN,
                 feeds' = [feeds EXCEPT ![f].pc = "Top", ![f].ticked = b, ![f].grid = c]
          PROVE  \E new \in FeedType : new.pc \notin {"Count", "Loaded", "Complete"} /\ feeds' = [feeds EXCEPT ![f] = new]
      <3> DEFINE top == [r EXCEPT !.pc = "Top"]
                 mid == [top EXCEPT !.ticked = b]
                 new == [mid EXCEPT !.grid = c]
      <3>1. feeds' = [feeds EXCEPT ![f] = new]
        BY <1>1, <2>4, Zenon
      <3>2. "Top" \in FeedPlaces
        BY DEF FeedPlaces
      <3>3. top \in FeedType /\ top.pc = "Top"
        BY <1>1, <3>2, FeedGoes, Zenon
      <3> HIDE DEF top
      <3>4. mid \in FeedType /\ mid.pc = "Top"
        BY <3>3, FeedTicked, Zenon
      <3> HIDE DEF mid
      <3>5. new \in FeedType /\ new.pc = "Top"
        BY <3>4, FeedGrid, Zenon
      <3> QED
        BY <3>1, <3>5, Zenon
    <2>5. (feeds[f].grid \/ first # Unset) \in BOOLEAN /\ feeds[f].grid \in BOOLEAN /\ (first # Unset) \in BOOLEAN
      BY <1>1, Zenon DEF FeedType
    <2> QED
      BY <2>1, <2>2, <2>3, <2>4, <2>5, Zenon DEF ReachWatch, Enable, Await, WakeChanged, WakeTick, Heartbeat, Drop
  <1> QED
    BY <1>2, <1>3, FeedPlaced, Zenon

LEMMA SubscribeQuiet == ASSUME ReceiverTypes, NEW f \in Feeds, Subscribe(f) PROVE ReceiverTypes' /\ Quiet
  <1>1. /\ feeds[f] \in FeedType /\ feeds \in [Feeds -> FeedType]
        /\ life' \in [lanes : Int, phase : {"Open", "Finished", "Expired"}, reader : Nat]
        /\ life'.lanes = life.lanes /\ life'.phase = life.phase
    BY DEF ReceiverTypes, Subscribe
  <1>2. PICK n \in Nat : n = life.reader + 1
    BY DEF ReceiverTypes
  <1>3. "Top" \in FeedPlaces /\ (first # Unset) \in BOOLEAN
    BY DEF FeedPlaces
  <1> DEFINE old == [feeds[f] EXCEPT !.pc = "Top"]
             mid == [old EXCEPT !.reader = n]
             new == [mid EXCEPT !.grid = first # Unset]
  <1>4. feeds' = [feeds EXCEPT ![f] = new]
    BY <1>1, <1>2, Zenon DEF Subscribe
  <1>5. old \in FeedType /\ old.pc = "Top"
    BY <1>1, <1>3, FeedGoes, Zenon
  <1> HIDE DEF old
  <1>6. mid \in FeedType /\ mid.pc = "Top"
    BY <1>5, FeedRead, Zenon
  <1> HIDE DEF mid
  <1>7. new \in FeedType /\ new.pc = "Top"
    BY <1>3, <1>6, FeedGrid, Zenon
  <1>8. UNCHANGED <<now, bytes, first, holder, observing, sinks, got, checks, seen>>
    BY Zenon DEF Subscribe
  <1> HIDE DEF new
  <1> QED
    BY <1>1, <1>4, <1>7, <1>8, FeedPlaced, Zenon

\* step, up to counters(): the feed that goes on to count takes `life`, which nobody held.
LEMMA StepTakes ==
    ASSUME ReceiverTypes, NEW f \in Feeds, Step(f)
    PROVE  /\ holder = Nobody /\ UNCHANGED <<now, bytes, first, life, observing, sinks, got, checks, seen>>
           /\ \E new \in FeedType :
                 /\ feeds' = [feeds EXCEPT ![f] = new]
                 /\ \/ new.pc = "Count" /\ holder' = f
                    \/ new.pc \in {"Superseded", "Invalid", "Top"} /\ holder' = Nobody
  <1> DEFINE current == life.reader = feeds[f].reader
             alive == current /\ life.phase # "Expired"
             counts == alive /\ feeds[f].ready
             place == CASE ~current -> "Superseded" [] current /\ ~alive -> "Invalid"
                        [] alive /\ ~counts -> "Top" [] counts -> "Count"
             ready == feeds[f].ready \/ alive
             ticked == feeds[f].ticked /\ counts
             gone == [feeds[f] EXCEPT !.pc = place]
             mid == [gone EXCEPT !.ready = ready]
             new == [mid EXCEPT !.ticked = ticked]
  <1>1. feeds[f] \in FeedType /\ feeds \in [Feeds -> FeedType]
    BY DEF ReceiverTypes
  <1>2. IF counts THEN place = "Count" ELSE place \in {"Superseded", "Invalid", "Top"}
    BY Zenon
  <1>3. place \in FeedPlaces
    BY <1>2 DEF FeedPlaces, Ended
  <1>4. ready \in BOOLEAN /\ ticked \in BOOLEAN
    BY <1>1 DEF FeedType
  <1>5. /\ feeds' = [feeds EXCEPT ![f].pc = place, ![f].ready = ready, ![f].ticked = ticked]
        /\ holder' = IF counts THEN f ELSE Nobody
    BY <1>1 DEF Step
  <1>6. feeds' = [feeds EXCEPT ![f] = new]
    BY <1>1, <1>5, Zenon
  <1>7. (new.pc = "Count" /\ holder' = f) \/ (new.pc \in {"Superseded", "Invalid", "Top"} /\ holder' = Nobody) \/ new.pc # place
    BY <1>2, <1>5, Zenon
  <1> HIDE DEF place, ready, ticked, counts
  <1>8. gone \in FeedType /\ gone.pc = place
    BY <1>1, <1>3, FeedGoes, Zenon
  <1> HIDE DEF gone
  <1>9. new \in FeedType /\ new.pc = place
    <2>1. mid \in FeedType /\ mid.pc = place
      BY <1>4, <1>8, FeedReady, Zenon
    <2> HIDE DEF mid
    <2> QED
      BY <1>4, <2>1, FeedTicked, Zenon
  <1>10. holder = Nobody /\ UNCHANGED <<now, bytes, first, life, observing, sinks, got, checks, seen>>
    BY Zenon DEF Step
  <1> HIDE DEF new
  <1> QED
    BY <1>6, <1>7, <1>9, <1>10, Zenon

LEMMA StepKeeps == ASSUME ReceiverAssumption, ReceiverInv, NEW f \in Feeds, Step(f) PROVE ReceiverInv'
  <1>1. PICK new \in FeedType :
           /\ feeds' = [feeds EXCEPT ![f] = new]
           /\ \/ new.pc = "Count" /\ holder' = f
              \/ new.pc \in {"Superseded", "Invalid", "Top"} /\ holder' = Nobody
    BY StepTakes, Zenon DEF ReceiverInv
  <1>2. holder = Nobody /\ UNCHANGED <<now, bytes, first, life, observing, sinks, got, checks, seen>>
    BY StepTakes, Zenon DEF ReceiverInv
  <1>3. feeds' \in [Feeds -> FeedType] /\ feeds'[f] = new /\ \A g \in Feeds \ {f} : feeds'[g] = feeds[g]
    BY <1>1 DEF ReceiverInv, ReceiverTypes
  <1>4. ReceiverTypes'
    BY <1>2, <1>3, Zenon DEF ReceiverInv, ReceiverTypes
  <1>5. CASE new.pc \in {"Superseded", "Invalid", "Top"} /\ holder' = Nobody
    <2>1. Quiet
      BY <1>2, <1>3, <1>5 DEF Quiet
    <2> QED
      BY <1>4, <2>1, QuietKeeps, Zenon
  <1>6. CASE new.pc = "Count" /\ holder' = f
    <2>1. \A o \in Observers : HasLoaded(o)' => HasLoaded(o)
      BY <1>2, <1>3, <1>6 DEF HasLoaded, Observers
    <2>2. LanesCounted' /\ Timed'
      <3>1. ActiveSinks' = ActiveSinks
        BY <1>2 DEF ActiveSinks
      <3> QED
        BY <1>2, <3>1, Zenon DEF LanesCounted, Timed, ReceiverInv
    <2>3. Locked'
      <3>1. \A g \in Feeds \ {f} : feeds[g].pc \notin {"Count", "Loaded"}
        BY <1>2 DEF Locked, ReceiverInv, ReceiverAssumption, Observers
      <3> QED
        BY <1>2, <1>3, <1>6, <2>1, <3>1 DEF Locked, ReceiverInv
    <2>4. Ordered'
      <3>1. Elapsed' = Elapsed
        BY <1>2 DEF Elapsed
      <3> QED
        BY <1>2, <2>1, <3>1, Zenon DEF Ordered, ReceiverInv
    <2>5. Exact'
      BY <1>2, <1>3, <1>6 DEF Exact, ReceiverInv
    <2> QED
      BY <1>4, <2>2, <2>3, <2>4, <2>5, Zenon DEF ReceiverInv
  <1> QED
    BY <1>1, <1>5, <1>6, Zenon

LEMMA CheckpointQuiet == ASSUME ReceiverTypes, NEW k \in Checks, Checkpoint(k) PROVE ReceiverTypes' /\ Quiet
  <1>1. /\ checks' \in [Checks -> {"Idle", "Count", "Loaded"}]
        /\ \A h \in Checks : checks'[h] = checks[h] \/ checks'[h] # "Loaded"
    BY DEF Checkpoint, ReceiverTypes
  <1> QED
    BY <1>1, Zenon DEF Checkpoint, ReceiverTypes, Quiet

\* While nobody holds `life`, no feed counts with it.
LEMMA NobodyCounts ==
    ASSUME ReceiverAssumption, ReceiverInv, holder = Nobody
    PROVE  \A f \in Feeds : feeds[f].pc \notin {"Count", "Loaded"}
  BY DEF Locked, ReceiverInv, ReceiverAssumption, Observers

LEMMA ActiveAreFinite ==
    ASSUME ReceiverAssumption PROVE IsFiniteSet(ActiveSinks) /\ IsFiniteSet(ActiveSinks')
  BY FS_Subset DEF ReceiverAssumption, ActiveSinks

\* A lane joins or leaves with `life` free, and a feed that told its last record
\* found no lane left and no way for one to come.
LEMMA JoinKeeps == ASSUME ReceiverAssumption, ReceiverInv, NEW s \in LaneSinks, Join(s) PROVE ReceiverInv'
  <1> DEFINE watch == IF s \in Datagrams THEN "Top" ELSE "Off"
             new == [[sinks[s] EXCEPT !.pc = "Open"] EXCEPT !.watch = watch]
  <1>1. sinks[s] \in SinkType /\ sinks \in [LaneSinks -> SinkType] /\ watch \in {"Off", "Top", "Armed", "Wait", "Done"}
    BY DEF ReceiverInv, ReceiverTypes
  <1>2. sinks' = [sinks EXCEPT ![s] = new]
    BY <1>1, Zenon DEF Join
  <1>3. new \in SinkType /\ new.pc = "Open"
    BY <1>1, Zenon DEF SinkType
  <1>4. /\ sinks' \in [LaneSinks -> SinkType] /\ sinks'[s].pc = "Open"
        /\ \A r \in LaneSinks \ {s} : sinks'[r] = sinks[r]
    <2> HIDE DEF new
    <2> QED
      BY <1>1, <1>2, <1>3
  <1>5. /\ life' \in [lanes : Int, phase : {"Open", "Finished", "Expired"}, reader : Nat]
        /\ life'.lanes = life.lanes + 1 /\ life'.phase = life.phase
    BY DEF Join, ReceiverInv, ReceiverTypes
  <1>6. /\ UNCHANGED <<now, bytes, first, holder, observing, feeds, got, checks, seen>>
        /\ holder = Nobody /\ life.phase = "Open" /\ sinks[s].pc = "Idle"
    BY Zenon DEF Join
  <1>7. ReceiverTypes'
    BY <1>4, <1>5, <1>6, Zenon DEF ReceiverInv, ReceiverTypes
  <1>8. LanesCounted'
    <2>1. ActiveSinks' = ActiveSinks \cup {s} /\ s \notin ActiveSinks
      BY <1>4, <1>6 DEF ActiveSinks
    <2>2. Cardinality(ActiveSinks') = Cardinality(ActiveSinks) + 1
      BY <2>1, ActiveAreFinite, FS_AddElement
    <2> QED
      BY <1>5, <2>2, Zenon DEF LanesCounted, ReceiverInv
  <1>9. Locked' /\ Ordered'
    <2>1. Elapsed' = Elapsed /\ \A o \in Observers : HasLoaded(o)' = HasLoaded(o)
      BY <1>6, Zenon DEF Elapsed, HasLoaded
    <2> QED
      BY <1>6, <2>1, Zenon DEF Locked, Ordered, ReceiverInv
  <1>10. Timed'
    BY <1>4, <1>6 DEF Timed, ReceiverInv
  <1>11. Exact'
    BY <1>6, NobodyCounts DEF Exact, ReceiverInv
  <1> QED
    BY <1>7, <1>8, <1>9, <1>10, <1>11, Zenon DEF ReceiverInv

LEMMA LeaveKeeps == ASSUME ReceiverAssumption, ReceiverInv, NEW s \in LaneSinks, Leave(s) PROVE ReceiverInv'
  <1> DEFINE new == [pc |-> "Left", watch |-> "Off", woken |-> FALSE]
  <1>1. /\ sinks' \in [LaneSinks -> SinkType] /\ sinks'[s].pc = "Left"
        /\ \A r \in LaneSinks \ {s} : sinks'[r] = sinks[r]
    <2>1. new \in SinkType /\ new.pc = "Left"
      BY DEF SinkType
    <2>2. sinks' = [sinks EXCEPT ![s] = new]
      BY Zenon DEF Leave
    <2> HIDE DEF new
    <2> QED
      BY <2>1, <2>2 DEF ReceiverInv, ReceiverTypes
  <1>2. /\ life' \in [lanes : Int, phase : {"Open", "Finished", "Expired"}, reader : Nat]
        /\ life'.lanes = life.lanes - 1 /\ life'.phase = life.phase
    BY DEF Leave, ReceiverInv, ReceiverTypes
  <1>3. /\ UNCHANGED <<now, bytes, first, holder, observing, feeds, got, checks, seen>>
        /\ holder = Nobody /\ sinks[s].pc = "Open"
    BY Zenon DEF Leave
  <1>4. ReceiverTypes'
    BY <1>1, <1>2, <1>3, Zenon DEF ReceiverInv, ReceiverTypes
  <1>5. LanesCounted' /\ life.lanes # 0
    <2>1. ActiveSinks' = ActiveSinks \ {s} /\ s \in ActiveSinks
      BY <1>1, <1>3 DEF ActiveSinks
    <2>2. Cardinality(ActiveSinks') = Cardinality(ActiveSinks) - 1
      BY <2>1, ActiveAreFinite, FS_RemoveElement
    <2>3. Cardinality(ActiveSinks) # 0
      BY <2>1, ActiveAreFinite, FS_EmptySet
    <2> QED
      BY <1>2, <2>2, <2>3, Zenon DEF LanesCounted, ReceiverInv
  <1>6. Locked' /\ Ordered'
    <2>1. Elapsed' = Elapsed /\ \A o \in Observers : HasLoaded(o)' = HasLoaded(o)
      BY <1>3, Zenon DEF Elapsed, HasLoaded
    <2> QED
      BY <1>3, <2>1, Zenon DEF Locked, Ordered, ReceiverInv
  <1>7. Timed'
    BY <1>1, <1>3 DEF Timed, ReceiverInv
  <1>8. Exact'
    BY <1>3, <1>5, NobodyCounts DEF Exact, ReceiverInv
  <1> QED
    BY <1>4, <1>5, <1>6, <1>7, <1>8, Zenon DEF ReceiverInv

LEMMA SinkGoes ==
    ASSUME NEW r \in SinkType, NEW p \in {"Idle", "Open", "Marked", "Left"}
    PROVE  [r EXCEPT !.pc = p] \in SinkType /\ [r EXCEPT !.pc = p].pc = p
  BY Zenon DEF SinkType

\* A lane records between its join and its leave, so it is counted throughout.
LEMMA RecordActive ==
    ASSUME ReceiverTypes, NEW s \in LaneSinks, NEW p \in {"Open", "Marked"}, sinks[s].pc \in {"Open", "Marked"},
           sinks' = [sinks EXCEPT ![s].pc = p]
    PROVE  /\ sinks' \in [LaneSinks -> SinkType] /\ sinks'[s].pc = p
           /\ \A r \in LaneSinks \ {s} : sinks'[r] = sinks[r]
           /\ ActiveSinks' = ActiveSinks
  <1> DEFINE new == [sinks[s] EXCEPT !.pc = p]
  <1>1. sinks[s] \in SinkType /\ sinks \in [LaneSinks -> SinkType] /\ p \in {"Idle", "Open", "Marked", "Left"}
    BY DEF ReceiverTypes
  <1>2. new \in SinkType /\ new.pc = p
    BY <1>1, SinkGoes, Zenon
  <1>3. sinks' = [sinks EXCEPT ![s] = new]
    BY <1>1, Zenon
  <1> HIDE DEF new
  <1>4. /\ sinks' \in [LaneSinks -> SinkType] /\ sinks'[s].pc = p
        /\ \A r \in LaneSinks \ {s} : sinks'[r] = sinks[r]
    BY <1>1, <1>2, <1>3
  <1>5. ActiveSinks' = ActiveSinks
    BY <1>4 DEF ActiveSinks
  <1> QED
    BY <1>4, <1>5, Zenon

LEMMA MarkKeeps == ASSUME ReceiverAssumption, ReceiverInv, NEW s \in LaneSinks, Mark(s) PROVE ReceiverInv'
  <1>1. /\ sinks' \in [LaneSinks -> SinkType] /\ sinks'[s].pc = "Marked" /\ ActiveSinks' = ActiveSinks
        /\ \A r \in LaneSinks \ {s} : sinks'[r] = sinks[r]
    BY RecordActive, Zenon DEF Mark, ReceiverInv
  <1>2. /\ UNCHANGED <<now, bytes, life, holder, observing, feeds, got, checks, seen>>
        /\ first' = IF first = Unset THEN now ELSE first
    BY Zenon DEF Mark
  <1>3. /\ first' \in Nat /\ first' # Unset /\ first' <= now' /\ Elapsed' = Elapsed
    BY <1>2 DEF ReceiverInv, ReceiverTypes, Timed, Unset, Elapsed
  <1>4. ReceiverTypes'
    BY <1>1, <1>2, <1>3, Zenon DEF ReceiverInv, ReceiverTypes
  <1>5. \A o \in Observers : HasLoaded(o)' = HasLoaded(o)
    BY <1>2, Zenon DEF HasLoaded
  <1>6. LanesCounted' /\ Locked' /\ Ordered' /\ Exact'
    BY <1>1, <1>2, <1>3, <1>5, Zenon DEF LanesCounted, Locked, Ordered, Exact, ReceiverInv
  <1>7. Timed'
    BY <1>3, Zenon DEF Timed
  <1> QED
    BY <1>4, <1>6, <1>7, Zenon DEF ReceiverInv

LEMMA CountKeeps == ASSUME ReceiverAssumption, ReceiverInv, NEW s \in LaneSinks, Count(s) PROVE ReceiverInv'
  <1>1. /\ sinks' \in [LaneSinks -> SinkType] /\ sinks'[s].pc = "Open" /\ ActiveSinks' = ActiveSinks
        /\ \A r \in LaneSinks \ {s} : sinks'[r] = sinks[r]
    BY RecordActive, Zenon DEF Count, ReceiverInv
  <1>2. /\ UNCHANGED <<now, first, life, holder, observing, feeds, got, checks, seen>>
        /\ bytes' = bytes + 1 /\ sinks[s].pc = "Marked"
    BY Zenon DEF Count
  <1>3. life.lanes # 0
    <2>1. s \in ActiveSinks
      BY <1>2 DEF ActiveSinks
    <2>2. Cardinality(ActiveSinks) # 0
      BY <2>1, ActiveAreFinite, FS_EmptySet
    <2> QED
      BY <2>2, Zenon DEF LanesCounted, ReceiverInv
  <1>4. bytes \in Nat /\ bytes' \in Nat /\ bytes <= bytes' /\ MaxCounter \in Nat
    BY <1>2 DEF ReceiverInv, ReceiverTypes, ReceiverAssumption
  <1>5. ReceiverTypes'
    BY <1>1, <1>2, <1>4, Zenon DEF ReceiverInv, ReceiverTypes
  <1>6. \A o \in Observers : HasLoaded(o)' = HasLoaded(o)
    BY <1>2, Zenon DEF HasLoaded
  <1>7. LanesCounted' /\ Locked'
    BY <1>1, <1>2, <1>6, Zenon DEF LanesCounted, Locked, ReceiverInv
  <1>8. Exact'
    BY <1>2, <1>3, Zenon DEF Exact, ReceiverInv
  <1>9. Timed'
    BY <1>1, <1>2 DEF Timed, ReceiverInv
  <1>10. Ordered'
    <2>1. Elapsed' = Elapsed
      BY <1>2, Zenon DEF Elapsed
    <2>2. seen'.bytes <= Min(bytes', MaxCounter)
      <3>1. seen.bytes \in Nat /\ Min(bytes, MaxCounter) \in Nat /\ Min(bytes', MaxCounter) \in Nat
        BY <1>4, MinBound, Zenon DEF ReceiverInv, ReceiverTypes
      <3>2. Min(bytes, MaxCounter) <= Min(bytes', MaxCounter)
        BY <1>4, MinGrows, Zenon
      <3>3. seen.bytes <= Min(bytes, MaxCounter) /\ seen' = seen
        BY <1>2, Zenon DEF Ordered, ReceiverInv
      <3> QED
        BY <3>1, <3>2, <3>3
    <2>3. \A o \in Observers : got'[o] <= bytes'
      BY <1>2, <1>4 DEF Ordered, ReceiverInv, ReceiverTypes
    <2> QED
      BY <1>2, <1>6, <2>1, <2>2, <2>3, Zenon DEF Ordered, ReceiverInv
  <1> QED
    BY <1>5, <1>7, <1>8, <1>9, <1>10, Zenon DEF ReceiverInv

LEMMA TickKeeps == ASSUME ReceiverAssumption, ReceiverInv, Tick PROVE ReceiverInv'
  <1>1. UNCHANGED <<bytes, first, life, holder, observing, sinks, feeds, got, checks, seen>> /\ now' = now + 1
    BY Zenon DEF Tick
  <1>2. ReceiverTypes'
    <2>1. now' \in Nat
      BY <1>1 DEF ReceiverInv, ReceiverTypes
    <2> QED
      BY <1>1, <2>1, Zenon DEF ReceiverInv, ReceiverTypes
  <1>3. (\A o \in Observers : HasLoaded(o)' = HasLoaded(o)) /\ ActiveSinks' = ActiveSinks
    BY <1>1, Zenon DEF HasLoaded, ActiveSinks
  <1>4. LanesCounted' /\ Locked' /\ Exact'
    BY <1>1, <1>3, Zenon DEF LanesCounted, Locked, Exact, ReceiverInv
  <1>5. Timed'
    BY <1>1 DEF Timed, ReceiverInv, ReceiverTypes, Unset
  <1>6. Ordered'
    <2>1. Elapsed \in Nat /\ Elapsed' \in Nat /\ Elapsed <= Elapsed' /\ MaxCounter \in Nat /\ seen.nanos \in Nat
      BY <1>1 DEF Elapsed, Timed, ReceiverInv, ReceiverTypes, Unset, ReceiverAssumption
    <2>2. Min(Elapsed, MaxCounter) \in Nat /\ Min(Elapsed', MaxCounter) \in Nat /\ Min(Elapsed, MaxCounter) <= Min(Elapsed', MaxCounter)
      BY <2>1, MinBound, MinGrows, Zenon
    <2>3. seen.nanos <= Min(Elapsed', MaxCounter)
      <3>1. seen.nanos <= Min(Elapsed, MaxCounter)
        BY Zenon DEF Ordered, ReceiverInv
      <3> HIDE DEF Elapsed
      <3> QED
        BY <2>1, <2>2, <3>1
    <2> QED
      BY <1>1, <1>3, <2>3, Zenon DEF Ordered, ReceiverInv
  <1> QED
    BY <1>2, <1>4, <1>5, <1>6, Zenon DEF ReceiverInv

\* The bytes are loaded under `observing`, and behind them is all that was told.
LEMMA LoadKeeps == ASSUME ReceiverAssumption, ReceiverInv, NEW o \in Observers, Load(o) PROVE ReceiverInv'
  <1>1. /\ UNCHANGED <<now, bytes, first, life, holder, sinks, seen>> /\ Counting(o)
        /\ observing = Nobody /\ observing' = o /\ got' = [got EXCEPT ![o] = bytes]
        /\ feeds' = [f \in Feeds |-> IF f = o THEN [feeds[f] EXCEPT !.pc = "Loaded"] ELSE feeds[f]]
        /\ checks' = [k \in Checks |-> IF k = o THEN "Loaded" ELSE checks[k]]
    BY Zenon DEF Load, Loaded
  <1>2. /\ got' \in [Observers -> Nat] /\ got'[o] = bytes /\ \A p \in Observers \ {o} : got'[p] = got[p]
        /\ checks' \in [Checks -> {"Idle", "Count", "Loaded"}]
    BY <1>1 DEF ReceiverInv, ReceiverTypes
  <1>3. ASSUME NEW f \in Feeds
        PROVE  /\ feeds'[f] \in FeedType /\ (f = o => feeds'[f].pc = "Loaded" /\ feeds[f].pc = "Count")
               /\ f # o => feeds'[f] = feeds[f]
    <2>1. feeds[f] \in FeedType /\ "Loaded" \in FeedPlaces
      BY DEF ReceiverInv, ReceiverTypes, FeedPlaces
    <2>2. f = o => feeds'[f] = [feeds[f] EXCEPT !.pc = "Loaded"] /\ feeds[f].pc = "Count"
      BY <1>1, Zenon DEF Counting
    <2>3. f # o => feeds'[f] = feeds[f]
      BY <1>1, Zenon
    <2>4. CASE f = o
      <3>1. [feeds[f] EXCEPT !.pc = "Loaded"] \in FeedType /\ [feeds[f] EXCEPT !.pc = "Loaded"].pc = "Loaded"
        BY <2>1, FeedGoes, Zenon
      <3> QED
        BY <2>2, <2>4, <3>1, Zenon
    <2>5. CASE f # o
      BY <2>1, <2>3, <2>5, Zenon
    <2> QED
      BY <2>4, <2>5, Zenon
  <1>4. feeds' \in [Feeds -> FeedType]
    BY <1>1, <1>3, Zenon
  <1>5. ReceiverTypes'
    BY <1>1, <1>2, <1>4, Zenon DEF ReceiverInv, ReceiverTypes
  <1>6. \A p \in Observers : ~HasLoaded(p) /\ (HasLoaded(p)' => p = o)
    <2>1. \A p \in Observers : ~HasLoaded(p)
      BY <1>1, Zenon DEF Locked, ReceiverInv, ReceiverAssumption
    <2> QED
      BY <1>1, <1>3, <2>1, Zenon DEF HasLoaded, Observers
  <1>7. LanesCounted' /\ Timed'
    <2>1. ActiveSinks' = ActiveSinks
      BY <1>1, Zenon DEF ActiveSinks
    <2> QED
      BY <1>1, <2>1, Zenon DEF LanesCounted, Timed, ReceiverInv
  <1>8. Locked'
    <2>1. \A f \in Feeds : feeds'[f].pc \in {"Count", "Loaded"} => feeds[f].pc \in {"Count", "Loaded"}
      BY <1>3, Zenon
    <2> QED
      BY <1>1, <1>6, <2>1, Zenon DEF Locked, ReceiverInv
  <1>9. Ordered'
    <2>1. Elapsed' = Elapsed /\ bytes \in Nat /\ bytes <= bytes
      BY <1>1 DEF Elapsed, ReceiverInv, ReceiverTypes
    <2>2. \A p \in Observers : got'[p] <= bytes'
      BY <1>1, <1>2, <2>1, Zenon DEF Ordered, ReceiverInv
    <2>3. \A p \in Observers : HasLoaded(p)' => seen'.bytes <= Min(got'[p], MaxCounter)
      BY <1>1, <1>2, <1>6, Zenon DEF Ordered, ReceiverInv
    <2> QED
      BY <1>1, <2>1, <2>2, <2>3, Zenon DEF Ordered, ReceiverInv
  <1>10. Exact'
    <2> SUFFICES ASSUME NEW f \in Feeds
                 PROVE  /\ feeds'[f].pc = "Loaded" /\ life'.lanes = 0 => got'[f] = bytes'
                        /\ feeds'[f].pc = "Complete" => got'[f] = bytes' /\ life'.lanes = 0 /\ life'.phase # "Open"
      BY Zenon DEF Exact
    <2>1. f \in Observers
      BY DEF Observers
    <2>2. CASE f = o
      BY <1>1, <1>2, <1>3, <2>2, Zenon
    <2>3. CASE f # o
      BY <1>1, <1>2, <1>3, <2>1, <2>3, Zenon DEF Exact, ReceiverInv
    <2> QED
      BY <2>2, <2>3, Zenon
  <1> QED
    BY <1>5, <1>7, <1>8, <1>9, <1>10, Zenon DEF ReceiverInv

\* What an observer tells follows all that was told before it, and is behind the bytes.
LEMMA Observed ==
    ASSUME ReceiverAssumption, ReceiverInv, NEW o \in Observers, HasLoaded(o)
    PROVE  /\ Observation(o) \in [bytes : Nat, nanos : Nat]
           /\ Observation(o).bytes <= Min(bytes, MaxCounter) /\ Observation(o).nanos <= Min(Elapsed, MaxCounter)
           /\ Observation(o).bytes >= seen.bytes /\ Observation(o).nanos >= seen.nanos
  <1>1. /\ got[o] \in Nat /\ bytes \in Nat /\ got[o] <= bytes /\ MaxCounter \in Nat
        /\ seen.bytes \in Nat /\ seen.nanos \in Nat
    BY DEF ReceiverInv, ReceiverTypes, Ordered, ReceiverAssumption
  <1>2. Elapsed \in Nat
    BY DEF Elapsed, Timed, ReceiverInv, ReceiverTypes, Unset
  <1>3. Observation(o) = [bytes |-> Min(got[o], MaxCounter), nanos |-> Min(Elapsed, MaxCounter)]
    BY Zenon DEF Observation, Counters, Elapsed
  <1>4. /\ Min(got[o], MaxCounter) \in Nat /\ Min(Elapsed, MaxCounter) \in Nat
        /\ Min(got[o], MaxCounter) <= Min(bytes, MaxCounter)
    BY <1>1, <1>2, MinBound, MinGrows, Zenon
  <1>5. seen.bytes <= Min(got[o], MaxCounter) /\ seen.nanos <= Min(Elapsed, MaxCounter)
    BY Zenon DEF Ordered, ReceiverInv
  <1> HIDE DEF Elapsed, Min
  <1> QED
    BY <1>1, <1>3, <1>4, <1>5

LEMMA AnswerKeeps == ASSUME ReceiverAssumption, ReceiverInv, NEW k \in Checks, Answer(k) PROVE ReceiverInv'
  <1>1. /\ UNCHANGED <<now, bytes, first, life, holder, sinks, feeds, got>> /\ checks[k] = "Loaded"
        /\ observing' = Nobody /\ seen' = Observation(k) /\ checks' = [checks EXCEPT ![k] = "Idle"]
    BY Zenon DEF Answer
  <1>2. k \in Observers /\ k \notin Feeds /\ HasLoaded(k)
    BY <1>1 DEF Observers, HasLoaded, ReceiverAssumption
  <1>3. /\ checks' \in [Checks -> {"Idle", "Count", "Loaded"}] /\ checks'[k] = "Idle"
        /\ \A h \in Checks \ {k} : checks'[h] = checks[h]
    BY <1>1 DEF ReceiverInv, ReceiverTypes
  <1>4. ReceiverTypes'
    BY <1>1, <1>2, <1>3, Observed, Zenon DEF ReceiverInv, ReceiverTypes
  <1>5. \A o \in Observers : ~HasLoaded(o)'
    <2>1. \A o \in Observers : HasLoaded(o) => o = k
      BY <1>2, Zenon DEF Locked, ReceiverInv
    <2> QED
      BY <1>1, <1>2, <1>3, <2>1, Zenon DEF HasLoaded, Observers
  <1>6. LanesCounted' /\ Timed' /\ Exact'
    <2>1. ActiveSinks' = ActiveSinks
      BY <1>1, Zenon DEF ActiveSinks
    <2> QED
      BY <1>1, <2>1, Zenon DEF LanesCounted, Timed, Exact, ReceiverInv
  <1>7. Locked'
    BY <1>1, <1>5, Zenon DEF Locked, ReceiverInv
  <1>8. Ordered'
    <2>1. Elapsed' = Elapsed
      BY <1>1, Zenon DEF Elapsed
    <2> QED
      BY <1>1, <1>2, <1>5, <2>1, Observed, Zenon DEF Ordered, ReceiverInv
  <1> QED
    BY <1>4, <1>6, <1>7, <1>8, Zenon DEF ReceiverInv

\* The feed that tells held `life` since before it loaded: the lanes it finds
\* gone were gone then, so what it loaded is all there is.
LEMMA TellKeeps == ASSUME ReceiverAssumption, ReceiverInv, NEW f \in Feeds, Tell(f) PROVE ReceiverInv'
  <1> DEFINE progress == life.phase = "Open" /\ feeds[f].ticked /\ Observation(f).nanos > 0
             place == CASE Completes(f) -> "Complete" [] ~Completes(f) /\ progress -> "Top" [] OTHER -> "Rest"
             new == [[feeds[f] EXCEPT !.pc = place] EXCEPT !.ticked = FALSE]
  <1>1. /\ UNCHANGED <<now, bytes, first, life, sinks, got, checks>> /\ feeds[f].pc = "Loaded"
        /\ observing' = Nobody /\ holder' = Nobody /\ seen' = Observation(f)
        /\ feeds' = [feeds EXCEPT ![f].pc = place, ![f].ticked = FALSE]
    BY Zenon DEF Tell
  <1>2. f \in Observers /\ HasLoaded(f) /\ feeds[f] \in FeedType /\ feeds \in [Feeds -> FeedType]
    BY <1>1 DEF Observers, HasLoaded, ReceiverInv, ReceiverTypes
  <1>3. /\ place \in {"Complete", "Top", "Rest"}
        /\ place = "Complete" => life.phase = "Finished" /\ life.lanes = 0
    BY Zenon DEF Completes
  <1>4. feeds' = [feeds EXCEPT ![f] = new]
    BY <1>1, <1>2, Zenon
  <1> HIDE DEF place
  <1>5. new \in FeedType /\ new.pc = place
    <2>1. place \in FeedPlaces /\ FALSE \in BOOLEAN
      BY <1>3 DEF FeedPlaces, Ended
    <2> DEFINE mid == [feeds[f] EXCEPT !.pc = place]
    <2>2. mid \in FeedType /\ mid.pc = place
      BY <1>2, <2>1, FeedGoes, Zenon
    <2> HIDE DEF mid
    <2>3. [mid EXCEPT !.ticked = FALSE] \in FeedType /\ [mid EXCEPT !.ticked = FALSE].pc = place
      BY <2>1, <2>2, FeedTicked, Zenon
    <2> QED
      BY <2>3, Zenon DEF mid
  <1> HIDE DEF new
  <1>6. /\ feeds' \in [Feeds -> FeedType] /\ feeds'[f].pc = place
        /\ \A g \in Feeds \ {f} : feeds'[g] = feeds[g]
    BY <1>2, <1>4, <1>5
  <1>7. ReceiverTypes'
    BY <1>1, <1>2, <1>6, Observed, Zenon DEF ReceiverInv, ReceiverTypes
  <1>8. \A g \in Feeds : feeds'[g].pc \notin {"Count", "Loaded"}
    <2>1. \A g \in Feeds \ {f} : feeds[g].pc \notin {"Count", "Loaded"}
      BY <1>1 DEF Locked, ReceiverInv
    <2> QED
      BY <1>3, <1>6, <2>1
  <1>9. \A o \in Observers : ~HasLoaded(o)'
    <2>1. \A o \in Observers : HasLoaded(o) => o = f
      BY <1>2, Zenon DEF Locked, ReceiverInv
    <2> QED
      BY <1>1, <1>8, <2>1, Zenon DEF HasLoaded, Observers
  <1>10. LanesCounted' /\ Timed'
    <2>1. ActiveSinks' = ActiveSinks
      BY <1>1, Zenon DEF ActiveSinks
    <2> QED
      BY <1>1, <2>1, Zenon DEF LanesCounted, Timed, ReceiverInv
  <1>11. Locked'
    BY <1>8, <1>9, Zenon DEF Locked
  <1>12. Ordered'
    <2>1. Elapsed' = Elapsed
      BY <1>1, Zenon DEF Elapsed
    <2> QED
      BY <1>1, <1>2, <1>9, <2>1, Observed, Zenon DEF Ordered, ReceiverInv
  <1>13. Exact'
    <2> SUFFICES ASSUME NEW g \in Feeds, feeds'[g].pc = "Complete"
                 PROVE  got'[g] = bytes' /\ life'.lanes = 0 /\ life'.phase # "Open"
      BY <1>8, Zenon DEF Exact
    <2>1. CASE g = f
      BY <1>1, <1>3, <1>6, <2>1, Zenon DEF Exact, ReceiverInv
    <2>2. CASE g # f
      BY <1>1, <1>6, <2>2, Zenon DEF Exact, ReceiverInv
    <2> QED
      BY <2>1, <2>2, Zenon
  <1> QED
    BY <1>7, <1>10, <1>11, <1>12, <1>13, Zenon DEF ReceiverInv

LEMMA NextKeeps == ASSUME ReceiverAssumption, ReceiverInv, [Next]_vars PROVE ReceiverInv'
  <1>0. ReceiverTypes
    BY Zenon DEF ReceiverInv
  <1>1. ASSUME NEW s \in LaneSinks, Join(s) \/ Mark(s) \/ Count(s) \/ Leave(s) \/ Watch(s) PROVE ReceiverInv'
    BY <1>0, <1>1, JoinKeeps, MarkKeeps, CountKeeps, LeaveKeeps, WatchQuiet, QuietKeeps, Zenon
  <1>2. ASSUME NEW c \in Finishes, ReachFinish(c) \/ Finish(c) PROVE ReceiverInv'
    BY <1>0, <1>2, FinishQuiet, QuietKeeps, Zenon
  <1>3. CASE Expire \/ NotifyWaiters \/ Tick
    BY <1>0, <1>3, ExpireQuiet, NotifyQuiet, QuietKeeps, TickKeeps, Zenon
  <1>4. ASSUME NEW o \in Observers, Load(o) PROVE ReceiverInv'
    BY <1>4, LoadKeeps, Zenon
  <1>5. ASSUME NEW k \in Checks, Checkpoint(k) \/ Answer(k) PROVE ReceiverInv'
    BY <1>0, <1>5, CheckpointQuiet, QuietKeeps, AnswerKeeps, Zenon
  <1>6. ASSUME NEW f \in Feeds,
               \/ ReachWatch(f) \/ Subscribe(f) \/ Enable(f) \/ Step(f) \/ Tell(f) \/ Await(f)
               \/ WakeChanged(f) \/ WakeTick(f) \/ Heartbeat(f) \/ Drop(f)
        PROVE  ReceiverInv'
    BY <1>0, <1>6, FeedQuiet, SubscribeQuiet, QuietKeeps, StepKeeps, TellKeeps, Zenon
  <1>7. CASE UNCHANGED vars
    <2>1. ReceiverTypes' /\ Quiet
      BY <1>0, <1>7, Zenon DEF vars, ReceiverTypes, Quiet
    <2> QED
      BY <2>1, QuietKeeps, Zenon
  <1> QED
    BY <1>1, <1>2, <1>3, <1>4, <1>5, <1>6, <1>7, Zenon DEF Next

LEMMA InitReceiver == ASSUME ReceiverAssumption, Init PROVE ReceiverInv
  <1>1. ReceiverTypes
    <2>1. Counters(0, 0) \in [bytes : Nat, nanos : Nat]
      BY DEF Counters, Min, ReceiverAssumption
    <2>2. /\ [pc |-> "Idle", watch |-> "Off", woken |-> FALSE] \in SinkType
          /\ [pc |-> "Idle", reader |-> 0, ready |-> FALSE, ticked |-> FALSE, grid |-> FALSE, woken |-> FALSE] \in FeedType
      BY DEF SinkType, FeedType, FeedPlaces
    <2>3. sinks \in [LaneSinks -> SinkType] /\ feeds \in [Feeds -> FeedType]
      BY <2>2, Zenon DEF Init
    <2>4. life \in [lanes : Int, phase : {"Open", "Finished", "Expired"}, reader : Nat]
      BY DEF Init
    <2> QED
      BY <2>1, <2>3, <2>4 DEF Init, ReceiverTypes
  <1>2. LanesCounted
    <2>1. ActiveSinks = {}
      BY DEF Init, ActiveSinks
    <2> QED
      BY <2>1, FS_EmptySet DEF LanesCounted, Init
  <1>3. \A o \in Observers : ~HasLoaded(o)
    BY DEF Init, HasLoaded, Observers
  <1>4. Locked /\ Timed /\ Exact
    BY <1>3 DEF Init, Locked, Timed, Exact
  <1>5. Ordered
    BY <1>3 DEF Init, Ordered, Counters, Min, Elapsed, ReceiverAssumption, Unset
  <1> QED
    BY <1>1, <1>2, <1>4, <1>5, Zenon DEF ReceiverInv

LEMMA ReceiverInvariant == ASSUME ReceiverAssumption PROVE Spec => []ReceiverInv
  <1>1. Init => ReceiverInv
    BY InitReceiver
  <1>2. ReceiverInv /\ [Next]_vars => ReceiverInv'
    BY NextKeeps
  <1> QED
    BY <1>1, <1>2, PTL DEF Spec

\* The receiver's totals are exact, for any lanes, feeds and checkpoints.  The
\* feed that tells a `complete` record counted with `life` locked, so no lane was
\* left to count when it loaded the bytes and none can join afterwards
\* (ProgressFeed::step); every lane stamps `first` before it counts
\* (Aggregate::record), so no observer in between sees a byte without its time.
THEOREM ToldTotalsExact == ASSUME ReceiverAssumption PROVE Spec => []TotalsExact
  <1>1. ReceiverInv => CompleteIsExact
    <2> SUFFICES ASSUME ReceiverInv, NEW f \in Feeds, feeds[f].pc = "Complete"
                 PROVE  /\ got[f] = bytes /\ life.phase # "Open"
                        /\ \A s \in LaneSinks : sinks[s].pc \in {"Idle", "Left"}
      BY Zenon DEF CompleteIsExact
    <2>1. got[f] = bytes /\ life.phase # "Open" /\ life.lanes = 0
      BY Zenon DEF ReceiverInv, Exact
    <2>2. ActiveSinks = {}
      BY <2>1, ActiveAreFinite, FS_EmptySet, Zenon DEF ReceiverInv, LanesCounted
    <2>3. \A s \in LaneSinks : sinks[s].pc \in {"Idle", "Left"}
      BY <2>2 DEF ActiveSinks, ReceiverInv, ReceiverTypes, SinkType
    <2> QED
      BY <2>1, <2>3, Zenon
  <1>2. ReceiverInv => BytesAreTimed
    <2> SUFFICES ASSUME ReceiverInv, seen.bytes > 0 PROVE first # Unset
      BY Zenon DEF BytesAreTimed
    <2>1. bytes \in Nat /\ seen.bytes \in Nat /\ MaxCounter \in Nat /\ seen.bytes <= Min(bytes, MaxCounter)
      BY DEF ReceiverInv, ReceiverTypes, Ordered, ReceiverAssumption
    <2>2. bytes > 0
      BY <2>1 DEF Min
    <2> QED
      BY <2>2, Zenon DEF ReceiverInv, Timed
  <1>3. ReceiverInv => TotalsExact
    BY <1>1, <1>2, Zenon DEF TotalsExact
  <1> QED
    BY <1>3, ReceiverInvariant, PTL

\* No observation runs backwards, whichever feed or checkpoint makes it and
\* whatever it read before another one's: `observing` is held from the load of
\* the bytes until the answer (Aggregate::counters).
THEOREM ToldInOrder == ASSUME ReceiverAssumption PROVE Spec => [][ObservationsFollow]_vars
  <1>1. ASSUME ReceiverInv, [Next]_vars PROVE [ObservationsFollow]_vars
    <2>1. seen.bytes \in Nat /\ seen.nanos \in Nat
      BY <1>1 DEF ReceiverInv, ReceiverTypes
    <2>2. CASE seen' = seen
      BY <2>1, <2>2 DEF ObservationsFollow
    <2>3. ASSUME NEW o \in Observers, HasLoaded(o), seen' = Observation(o) PROVE ObservationsFollow
      BY <1>1, <2>3, Observed, Zenon DEF ObservationsFollow
    <2>4. ASSUME NEW k \in Checks, Answer(k) PROVE ObservationsFollow
      <3>1. k \in Observers /\ HasLoaded(k) /\ seen' = Observation(k)
        BY <2>4 DEF Answer, HasLoaded, Observers, ReceiverAssumption
      <3> QED
        BY <2>3, <3>1, Zenon
    <2>5. ASSUME NEW f \in Feeds, Tell(f) PROVE ObservationsFollow
      <3>1. f \in Observers /\ HasLoaded(f) /\ seen' = Observation(f)
        BY <2>5, Zenon DEF Tell, HasLoaded, Observers
      <3> QED
        BY <2>3, <3>1, Zenon
    <2> QED
      BY <1>1, <2>2, <2>4, <2>5, ZenonT(60)
      DEF Next, vars, Join, Mark, Count, Leave, Watch, ReachFinish, Finish, Expire, NotifyWaiters, Tick, Load, Loaded,
          Checkpoint, ReachWatch, Subscribe, Enable, Step, Await, WakeChanged, WakeTick, Heartbeat, Drop
  <1> QED
    BY <1>1, ReceiverInvariant, PTL DEF Spec

==============================================================================
