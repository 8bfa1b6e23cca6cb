--------------------------- MODULE StageAggregate ---------------------------
(***************************************************************************)
(* The evidence of a transfer stage, client/src/measure/aggregate.rs: the  *)
(* boundaries the stage engine observes become intervals of fixed          *)
(* membership, and every server's unique bytes a ledger.                   *)
(*                                                                         *)
(* Byte and nanosecond counters are small numbers.  A rate is kept as what *)
(* it divides, and an interval's peaks as the spans they were taken over.  *)
(* `log`, `truth` and `base` are the reference the properties compare      *)
(* with: every boundary given, each receiver's real count, and the counts  *)
(* at which the ledgers began.                                             *)
(***************************************************************************)
EXTENDS Integers, Sequences, FiniteSets, SequencesExt, Functions, FiniteSetsExt

CONSTANTS
    Servers,      \* servers a stage may have
    Plans,        \* stages: their servers and directions, the last boundary's time, the upload
                  \* receivers a server goes through at most, and by how much their feeds lag
    MaxIntervals, \* intervals a result keeps
    MinPeak

VARIABLES
    plan,     \* the stage
    agg,      \* the Aggregate
    present,  \* the servers still measured
    log,      \* the boundaries so far
    truth,    \* what each server's lanes and receivers counted
    base      \* the counts its ledger began at

vars == <<plan, agg, present, log, truth, base>>

Directions == plan.directions

No == [at |-> -1]
Down == "down" \in Directions
Up == "up" \in Directions

\* A reading's download count, checkpoint and feed; -1 in `id` or `down` is None.
Unread == [down |-> -1, up |-> [id |-> -1, bytes |-> 0, nanos |-> 0], fed |-> [id |-> -1, bytes |-> 0]]

----------------------------------------------------------------------------
(* Ledgers. *)

\* A credit that takes any other receiver for a newer one.
CreditFedAnyId(ledger, fed) ==
    LET added == IF ledger.up.id = -1 THEN 0
                 ELSE IF fed.id # ledger.up.id THEN fed.bytes
                 ELSE IF fed.bytes > ledger.up.bytes THEN fed.bytes - ledger.up.bytes ELSE 0
    IN  IF fed.id = -1 THEN ledger ELSE [ledger EXCEPT !.up = fed, !.bytes.up = @ + added]

\* Ledger::credit: the current receiver's growth, or a newer one's whole count.
CreditFed(ledger, fed) ==
    LET stale == fed.id < ledger.up.id \/ (fed.id = ledger.up.id /\ fed.bytes <= ledger.up.bytes)
        added == IF ledger.up.id = -1 THEN 0
                 ELSE IF fed.id = ledger.up.id THEN fed.bytes - ledger.up.bytes ELSE fed.bytes
    IN  IF fed.id = -1 \/ (ledger.up.id # -1 /\ stale) THEN ledger
        ELSE [ledger EXCEPT !.up = fed, !.bytes.up = @ + added]

CreditDown(ledger, count) ==
    IF count = -1 THEN ledger
    ELSE LET high == IF ledger.down = -1 THEN count ELSE ledger.down
         IN  [ledger EXCEPT !.down = IF count > high THEN count ELSE high,
                            !.bytes.down = @ + (IF count > high THEN count - high ELSE 0)]

\* Aggregate::credit: every reading, the feed before the checkpoint.
Credit(ledgers, readings) ==
    [s \in Servers |->
        IF s \notin DOMAIN readings THEN ledgers[s]
        ELSE LET r == readings[s]
             IN  CreditFed(CreditFed(CreditDown(ledgers[s], r.down), r.fed),
                           [id |-> r.up.id, bytes |-> r.up.bytes])]

----------------------------------------------------------------------------
(* Intervals. *)

NoWindow == [start |-> -1, end |-> -1, parts |-> <<>>]

\* restart(): a new interval, the oldest one dropped at the cap.
Restart(a, reason, members, at) ==
    LET kept == IF Len(a.intervals) = MaxIntervals THEN Tail(a.intervals) ELSE a.intervals
        fresh == [reason |-> reason, members |-> members, start |-> at, end |-> at,
                  complete |-> TRUE, window |-> NoWindow, peaks |-> {}]
    IN  [a EXCEPT !.intervals = Append(kept, fresh), !.begun = @ + 1, !.open = No]

\* start(): the interval's evidence begins at this boundary, where everyone moved last.
Begin(a, b) ==
    LET n == Len(a.intervals)
        i == [a.intervals[n] EXCEPT !.start = b.at, !.end = b.at]
        mark == [at |-> b.at, boundary |-> b, window |-> i.window, peaks |-> i.peaks]
    IN  [a EXCEPT !.intervals[n] = i,
                  !.open = [at |-> b.at, first |-> b, last |-> b, peakFrom |-> b,
                            moved |-> [s \in i.members |-> [d \in Directions |-> mark]]]]

\* window(): what every member moved between two boundaries, or why there is none.
Part(d, from, to, elapsed) ==
    IF d = "down" THEN [bytes |-> to.down - from.down, span |-> elapsed]
    ELSE [bytes |-> to.up.bytes - from.up.bytes, span |-> to.up.nanos - from.up.nanos]
Broken(from, to) ==
    \/ Down /\ (from.down = -1 \/ to.down = -1 \/ to.down < from.down)
    \/ Up /\ \/ from.up.id = -1 \/ to.up.id = -1 \/ from.up.id # to.up.id
             \/ to.up.bytes < from.up.bytes \/ to.up.nanos < from.up.nanos
GapBetween(members, first, last) ==
    LET read == members \subseteq (DOMAIN first.readings \cap DOMAIN last.readings) IN
    IF last.at <= first.at THEN "stale"
    ELSE IF ~read \/ \E s \in members : Broken(first.readings[s], last.readings[s]) THEN "broken"
    ELSE IF Up /\ \E s \in members : last.readings[s].up.nanos = first.readings[s].up.nanos
         THEN "stale"
    ELSE "none"
Between(members, first, last) ==
    [start |-> first.at, end |-> last.at,
     parts |-> [s \in members |-> [d \in Directions |->
                   Part(d, first.readings[s], last.readings[s], last.at - first.at)]]]
Shortest(w) ==
    Min({w.end - w.start} \cup
        (IF Up THEN {w.parts[s]["up"].span : s \in DOMAIN w.parts} ELSE {}))

----------------------------------------------------------------------------
(* observe() and dropout(). *)

Given(b, s) ==
    /\ s \in DOMAIN b.readings
    /\ Down => b.readings[s].down # -1
    /\ Up => b.readings[s].up.id # -1

\* The boundary joins the open interval.
Extend(a, b) ==
    LET n == Len(a.intervals)
        i == a.intervals[n]
        sample == Between(i.members, a.open.last, b)
        peaking == /\ GapBetween(i.members, a.open.peakFrom, b) = "none"
                   /\ Shortest(Between(i.members, a.open.peakFrom, b)) >= MinPeak
        longer == [i EXCEPT !.end = b.at, !.window = Between(i.members, a.open.first, b),
                            !.peaks = IF peaking THEN @ \cup {<<a.open.peakFrom.at, b.at>>} ELSE @]
        mark == [at |-> b.at, boundary |-> b, window |-> longer.window, peaks |-> longer.peaks]
    IN  [a EXCEPT !.intervals[n] = longer,
                  !.open.last = b,
                  !.open.peakFrom = IF peaking THEN b ELSE @,
                  !.open.moved = [s \in i.members |-> [d \in Directions |->
                        IF sample.parts[s][d].bytes > 0 THEN mark ELSE @[s][d]]]]

\* observe() with no open interval: it begins once every member has a full reading.
Awaiting(a, b) ==
    LET members == Last(a.intervals).members
    IN  IF members # {} /\ \A s \in members : Given(b, s) THEN Begin(a, b) ELSE a

\* resume(): the interval no longer counts; another starts at this boundary, which
\* is observed, and so credited, a second time.
Resume(a, b) ==
    LET n == Len(a.intervals)
        cut == [a EXCEPT !.intervals[n].complete = FALSE, !.ledgers = Credit(@, b.readings)]
    IN  Awaiting(Restart(cut, "evidence-resumed", a.intervals[n].members, b.at), b)

Observe(a0, b) ==
    LET a == [a0 EXCEPT !.ledgers = Credit(@, b.readings), !.latest = b]
        members == Last(a.intervals).members
        full == members # {} /\ \A s \in members : Given(b, s)
        gap == GapBetween(members, a.open.last, b)
        sample == Between(members, a.open.last, b)
    IN  IF a.open = No THEN Awaiting(a, b)
        ELSE IF b.stalled THEN Resume(a, b)
        ELSE IF ~full THEN a
        ELSE IF gap = "broken" THEN Resume(a, b)
        ELSE IF gap = "stale" THEN a
        ELSE IF b.last /\ \E s \in members : \E d \in Directions : sample.parts[s][d].bytes = 0
             THEN a
        ELSE IF GapBetween(members, a.open.first, b) # "none" THEN Resume(a, b)
        ELSE Extend(a, b)

\* The interval goes back to what it was at a mark.
CutAt(a, end) ==
    LET n == Len(a.intervals)
    IN  [a EXCEPT !.intervals[n].end = end.at, !.intervals[n].window = end.window,
                  !.intervals[n].peaks = end.peaks]

\* dropout(): the interval ends at the earliest last move of a departed member,
\* the survivors' interval starts there and takes in the latest boundary.
Dropout(a, survivors, at) ==
    LET n == Len(a.intervals)
        i == a.intervals[n]
        marks == IF a.open = No THEN {}
                 ELSE UNION {{a.open.moved[s][d] : d \in Directions} : s \in i.members \ survivors}
        end == CHOOSE m \in marks : \A o \in marks : m.at <= o.at
        cut == CutAt(a, end)
        again == Begin(Restart(cut, "dropout", survivors, end.at), end.boundary)
    IN  IF survivors = i.members THEN a
        ELSE IF marks = {}
             THEN IF survivors = {} THEN a ELSE Restart(a, "dropout", survivors, at)
        ELSE IF survivors = {} THEN cut
        ELSE IF a.latest.at > end.at THEN Observe(again, a.latest) ELSE again

\* An interval counts when it is complete and measured.
Counts(i) == i.complete /\ i.window # NoWindow

----------------------------------------------------------------------------
(* A stage that feeds it. *)

\* Aggregate::new.
Fresh(members) ==
    Restart([intervals |-> <<>>, begun |-> 0, open |-> No, latest |-> No,
             ledgers |-> [s \in Servers |->
                [down |-> -1, up |-> [id |-> -1, bytes |-> 0], bytes |-> [down |-> 0, up |-> 0]]]],
            "stage-start", members, 0)

Init ==
    /\ plan \in Plans /\ agg = Fresh(plan.servers) /\ present = plan.servers /\ log = <<>>
    /\ truth = [s \in Servers |-> [down |-> 0, receivers |-> <<[bytes |-> 0, nanos |-> 0]>>]]
    /\ base = [s \in Servers |-> [down |-> -1, up |-> -1]]

Now == IF log = <<>> THEN 0 ELSE Last(log).at

\* A server's counters a tick later: its lanes moved or not, its receiver's
\* clock too, or the receiver was replaced by a new one that counts from zero.
Moves(t) ==
    {[down |-> t.down + x, receivers |-> t.receivers] : x \in IF Down THEN {0, 1} ELSE {0}}
Steps(t) ==
    IF ~Up THEN Moves(t)
    ELSE LET n == Len(t.receivers) IN
         UNION {{[m EXCEPT !.receivers[n] = [bytes |-> @.bytes + x[1], nanos |-> @.nanos + x[2]]] :
                    x \in {<<0, 0>>, <<0, 1>>, <<1, 1>>}} : m \in Moves(t)}
         \cup (IF n < plan.receivers
               THEN {[m EXCEPT !.receivers = Append(@, [bytes |-> x, nanos |-> x])] :
                        m \in Moves(t), x \in {0, 1}}
               ELSE {})

\* What a receiver's feed told before its checkpoint was asked for: its count, or one
\* behind that, or nothing yet.
Told(t, k) ==
    {[id |-> k, bytes |-> b] : b \in Max({0, t.receivers[k].bytes - plan.lag})..t.receivers[k].bytes}
    \cup (IF plan.lag > 0 THEN {Unread.fed} ELSE {})

\* A reading of those counters: the feed lags or still names the old receiver, and a
\* checkpoint may be missed.
Readings(t) ==
    LET n == Len(t.receivers)
        count == t.receivers[n]
        ups == IF Up THEN {[id |-> n, bytes |-> count.bytes, nanos |-> count.nanos], Unread.up}
                     ELSE {Unread.up}
        feds == IF ~Up THEN {Unread.fed}
                ELSE UNION {Told(t, k) : k \in Max({1, n - 1})..n}
    IN  {[down |-> IF Down THEN t.down ELSE -1, up |-> u, fed |-> f] : u \in ups, f \in feds}

\* The counts a ledger began at.
Bases(old, r) ==
    [down |-> IF old.down = -1 THEN r.down ELSE old.down,
     up |-> IF old.up # -1 THEN old.up
            ELSE IF r.fed.id # -1 THEN r.fed.bytes
            ELSE IF r.up.id # -1 THEN r.up.bytes ELSE -1]

Options(s) == UNION {{[truth |-> t, reading |-> r] : r \in Readings(t)} : t \in Steps(truth[s])}

\* A tick of the engine: members whose lanes failed leave before the boundary is
\* read, others after it, and the dropout follows.  The final boundary is the
\* one at the window's end.
Tick(at, stalled, read, left, next) ==
    LET b == [at |-> at, stalled |-> stalled, last |-> at = plan.end,
              readings |-> [s \in read |-> next[s].reading]]
        seen == Observe(agg, b)
    IN  /\ agg' = IF left = present THEN seen ELSE Dropout(seen, left, at)
        /\ present' = left /\ log' = Append(log, b)
        /\ truth' = [s \in Servers |-> IF s \in read THEN next[s].truth ELSE truth[s]]
        /\ base' = [s \in Servers |-> IF s \in read THEN Bases(base[s], next[s].reading) ELSE base[s]]

Next ==
    \E stalled \in {FALSE, Now + 1 < plan.end} :
    \E read \in SUBSET present : \E left \in SUBSET read :
    \E next \in [read -> UNION {Options(s) : s \in read}] :
        /\ Now < plan.end /\ present # {}
        /\ read = present \/ left = read
        /\ \A s \in read : next[s] \in Options(s)
        /\ Tick(Now + 1, stalled, read, left, next) /\ UNCHANGED plan

Spec == Init /\ [][Next]_vars

----------------------------------------------------------------------------
(* What the evidence is worth. *)

\* A ledger counts bytes once: never more than the server's lanes and receivers
\* counted since its first reading, although a boundary that breaks an interval
\* or follows a dropout is observed twice, and a feed may still name a receiver
\* that was replaced.
NeverOvercounts ==
    \A s \in Servers :
        LET ledger == agg.ledgers[s].bytes
            received == FoldFunction(+, 0, [k \in DOMAIN truth[s].receivers |->
                                                truth[s].receivers[k].bytes])
        IN  /\ ledger.down <= IF base[s].down = -1 THEN 0 ELSE truth[s].down - base[s].down
            /\ ledger.up <= IF base[s].up = -1 THEN 0 ELSE received - base[s].up

\* The intervals of a stage share no bytes: together they hold no more of a
\* server than its ledger, also after a dropout moved the boundary back.
WindowsWithinLedger ==
    \A s \in Servers, d \in Directions :
        FoldFunction(+, 0, [k \in DOMAIN agg.intervals |->
            LET w == agg.intervals[k].window
            IN  IF s \in DOMAIN w.parts THEN w.parts[s][d].bytes ELSE 0])
        <= agg.ledgers[s].bytes[d]

\* Intervals follow each other in time, and an interval's window and peaks lie
\* within it: a dropout that ends it earlier takes back what came after.
IntervalsConsecutive ==
    \A k \in DOMAIN agg.intervals :
        LET i == agg.intervals[k] IN
        /\ i.start <= i.end
        /\ k > 1 => agg.intervals[k - 1].end <= i.start
        /\ i.window # NoWindow => i.window.start = i.start /\ i.window.end = i.end
        /\ \A p \in i.peaks : i.start <= p[1] /\ p[2] <= i.end

\* An interval that counts is continuous evidence: within it no tick ran late and
\* no member's receiver was replaced, at any boundary ever observed.
CountedIsContinuous ==
    \A k \in DOMAIN agg.intervals : LET i == agg.intervals[k] IN Counts(i) =>
        \A j, l \in DOMAIN log :
            (i.start <= log[j].at /\ log[j].at < log[l].at /\ log[l].at <= i.end) =>
                /\ ~log[l].stalled
                /\ \A s \in i.members :
                     (s \in DOMAIN log[j].readings /\ s \in DOMAIN log[l].readings
                        /\ log[j].readings[s].up.id # -1 /\ log[l].readings[s].up.id # -1)
                     => log[j].readings[s].up.id = log[l].readings[s].up.id
=============================================================================
