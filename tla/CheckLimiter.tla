---------------------------- MODULE CheckLimiter ----------------------------
(***************************************************************************)
(* The limiter of the browser's connection checks (limiter.ts): at most    *)
(* so many at once, in all and for each origin, a server in the background *)
(* only on an idle origin and beside few others.  Priorities change while  *)
(* checks wait and run; 0 is a selected server.                            *)
(***************************************************************************)
EXTENDS Integers, SequencesExt

CONSTANTS
    Checks, Origin,                \* the checks, and the origin of each
    Total, PerOrigin, Background,  \* the limits
    MaxPriority

VARIABLES
    priority,                      \* of each check, as its caller reports it
    state,                         \* "New", "Waiting", "Running", "Released" or "Aborted"
    queue,
    counts                         \* total, background and by origin, and who counts as background

vars == <<priority, state, queue, counts>>

Origins == {Origin[c] : c \in Checks}

Init ==
    /\ priority \in [Checks -> 0..MaxPriority]
    /\ state = [c \in Checks |-> "New"] /\ queue = <<>>
    /\ counts = [total |-> 0, background |-> 0, running |-> [o \in Origins |-> 0], behind |-> {}]

Fits(check, held, at) ==
    IF at[check] = 0 THEN held.running[Origin[check]] < PerOrigin
    ELSE held.running[Origin[check]] = 0 /\ held.background < Background

\* Whether a check counts as background is fixed when it starts.
Started(check, held, at) ==
    [held EXCEPT !.total = @ + 1, !.running[Origin[check]] = @ + 1,
                 !.background = IF at[check] > 0 THEN @ + 1 ELSE @,
                 !.behind = IF at[check] > 0 THEN @ \cup {check} ELSE @]

IsBackground(check) == priority[check] > 0

WasBackground(check) == check \in counts.behind

Ended(check) ==
    [counts EXCEPT !.total = @ - 1, !.running[Origin[check]] = @ - 1,
                   !.background = IF WasBackground(check) THEN @ - 1 ELSE @, !.behind = @ \ {check}]

\* The waiting checks by priority, in order of arrival within one; then the first
\* that fits starts, again and again.
Sorted(waiting, at) ==
    FlattenSeq([p \in 1..(MaxPriority + 1) |-> SelectSeq(waiting, LAMBDA c : at[c] = p - 1)])

Starting(drained, at) ==
    LET fitting == {i \in DOMAIN drained.queue : Fits(drained.queue[i], drained.counts, at)}
        first == Min(fitting)
    IN IF drained.counts.total >= Total \/ fitting = {} THEN drained
       ELSE [queue |-> RemoveAt(drained.queue, first), counts |-> Started(drained.queue[first], drained.counts, at)]

Drain(waiting, held, at, before) ==
    LET drained == FoldLeft(LAMBDA d, c : Starting(d, at), [queue |-> Sorted(waiting, at), counts |-> held], waiting)
    IN /\ queue' = drained.queue /\ counts' = drained.counts
       /\ state' = [c \in Checks |-> IF Contains(waiting, c) /\ ~Contains(drained.queue, c) THEN "Running" ELSE before[c]]

Acquire(check) ==
    /\ state[check] = "New"
    /\ Drain(Append(queue, check), counts, priority, [state EXCEPT ![check] = "Waiting"])
    /\ UNCHANGED priority

\* An aborted check leaves the queue; one that runs is released by its owner.
Abort(check) ==
    /\ state[check] \in {"New", "Waiting"} /\ state' = [state EXCEPT ![check] = "Aborted"]
    /\ queue' = SelectSeq(queue, LAMBDA c : c # check) /\ UNCHANGED <<priority, counts>>

Release(check) ==
    /\ state[check] = "Running"
    /\ Drain(queue, Ended(check), priority, [state EXCEPT ![check] = "Released"])
    /\ UNCHANGED priority

\* The selection changed: the caller drains.
Reprioritize(check, to) ==
    /\ priority' = [priority EXCEPT ![check] = to] /\ Drain(queue, counts, priority', state)

Next ==
    \E check \in Checks :
        Acquire(check) \/ Abort(check) \/ Release(check) \/ \E to \in 0..MaxPriority : Reprioritize(check, to)

Spec == Init /\ [][Next]_vars

(***************************************************************************)
(* Properties.                                                             *)
(***************************************************************************)
Running == {c \in Checks : state[c] = "Running"}

\* However priorities change under running checks, the limiter's counts are those of
\* the checks that run and never pass a limit, and no check waits that may start.
LimitsHeld ==
    /\ counts.total = Cardinality(Running) /\ counts.total <= Total
    /\ counts.background = Cardinality(counts.behind) /\ counts.background <= Background
    /\ \A o \in Origins : /\ counts.running[o] = Cardinality({c \in Running : Origin[c] = o})
                          /\ counts.running[o] <= PerOrigin
    /\ counts.total < Total => \A i \in DOMAIN queue : ~Fits(queue[i], counts, priority)
==============================================================================
