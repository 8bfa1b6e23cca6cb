----------------------------- MODULE UploadStore -----------------------------
(***************************************************************************)
(* The server's store of upload aggregates (rust/server/src/engine/        *)
(* uploads.rs).  An upload ID is a signed text that holds no state until a *)
(* data lane or a progress reader uses it; the store then keeps one        *)
(* aggregate for it, swept once it has been without lanes for RETENTION    *)
(* and displaced earlier, with a tombstone, when an empty one must make    *)
(* room.  Every reach of the store runs under the `entries` lock and is    *)
(* one step, except that `displace` looks at its victim under one taking   *)
(* of the victim's `life` lock and expires it under another: the expiry is *)
(* a step of its own, and the lock is held until it.  What finish does     *)
(* after its reach, under the `life` lock alone, is a second step too, so  *)
(* it may fall between the look and the expiry.                            *)
(***************************************************************************)
EXTENDS Integers, Sequences, FiniteSets

CONSTANTS
    Ids,            \* upload ID texts; an ID not minted carries no valid tag
    Owners,         \* narrowest client keys an aggregate can belong to
    NoOwner,        \* a caller without an address or a lease
    Keys,           \* keys the capacity quota counts
    Charged,        \* Charged[o]: the keys an aggregate of o is charged to
    Share,          \* Share[k]: aggregates key k may hold
    Sinks,          \* data lanes that can be open at once
    Calls,          \* finish calls that can be in flight at once
    MaxLive,        \* MAX_LIVE
    Lifetime,       \* ID_LIFETIME, and with it RETENTION
    SweepInterval,  \* SWEEP_INTERVAL
    MaxTime         \* bound on the clock

ASSUME StoreAssumption ==
    /\ IsFiniteSet(Ids) /\ IsFiniteSet(Sinks)
    /\ NoOwner \notin Owners
    /\ Charged \in [Owners -> SUBSET Keys]
    /\ Share \in [Keys -> Nat]
    /\ MaxLive \in Nat \ {0}
    /\ Lifetime \in Nat
    /\ SweepInterval \in Nat
    /\ MaxTime \in Nat

VARIABLES
    now,    \* the store clock, Instant and Clock alike
    issued, \* issued[i]: the time signed into ID i, or Unminted
    store,  \* [heap, live, tombstones, used, held, nextSweep]
    sinks,  \* sinks[s]: the aggregate the open lane s joined, or NoHandle
    calls   \* calls[c]: the aggregate finish c holds between its two locks

vars == <<now, issued, store, sinks, calls>>

Unminted == -1
NoHandle == 0
Retention == Lifetime
Phases == {"Open", "Finished", "Expired"}

Aggregate == [id : Ids, owner : Owners, bytes : BOOLEAN, lanes : Int,
              touched : Nat, phase : Phases]

Handles == DOMAIN store.heap

(***************************************************************************)
(* The capacity quota: one unit per aggregate.                             *)
(***************************************************************************)
ReleaseForgotten(st, gone) == st

Release(st, gone) ==
    [st EXCEPT
        !.used = @ - Cardinality(gone),
        !.held = [k \in Keys |->
            @[k] - Cardinality({i \in gone : k \in Charged[st.heap[st.live[i]].owner]})]]

ClientFull(st, o) == \E k \in Charged[o] : st.held[k] + 1 > Share[k]

TotalFull(st) == st.used + 1 > MaxLive

Hold(st, o) ==
    [st EXCEPT !.used = @ + 1,
               !.held = [k \in Keys |-> @[k] + (IF k \in Charged[o] THEN 1 ELSE 0)]]

(***************************************************************************)
(* Removing entries.  An expired aggregate lives on for the feeds and      *)
(* calls that hold it.  A finish between sweep's look at an aggregate and  *)
(* its expiry changes nothing of what sweep does, so both are one step.    *)
(***************************************************************************)
Remove(st, gone) ==
    [Release(st, gone) EXCEPT !.live = [i \in DOMAIN @ \ gone |-> @[i]]]

Expire(st, gone) ==
    [Remove(st, gone) EXCEPT
        !.heap = [h \in DOMAIN @ |->
            IF \E i \in gone : st.live[i] = h
            THEN [@[h] EXCEPT !.phase = "Expired"] ELSE @[h]]]

KeptByTimeAlone(a) == now - a.touched <= Retention

Kept(a) == a.lanes > 0 \/ now - a.touched <= Retention

RetainedTombstones(ts) ==
    [i \in {j \in DOMAIN ts : ts[j] >= now} |-> ts[i]]

Sweep(st) ==
    LET gone == {i \in DOMAIN st.live : ~Kept(st.heap[st.live[i]])}
    IN [Expire(st, gone) EXCEPT !.tombstones = RetainedTombstones(@)]

Entered(st) ==
    IF now >= st.nextSweep
    THEN [Sweep(st) EXCEPT !.nextSweep = now + SweepInterval]
    ELSE st

Empty(a) == a.lanes = 0 /\ a.phase = "Open" /\ ~a.bytes

Victims(st) ==
    LET empty == {i \in DOMAIN st.live : Empty(st.heap[st.live[i]])}
    IN {i \in empty : \A j \in empty :
            st.heap[st.live[i]].touched <= st.heap[st.live[j]].touched}

TombstoneShort == now + Lifetime - 1

TombstoneUntil == now + Lifetime

\* What `displace` does by its look at the victim, which it is yet to expire.
Displace(st, i) ==
    [Remove(st, {i}) EXCEPT
        !.tombstones = [j \in DOMAIN @ \cup {i} |-> IF j = i THEN TombstoneUntil ELSE @[j]]]

\* The victim between the two: out of the map and not expired.  The entries stay
\* locked meanwhile.
Displaced(st) ==
    {h \in DOMAIN st.heap : /\ st.heap[h].phase # "Expired"
                            /\ \A i \in DOMAIN st.live : st.live[i] # h}

EntriesFree == Displaced(store) = {}

Displaceable(st) ==
    IF Cardinality(DOMAIN st.tombstones) >= MaxLive THEN {} ELSE Victims(st)

(***************************************************************************)
(* What `capacity` may leave: the store, and what refused the share if it  *)
(* was not got.  At the total an empty aggregate makes room, once.         *)
(***************************************************************************)

Acquire(st, o) ==
    CASE ClientFull(st, o) -> [st |-> st, full |-> "Client"]
      [] ~ClientFull(st, o) /\ TotalFull(st) -> [st |-> st, full |-> "Total"]
      [] OTHER -> [st |-> Hold(st, o), full |-> "No"]

Capacity(st, o) ==
    IF Acquire(st, o).full = "Total" /\ Displaceable(st) # {}
    THEN {Acquire(Displace(st, i), o) : i \in Displaceable(st)}
    ELSE {Acquire(st, o)}

Valid(i) == issued[i] # Unminted /\ now >= issued[i] /\ now - issued[i] <= Lifetime

Created(st, i, o, lanes) ==
    [st EXCEPT
        !.heap = Append(@, [id |-> i, owner |-> o, bytes |-> FALSE, lanes |-> lanes,
                            touched |-> now, phase |-> "Open"]),
        !.live = [j \in DOMAIN @ \cup {i} |-> IF j = i THEN Len(st.heap) + 1 ELSE @[j]]]

Joined(st, h) == [st EXCEPT !.heap[h].lanes = @ + 1, !.heap[h].touched = now]

(***************************************************************************)
(* What a call of `reach` for ID i by caller o may leave: the store and    *)
(* the aggregate it answers, NoHandle for a refusal.                       *)
(***************************************************************************)
Outcome(st, h) == [st |-> st, h |-> h]

Refused(st) == Outcome(st, NoHandle)

ReachLive(st, i, o, how) ==
    LET h == st.live[i]
        a == st.heap[h]
    IN IF a.owner # o \/ (how = "Join" /\ a.phase # "Open") THEN Refused(st)
       ELSE Outcome(IF how = "Join" THEN Joined(st, h) ELSE st, h)

ReachNew(st, i, o, how) ==
    IF o = NoOwner \/ how = "Read" \/ i \in DOMAIN st.tombstones \/ ~Valid(i)
    THEN {Refused(st)}
    ELSE {IF room.full = "No"
          THEN Outcome(Created(room.st, i, o, IF how = "Join" THEN 1 ELSE 0),
                       Len(st.heap) + 1)
          ELSE Refused(room.st) : room \in Capacity(st, o)}

Reach(i, o, how) ==
    IF how # "Read" /\ o = NoOwner THEN {Refused(store)}
    ELSE LET st == Entered(store) IN
         IF i \in DOMAIN st.live THEN {ReachLive(st, i, o, how)}
                                 ELSE ReachNew(st, i, o, how)

(***************************************************************************)
(* Operations.                                                             *)
(***************************************************************************)
Init ==
    /\ now = 0
    /\ issued = [i \in Ids |-> Unminted]
    /\ store = [heap |-> <<>>, live |-> <<>>, tombstones |-> <<>>, used |-> 0,
                held |-> [k \in Keys |-> 0], nextSweep |-> SweepInterval]
    /\ sinks = [s \in Sinks |-> NoHandle]
    /\ calls = [c \in Calls |-> NoHandle]

Mint(i) ==
    /\ issued[i] = Unminted
    /\ issued' = [issued EXCEPT ![i] = now]
    /\ UNCHANGED <<now, store, sinks, calls>>

Begin(s, i, o) ==
    /\ EntriesFree
    /\ sinks[s] = NoHandle
    /\ \E r \in Reach(i, o, "Join") :
          /\ store' = r.st
          /\ sinks' = [sinks EXCEPT ![s] = r.h]
    /\ UNCHANGED <<now, issued, calls>>

Record(s) ==
    /\ sinks[s] # NoHandle
    /\ store' = [store EXCEPT !.heap[sinks[s]].bytes = TRUE]
    /\ UNCHANGED <<now, issued, sinks, calls>>

Leave(s) ==
    /\ sinks[s] # NoHandle
    /\ store' = [store EXCEPT !.heap[sinks[s]].lanes = @ - 1,
                              !.heap[sinks[s]].touched = now]
    /\ sinks' = [sinks EXCEPT ![s] = NoHandle]
    /\ UNCHANGED <<now, issued, calls>>

(***************************************************************************)
(* A reader's Watch may create the aggregate; attaching the feed to it is  *)
(* the aggregate's own affair.                                             *)
(***************************************************************************)
Subscribe(i, o) ==
    /\ EntriesFree
    /\ \E r \in Reach(i, o, "Watch") : store' = r.st
    /\ UNCHANGED <<now, issued, sinks, calls>>

Finish(c, i, o) ==
    /\ EntriesFree
    /\ calls[c] = NoHandle
    /\ \E r \in Reach(i, o, "Read") :
          /\ store' = r.st
          /\ calls' = [calls EXCEPT ![c] = r.h]
    /\ UNCHANGED <<now, issued, sinks>>

FinalizeExpired(c) ==
    /\ calls[c] # NoHandle
    /\ store' = [store EXCEPT !.heap[calls[c]].phase = "Finished"]
    /\ calls' = [calls EXCEPT ![c] = NoHandle]
    /\ UNCHANGED <<now, issued, sinks>>

Finalize(c) ==
    /\ calls[c] # NoHandle
    /\ store' = [store EXCEPT !.heap[calls[c]].phase = IF @ = "Open" THEN "Finished" ELSE @]
    /\ calls' = [calls EXCEPT ![c] = NoHandle]
    /\ UNCHANGED <<now, issued, sinks>>

ExpireDisplaced(h) ==
    /\ h \in Displaced(store)
    /\ store' = [store EXCEPT !.heap[h].phase = "Expired"]
    /\ UNCHANGED <<now, issued, sinks, calls>>

(***************************************************************************)
(* A checkpoint reads counters, `watchable` reads the maps and a feed      *)
(* sweeps before each step: to the store each is one locking of entries.   *)
(***************************************************************************)
Look ==
    /\ EntriesFree
    /\ store' = Entered(store)
    /\ UNCHANGED <<now, issued, sinks, calls>>

Tick ==
    /\ now < MaxTime
    /\ now' = now + 1
    /\ UNCHANGED <<issued, store, sinks, calls>>

Callers == Owners \cup {NoOwner}

Next ==
    \/ \E i \in Ids : Mint(i)
    \/ \E s \in Sinks, i \in Ids, o \in Callers : Begin(s, i, o)
    \/ \E s \in Sinks : Record(s) \/ Leave(s)
    \/ \E i \in Ids, o \in Callers : Subscribe(i, o)
    \/ \E c \in Calls, i \in Ids, o \in Callers : Finish(c, i, o)
    \/ \E c \in Calls : Finalize(c)
    \/ \E h \in Handles : ExpireDisplaced(h)
    \/ Look
    \/ Tick

Spec == Init /\ [][Next]_vars

(***************************************************************************)
(* Properties.                                                             *)
(***************************************************************************)
\* The shape of the state: handles point into the heap and IDs key the maps.
\* That counts are never negative is what the accounting below adds.
TypeOK ==
    /\ now \in Nat
    /\ issued \in [Ids -> Nat \cup {Unminted}]
    /\ store.heap \in Seq(Aggregate)
    /\ DOMAIN store.live \subseteq Ids
    /\ \A i \in DOMAIN store.live : store.live[i] \in Handles
    /\ DOMAIN store.tombstones \subseteq Ids
    /\ \A i \in DOMAIN store.tombstones : store.tombstones[i] \in Nat
    /\ store.used \in Int /\ store.held \in [Keys -> Int] /\ store.nextSweep \in Nat
    /\ sinks \in [Sinks -> Handles \cup {NoHandle}]
    /\ calls \in [Calls -> Handles \cup {NoHandle}]

\* An upload ID names one aggregate for good.  Once `sweep` or `displace` has
\* dropped it, no lane or reader creates a second one under the same ID, which
\* would restart a count the client believes continuous: RETENTION outlives the
\* ID and a tombstone refuses a displaced ID while it could still be used.
IdNamesOneAggregate ==
    \A g, h \in Handles : store.heap[g].id = store.heap[h].id => g = h

\* The Hold an entry carries is released exactly when the entry goes, by sweep
\* or displacement: the quota's counts are those of the live aggregates, and
\* neither MAX_LIVE nor a client's share is passed.
CapacityAccounted ==
    /\ store.used = Cardinality(DOMAIN store.live)
    /\ store.used <= MaxLive
    /\ \A k \in Keys :
          /\ store.held[k] = Cardinality({i \in DOMAIN store.live :
                                 k \in Charged[store.heap[store.live[i]].owner]})
          /\ store.held[k] <= Share[k]

\* An aggregate's lane count is the number of open UploadSinks on it, and one
\* with open sinks is still in the map, where finish and checkpoint find it.
LanesAreSinks ==
    \A h \in Handles :
        /\ store.heap[h].lanes = Cardinality({s \in Sinks : sinks[s] = h})
        /\ store.heap[h].lanes > 0 =>
              store.heap[h].id \in DOMAIN store.live /\ store.live[store.heap[h].id] = h

\* An aggregate only moves from open to finished to expired: a finish whose
\* aggregate was swept or displaced between its two locks does not bring it
\* back.  It expires without lanes only, and within RETENTION of its last join
\* or leave only when it has no bytes, although displace expires its victim after
\* it let go of the victim's life.  And `sweep` and `displace` take from the map
\* only an aggregate without lanes that rested for RETENTION, or that had neither
\* bytes nor a finish when displace looked at it.
LivesForward ==
    [][/\ \A h \in Handles : LET a == store.heap[h]
                                 next == store'.heap[h].phase
                             IN /\ a.phase = "Expired" => next = "Expired"
                                /\ a.phase = "Finished" => next # "Open"
                                /\ a.phase # "Expired" /\ next = "Expired" =>
                                      a.lanes = 0 /\ (~a.bytes \/ now - a.touched > Retention)
       /\ \A i \in DOMAIN store.live \ DOMAIN store'.live :
             LET a == store.heap[store.live[i]]
             IN a.lanes = 0 /\ ((a.phase = "Open" /\ ~a.bytes) \/ now - a.touched > Retention)]_vars
==============================================================================
