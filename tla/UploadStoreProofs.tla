-------------------------- MODULE UploadStoreProofs --------------------------
(***************************************************************************)
(* Theorems about UploadStore, for every number of IDs, clients, lanes and *)
(* calls, every capacity and every lifetime.                               *)
(***************************************************************************)
EXTENDS UploadStore, SequenceTheorems, FiniteSetTheorems, TLAPS

(***************************************************************************)
(* The store as the proofs type it.  Counts are integers here: that they   *)
(* are natural numbers is what the accounting invariants add.              *)
(***************************************************************************)
Partial(T) == UNION {[D -> T] : D \in SUBSET Ids}

StoreType == [heap : Seq(Aggregate), live : Partial(Nat), tombstones : Partial(Nat),
              used : Int, held : [Keys -> Int], nextSweep : Nat]

(***************************************************************************)
(* Why an ID never names a second aggregate: each aggregate was touched    *)
(* after its ID was issued, and one no longer in the map is either behind  *)
(* a tombstone that outlasts its ID or has an ID past its lifetime.        *)
(***************************************************************************)
PointsAtOwnId(st) ==
    \A i \in DOMAIN st.live : st.live[i] \in DOMAIN st.heap /\ st.heap[st.live[i]].id = i

TouchedSinceIssue(st) ==
    \A h \in DOMAIN st.heap :
        /\ issued[st.heap[h].id] \in Nat
        /\ issued[st.heap[h].id] <= st.heap[h].touched
        /\ st.heap[h].touched <= now

Spent(st, i) ==
    \/ i \in DOMAIN st.tombstones /\ st.tombstones[i] >= issued[i] + Lifetime
    \/ now > issued[i] + Lifetime

GoneIsSpent(st) ==
    \A h \in DOMAIN st.heap :
        st.heap[h].id \in DOMAIN st.live \/ Spent(st, st.heap[h].id)

OneHandlePerId(st) ==
    \A g, h \in DOMAIN st.heap : st.heap[g].id = st.heap[h].id => g = h

StoreInv(st) ==
    /\ st \in StoreType
    /\ PointsAtOwnId(st)
    /\ TouchedSinceIssue(st)
    /\ GoneIsSpent(st)
    /\ OneHandlePerId(st)

ClockType == now \in Nat /\ issued \in [Ids -> Nat \cup {Unminted}]

HolderType ==
    /\ sinks \in [Sinks -> DOMAIN store.heap \cup {NoHandle}]
    /\ calls \in [Calls -> DOMAIN store.heap \cup {NoHandle}]

IInv == ClockType /\ StoreInv(store) /\ HolderType

(***************************************************************************)
(* The operators the handlers are composed of.                             *)
(***************************************************************************)
\* A partial function on IDs is a function on some set of IDs.
LEMMA PartialFacts ==
  ASSUME NEW T, NEW f
  PROVE  f \in Partial(T) <=> DOMAIN f \subseteq Ids /\ f \in [DOMAIN f -> T]
BY DEF Partial

\* Counting IDs gives a natural number.
LEMMA CountIsNat ==
  ASSUME NEW S \in SUBSET Ids
  PROVE  IsFiniteSet(S) /\ Cardinality(S) \in Nat
BY StoreAssumption, FS_Subset, FS_CardinalityType

\* Releasing holds touches the quota alone.
LEMMA ReleaseFacts ==
  ASSUME NEW st \in StoreType, NEW gone \in SUBSET DOMAIN st.live
  PROVE  LET r == Release(st, gone) IN
         /\ r \in StoreType
         /\ r.heap = st.heap /\ r.live = st.live
         /\ r.tombstones = st.tombstones /\ r.nextSweep = st.nextSweep
<1> DEFINE charged(k) == {i \in gone : k \in Charged[st.heap[st.live[i]].owner]}
<1>1. gone \in SUBSET Ids
  BY DEF StoreType, Partial
<1>2. Cardinality(gone) \in Int /\ \A k \in Keys : Cardinality(charged(k)) \in Int
  BY <1>1, CountIsNat
<1> DEFINE held == [k \in Keys |-> st.held[k] - Cardinality(charged(k))]
           used == st.used - Cardinality(gone)
<1>3. Release(st, gone) = [st EXCEPT !.used = used, !.held = held]
  BY DEF Release, StoreType
<1> HIDE DEF charged
<1>4. used \in Int /\ held \in [Keys -> Int]
  BY <1>2 DEF StoreType
<1> HIDE DEF held, used
<1> QED  BY <1>3, <1>4, Zenon DEF StoreType

\* Removing entries leaves the aggregates and the other entries as they are.
LEMMA RemoveFacts ==
  ASSUME NEW st \in StoreType, NEW gone \in SUBSET DOMAIN st.live
  PROVE  LET e == Remove(st, gone) IN
         /\ e \in StoreType
         /\ DOMAIN e.live = DOMAIN st.live \ gone
         /\ \A i \in DOMAIN e.live : e.live[i] = st.live[i]
         /\ e.tombstones = st.tombstones /\ e.nextSweep = st.nextSweep
         /\ e.heap = st.heap
<1> DEFINE r == Release(st, gone)
           live == [i \in DOMAIN r.live \ gone |-> r.live[i]]
<1>1. /\ r \in StoreType /\ r.heap = st.heap /\ r.live = st.live
      /\ r.tombstones = st.tombstones /\ r.nextSweep = st.nextSweep
  BY ReleaseFacts
<1>2. Remove(st, gone) = [r EXCEPT !.live = live]
  BY <1>1 DEF Remove
<1>3. live \in Partial(Nat)
  <2>1. DOMAIN st.live \subseteq Ids /\ st.live \in [DOMAIN st.live -> Nat]
    BY PartialFacts DEF StoreType
  <2>2. DOMAIN live \subseteq Ids /\ live \in [DOMAIN live -> Nat]
    BY <1>1, <2>1
  <2> QED  BY <2>2, PartialFacts
<1> HIDE DEF live
<1>4. DOMAIN live = DOMAIN st.live \ gone /\ \A i \in DOMAIN live : live[i] = st.live[i]
  BY <1>1 DEF live
<1> QED  BY <1>1, <1>2, <1>3, <1>4, Zenon DEF StoreType

\* Expiring entries removes them from the map and changes only their phase.
LEMMA ExpireFacts ==
  ASSUME NEW st \in StoreType, NEW gone \in SUBSET DOMAIN st.live
  PROVE  LET e == Expire(st, gone) IN
         /\ e \in StoreType
         /\ DOMAIN e.live = DOMAIN st.live \ gone
         /\ \A i \in DOMAIN e.live : e.live[i] = st.live[i]
         /\ e.tombstones = st.tombstones /\ e.nextSweep = st.nextSweep
         /\ DOMAIN e.heap = DOMAIN st.heap /\ Len(e.heap) = Len(st.heap)
         /\ \A h \in DOMAIN st.heap : e.heap[h].id = st.heap[h].id
                                      /\ e.heap[h].touched = st.heap[h].touched
<1> DEFINE r == Remove(st, gone)
           heap == [h \in DOMAIN r.heap |->
                      IF \E i \in gone : st.live[i] = h
                      THEN [r.heap[h] EXCEPT !.phase = "Expired"] ELSE r.heap[h]]
<1>1. /\ r \in StoreType /\ r.heap = st.heap
      /\ DOMAIN r.live = DOMAIN st.live \ gone
      /\ \A i \in DOMAIN r.live : r.live[i] = st.live[i]
      /\ r.tombstones = st.tombstones /\ r.nextSweep = st.nextSweep
  BY RemoveFacts
<1>2. Expire(st, gone) = [r EXCEPT !.heap = heap]
  BY <1>1 DEF Expire
<1>4. /\ heap \in Seq(Aggregate) /\ DOMAIN heap = DOMAIN st.heap /\ Len(heap) = Len(st.heap)
      /\ \A h \in DOMAIN st.heap : heap[h].id = st.heap[h].id
                                   /\ heap[h].touched = st.heap[h].touched
  <2>1. st.heap \in Seq(Aggregate) /\ DOMAIN st.heap = 1..Len(st.heap) /\ Len(st.heap) \in Nat
    BY LenProperties DEF StoreType
  <2>2. \A h \in 1..Len(st.heap) : st.heap[h] \in Aggregate
    BY <2>1, ElementOfSeq
  <2>3. /\ \A h \in DOMAIN st.heap : heap[h] \in Aggregate
        /\ \A h \in DOMAIN st.heap : heap[h].id = st.heap[h].id
                                     /\ heap[h].touched = st.heap[h].touched
    BY <1>1, <2>1, <2>2, Zenon DEF Aggregate, Phases
  <2>4. heap \in [1..Len(st.heap) -> Aggregate]
    BY <1>1, <2>1, <2>3, Zenon
  <2> QED  BY <1>1, <2>1, <2>3, <2>4, SeqDef
<1> HIDE DEF heap, r
<1> QED  BY <1>1, <1>2, <1>4, Zenon DEF StoreType, r

\* An aggregate of the store has the type of one.
LEMMA ElementType ==
  ASSUME NEW st \in StoreType, NEW h \in DOMAIN st.heap
  PROVE  st.heap[h] \in Aggregate
BY LenProperties, ElementOfSeq DEF StoreType

\* A change that keeps the maps and every aggregate's ID, and moves touches only
\* forward up to the clock, keeps the invariant.
LEMMA SameAggregates ==
  ASSUME ClockType, NEW st, StoreInv(st), NEW nt \in StoreType,
         nt.live = st.live, nt.tombstones = st.tombstones,
         DOMAIN nt.heap = DOMAIN st.heap,
         \A h \in DOMAIN st.heap : /\ nt.heap[h].id = st.heap[h].id
                                    /\ \/ nt.heap[h].touched = st.heap[h].touched
                                       \/ nt.heap[h].touched = now
  PROVE  StoreInv(nt)
<1>1. PointsAtOwnId(nt)
  BY DEF StoreInv, PointsAtOwnId
<1>2. TouchedSinceIssue(nt)
  <2>1. \A h \in DOMAIN st.heap : st.heap[h].touched \in Nat
    BY ElementType DEF StoreInv, Aggregate
  <2> QED  BY <2>1 DEF StoreInv, TouchedSinceIssue, ClockType
<1>3. GoneIsSpent(nt)
  BY DEF StoreInv, GoneIsSpent, Spent
<1>4. OneHandlePerId(nt)
  BY DEF StoreInv, OneHandlePerId
<1> QED  BY <1>1, <1>2, <1>3, <1>4 DEF StoreInv

\* An update of one aggregate's record is an update of the store's type.
LEMMA UpdateFacts ==
  ASSUME NEW st \in StoreType, NEW h \in DOMAIN st.heap, NEW a \in Aggregate
  PROVE  LET nt == [st EXCEPT !.heap = [@ EXCEPT ![h] = a]] IN
         /\ nt \in StoreType
         /\ nt.live = st.live /\ nt.tombstones = st.tombstones
         /\ DOMAIN nt.heap = DOMAIN st.heap
         /\ \A g \in DOMAIN st.heap : nt.heap[g] = IF g = h THEN a ELSE st.heap[g]
<1> DEFINE heap == [st.heap EXCEPT ![h] = a]
<1>1. st.heap \in Seq(Aggregate) /\ DOMAIN st.heap = 1..Len(st.heap)
  BY LenProperties DEF StoreType
<1>2. /\ heap \in Seq(Aggregate) /\ DOMAIN heap = DOMAIN st.heap
      /\ \A g \in DOMAIN st.heap : heap[g] = IF g = h THEN a ELSE st.heap[g]
  BY <1>1, ExceptSeq
<1> HIDE DEF heap
<1>3. [st EXCEPT !.heap = [@ EXCEPT ![h] = a]] = [st EXCEPT !.heap = heap]
  BY DEF heap, StoreType
<1> QED  BY <1>2, <1>3, Zenon DEF StoreType

\* Removing entries whose IDs are spent keeps the invariant, whatever becomes of
\* their aggregates but for ID and touch.
LEMMA RemovalInv ==
  ASSUME ClockType, NEW st, StoreInv(st), NEW gone \in SUBSET DOMAIN st.live,
         NEW ts \in Partial(Nat),
         \A h \in DOMAIN st.heap :
             st.heap[h].id \notin DOMAIN st.live \ gone
               => Spent([st EXCEPT !.tombstones = ts], st.heap[h].id),
         NEW e, e = Expire(st, gone) \/ e = Remove(st, gone)
  PROVE  StoreInv([e EXCEPT !.tombstones = ts])
<1> DEFINE nt == [e EXCEPT !.tombstones = ts]
<1>1. st \in StoreType
  BY DEF StoreInv
<1>2. /\ e \in StoreType
      /\ DOMAIN e.live = DOMAIN st.live \ gone
      /\ \A i \in DOMAIN e.live : e.live[i] = st.live[i]
      /\ DOMAIN e.heap = DOMAIN st.heap
      /\ \A h \in DOMAIN st.heap : e.heap[h].id = st.heap[h].id
                                   /\ e.heap[h].touched = st.heap[h].touched
  <2>1. CASE e = Expire(st, gone)
    <3> DEFINE x == Expire(st, gone)
    <3>1. /\ x \in StoreType
          /\ DOMAIN x.live = DOMAIN st.live \ gone
          /\ \A i \in DOMAIN x.live : x.live[i] = st.live[i]
          /\ DOMAIN x.heap = DOMAIN st.heap
          /\ \A h \in DOMAIN st.heap : x.heap[h].id = st.heap[h].id
                                       /\ x.heap[h].touched = st.heap[h].touched
      BY <1>1, ExpireFacts
    <3> HIDE DEF x
    <3> QED  BY <2>1, <3>1, Zenon DEF x
  <2>2. CASE e = Remove(st, gone)
    <3>1. /\ e \in StoreType
          /\ DOMAIN e.live = DOMAIN st.live \ gone
          /\ \A i \in DOMAIN e.live : e.live[i] = st.live[i]
          /\ e.heap = st.heap
      BY <1>1, <2>2, RemoveFacts, ZenonT(60)
    <3> QED  BY <3>1, Zenon
  <2> QED  BY <2>1, <2>2
<1>3. /\ nt \in StoreType /\ nt.heap = e.heap /\ nt.live = e.live /\ nt.tombstones = ts
      /\ [st EXCEPT !.tombstones = ts].tombstones = ts
  BY <1>1, <1>2, Zenon DEF StoreType
<1> HIDE DEF nt
<1>4. PointsAtOwnId(nt)
  BY <1>2, <1>3 DEF StoreInv, PointsAtOwnId
<1>5. TouchedSinceIssue(nt)
  BY <1>2, <1>3 DEF StoreInv, TouchedSinceIssue
<1>6. GoneIsSpent(nt)
  BY <1>2, <1>3 DEF StoreInv, GoneIsSpent, Spent
<1>7. OneHandlePerId(nt)
  BY <1>2, <1>3 DEF StoreInv, OneHandlePerId
<1>8. StoreInv(nt)
  BY <1>3, <1>4, <1>5, <1>6, <1>7 DEF StoreInv
<1> QED  BY <1>8 DEF nt

\* What `sweep` removes has an ID past its lifetime, and so has a tombstone it
\* drops.
LEMMA SweepInv ==
  ASSUME ClockType, NEW st, StoreInv(st)
  PROVE  StoreInv(Sweep(st)) /\ DOMAIN Sweep(st).heap = DOMAIN st.heap
<1> DEFINE gone == {i \in DOMAIN st.live : ~Kept(st.heap[st.live[i]])}
           ts == RetainedTombstones(st.tombstones)
<1>1. st \in StoreType
  BY DEF StoreInv
<1>2. Sweep(st) = [Expire(st, gone) EXCEPT !.tombstones = ts]
  BY <1>1, ExpireFacts DEF Sweep, StoreType
<1>3. ts \in Partial(Nat)
  <2>1. DOMAIN st.tombstones \subseteq Ids /\ st.tombstones \in [DOMAIN st.tombstones -> Nat]
    BY <1>1, PartialFacts DEF StoreType
  <2>2. DOMAIN ts \subseteq Ids /\ ts \in [DOMAIN ts -> Nat]
    BY <2>1 DEF RetainedTombstones
  <2> QED  BY <2>2, PartialFacts
<1>4. ASSUME NEW h \in DOMAIN st.heap, st.heap[h].id \notin DOMAIN st.live \ gone
      PROVE  Spent([st EXCEPT !.tombstones = ts], st.heap[h].id)
  <2> DEFINE i == st.heap[h].id
  <2>1. issued[i] \in Nat /\ issued[i] <= st.heap[h].touched /\ st.heap[h].touched <= now
    BY DEF StoreInv, TouchedSinceIssue
  <2>2. [st EXCEPT !.tombstones = ts].tombstones = ts
    BY <1>1 DEF StoreType
  <2>3. CASE i \in gone
    <3>1. st.live[i] = h
      BY <2>3, SMTT(60) DEF StoreInv, PointsAtOwnId, OneHandlePerId
    <3>2. ~(now - st.heap[h].touched <= Lifetime)
      BY <2>3, <3>1 DEF Kept, Retention
    <3>3. st.heap[h].touched \in Nat
      BY <1>1, ElementType, SMTT(60) DEF Aggregate
    <3> QED  BY <2>1, <3>2, <3>3, StoreAssumption DEF Spent, ClockType
  <2>4. CASE i \notin DOMAIN st.live
    <3>1. Spent(st, i)
      BY <2>4 DEF StoreInv, GoneIsSpent
    <3>2. \A j \in DOMAIN st.tombstones : st.tombstones[j] \in Nat
      BY <1>1, PartialFacts DEF StoreType
    <3> QED  BY <2>1, <2>2, <3>1, <3>2, StoreAssumption DEF Spent, RetainedTombstones, ClockType
  <2> QED  BY <1>4, <2>3, <2>4
<1> HIDE DEF gone, ts
<1>5. gone \in SUBSET DOMAIN st.live
  BY DEF gone
<1>6. StoreInv(Sweep(st))
  BY <1>2, <1>3, <1>4, <1>5, RemovalInv
<1>7. DOMAIN Sweep(st).heap = DOMAIN st.heap
  BY <1>1, <1>2, <1>5, ExpireFacts DEF StoreType
<1> QED  BY <1>6, <1>7

\* Locking the entries, with the sweep that may be due, keeps the invariant.
LEMMA EnteredInv ==
  ASSUME ClockType, NEW st, StoreInv(st)
  PROVE  StoreInv(Entered(st)) /\ DOMAIN Entered(st).heap = DOMAIN st.heap
<1> DEFINE s == Sweep(st)
           t == now + SweepInterval
           nt == [s EXCEPT !.nextSweep = t]
<1>1. CASE now >= st.nextSweep
  <2>1. StoreInv(s) /\ DOMAIN s.heap = DOMAIN st.heap
    BY SweepInv
  <2>a. t \in Nat
    BY StoreAssumption DEF ClockType
  <2> HIDE DEF s, t
  <2>2. /\ nt \in StoreType /\ nt.live = s.live /\ nt.tombstones = s.tombstones
        /\ nt.heap = s.heap
    BY <2>1, <2>a, Zenon DEF StoreInv, StoreType
  <2>3. StoreInv(nt)
    BY <2>1, <2>2, SameAggregates, Zenon
  <2> QED  BY <1>1, <2>1, <2>2, <2>3 DEF Entered, s, t
<1> QED  BY <1>1 DEF Entered

\* A hold changes the quota alone.
LEMMA HoldInv ==
  ASSUME ClockType, NEW st, StoreInv(st), NEW o \in Owners
  PROVE  /\ StoreInv(Hold(st, o))
         /\ Hold(st, o).heap = st.heap /\ Hold(st, o).live = st.live
         /\ Hold(st, o).tombstones = st.tombstones
<1> DEFINE nt == Hold(st, o)
<1>1. st \in StoreType
  BY DEF StoreInv
<1>2. /\ nt \in StoreType /\ nt.heap = st.heap /\ nt.live = st.live
      /\ nt.tombstones = st.tombstones
  <2> DEFINE held == [k \in Keys |-> st.held[k] + (IF k \in Charged[o] THEN 1 ELSE 0)]
             used == st.used + 1
  <2>1. held \in [Keys -> Int] /\ used \in Int
    BY <1>1 DEF StoreType
  <2>2. nt = [st EXCEPT !.used = used, !.held = held]
    BY <1>1 DEF Hold, StoreType
  <2> HIDE DEF held, used, nt
  <2> QED  BY <1>1, <2>1, <2>2, Zenon DEF StoreType
<1> QED  BY <1>2, SameAggregates

\* A displaced aggregate leaves a tombstone that outlasts its ID.
LEMMA DisplaceInv ==
  ASSUME ClockType, NEW st, StoreInv(st), NEW i \in Displaceable(st)
  PROVE  /\ StoreInv(Displace(st, i))
         /\ Displace(st, i).heap = st.heap
         /\ DOMAIN Displace(st, i).live \subseteq DOMAIN st.live
         /\ DOMAIN Displace(st, i).tombstones \subseteq DOMAIN st.tombstones \cup {i}
         /\ i \in DOMAIN st.live
<1> DEFINE gone == {i}
           ts == [j \in DOMAIN st.tombstones \cup {i} |->
                     IF j = i THEN TombstoneUntil ELSE st.tombstones[j]]
<1>1. st \in StoreType /\ i \in DOMAIN st.live /\ i \in Ids
  BY PartialFacts DEF StoreInv, Displaceable, Victims, StoreType
<1>a. gone \in SUBSET DOMAIN st.live
  BY <1>1
<1>2. Displace(st, i) = [Remove(st, gone) EXCEPT !.tombstones = ts]
  <2> DEFINE e == Remove(st, gone)
  <2>1. e \in StoreType /\ e.tombstones = st.tombstones
    BY <1>1, <1>a, RemoveFacts
  <2>2. Displace(st, i) = [e EXCEPT !.tombstones =
             [j \in DOMAIN @ \cup {i} |-> IF j = i THEN TombstoneUntil ELSE @[j]]]
    BY DEF Displace
  <2> HIDE DEF e
  <2>3. Displace(st, i) = [e EXCEPT !.tombstones = ts]
    BY <2>1, <2>2 DEF StoreType
  <2> QED  BY <2>3 DEF e
<1>3. ts \in Partial(Nat)
  <2>1. DOMAIN st.tombstones \subseteq Ids /\ st.tombstones \in [DOMAIN st.tombstones -> Nat]
    BY <1>1, PartialFacts DEF StoreType
  <2>2. DOMAIN ts \subseteq Ids /\ ts \in [DOMAIN ts -> Nat]
    BY <1>1, <2>1, StoreAssumption DEF TombstoneUntil, ClockType
  <2> QED  BY <2>2, PartialFacts
<1>4. ASSUME NEW h \in DOMAIN st.heap, st.heap[h].id \notin DOMAIN st.live \ gone
      PROVE  Spent([st EXCEPT !.tombstones = ts], st.heap[h].id)
  <2>1. /\ issued[st.heap[h].id] \in Nat
        /\ issued[st.heap[h].id] <= st.heap[h].touched /\ st.heap[h].touched <= now
        /\ st.heap[h].touched \in Nat
    BY <1>1, ElementType DEF StoreInv, TouchedSinceIssue, Aggregate
  <2>2. [st EXCEPT !.tombstones = ts].tombstones = ts
    BY <1>1 DEF StoreType
  <2>3. CASE st.heap[h].id = i
    BY <2>1, <2>2, <2>3, StoreAssumption DEF Spent, TombstoneUntil, ClockType
  <2>4. CASE st.heap[h].id # i
    <3>1. Spent(st, st.heap[h].id)
      BY <1>4, <2>4 DEF StoreInv, GoneIsSpent
    <3> QED  BY <2>2, <2>4, <3>1 DEF Spent
  <2> QED  BY <2>3, <2>4
<1> HIDE DEF ts, gone
<1>5. StoreInv(Displace(st, i))
  BY <1>a, <1>2, <1>3, <1>4, RemovalInv
<1>6. LET e == Remove(st, gone) IN
      /\ e \in StoreType /\ e.heap = st.heap
      /\ DOMAIN e.live \subseteq DOMAIN st.live
  BY <1>1, <1>a, RemoveFacts
<1>7. DOMAIN ts \subseteq DOMAIN st.tombstones \cup {i}
  BY DEF ts
<1> QED  BY <1>1, <1>2, <1>5, <1>6, <1>7 DEF StoreType

\* Whatever `capacity` does, the invariant holds of the store it leaves, which
\* has the same aggregates and no new live ID.
LEMMA CapacityInv ==
  ASSUME ClockType, NEW st, StoreInv(st), NEW o \in Owners, NEW room \in Capacity(st, o)
  PROVE  /\ StoreInv(room.st)
         /\ room.st.heap = st.heap
         /\ DOMAIN room.st.live \subseteq DOMAIN st.live
         /\ DOMAIN room.st.tombstones \subseteq DOMAIN st.tombstones \cup DOMAIN st.live
<1>1. ASSUME NEW s, StoreInv(s), NEW a, a = Acquire(s, o)
      PROVE  /\ StoreInv(a.st) /\ a.st.heap = s.heap /\ a.st.live = s.live
             /\ a.st.tombstones = s.tombstones
  <2>1. a.st = s \/ a.st = Hold(s, o)
    BY <1>1 DEF Acquire
  <2> QED  BY <1>1, <2>1, HoldInv
<1>2. CASE room = Acquire(st, o)
  BY <1>1, <1>2
<1>3. CASE \E i \in Displaceable(st) : room = Acquire(Displace(st, i), o)
  BY <1>1, <1>3, DisplaceInv, SMTT(60)
<1> QED  BY <1>2, <1>3 DEF Capacity

\* A new aggregate is created only under an ID that names none: had it named
\* one, the ID would be live, behind a tombstone or past its lifetime.
LEMMA CreatedInv ==
  ASSUME ClockType, NEW st, StoreInv(st), NEW i \in Ids, NEW o \in Owners, NEW n \in Int,
         Valid(i), i \notin DOMAIN st.live, i \notin DOMAIN st.tombstones
  PROVE  LET nt == Created(st, i, o, n) IN
         /\ StoreInv(nt)
         /\ DOMAIN nt.heap = DOMAIN st.heap \cup {Len(st.heap) + 1}
<1> DEFINE a == [id |-> i, owner |-> o, bytes |-> FALSE, lanes |-> n,
                 touched |-> now, phase |-> "Open"]
           new == Len(st.heap) + 1
           heap == Append(st.heap, a)
           live == [j \in DOMAIN st.live \cup {i} |-> IF j = i THEN new ELSE st.live[j]]
           nt == [st EXCEPT !.heap = heap, !.live = live]
<1>1. st \in StoreType
  BY DEF StoreInv
<1>2. Created(st, i, o, n) = nt
  BY <1>1 DEF Created, StoreType
<1>3. a \in Aggregate /\ a.id = i /\ a.touched = now
  BY DEF Aggregate, Phases, ClockType
<1> HIDE DEF a
<1>4. /\ st.heap \in Seq(Aggregate) /\ Len(st.heap) \in Nat /\ DOMAIN st.heap = 1..Len(st.heap)
  BY <1>1, LenProperties DEF StoreType
<1>5. /\ heap \in Seq(Aggregate) /\ DOMAIN heap = DOMAIN st.heap \cup {new} /\ new \notin DOMAIN st.heap
      /\ \A h \in DOMAIN st.heap : heap[h] = st.heap[h]
      /\ heap[new] = a
  <2>1. /\ heap \in Seq(Aggregate) /\ Len(heap) = new
        /\ \A h \in 1..Len(st.heap) : heap[h] = st.heap[h]
        /\ heap[new] = a
    BY <1>3, <1>4, AppendProperties
  <2>2. DOMAIN heap = 1..new
    BY <2>1, LenProperties
  <2>3. 1..new = (1..Len(st.heap)) \cup {new}
    BY <1>4
  <2> QED  BY <1>4, <2>1, <2>2, <2>3
<1>6. live \in Partial(Nat)
  <2>1. DOMAIN st.live \subseteq Ids /\ st.live \in [DOMAIN st.live -> Nat]
    BY <1>1, PartialFacts DEF StoreType
  <2>2. new \in Nat
    BY <1>4
  <2> HIDE DEF new
  <2>3. DOMAIN live \subseteq Ids /\ live \in [DOMAIN live -> Nat]
    BY <2>1, <2>2
  <2> HIDE DEF live
  <2> QED  BY <2>3, PartialFacts
<1>7. /\ DOMAIN live = DOMAIN st.live \cup {i}
      /\ live[i] = new /\ \A j \in DOMAIN st.live : live[j] = st.live[j]
  OBVIOUS
<1> HIDE DEF heap, live, new
<1>8. nt \in StoreType /\ nt.heap = heap /\ nt.live = live /\ nt.tombstones = st.tombstones
  BY <1>1, <1>5, <1>6, Zenon DEF StoreType
<1>9. \A h \in DOMAIN st.heap : st.heap[h].id # i
  BY StoreAssumption DEF StoreInv, GoneIsSpent, Spent, Valid, ClockType, Unminted
<1>10. PointsAtOwnId(nt)
  BY <1>3, <1>5, <1>7, <1>8 DEF PointsAtOwnId, StoreInv
<1>11. TouchedSinceIssue(nt)
  BY <1>3, <1>5, <1>8 DEF TouchedSinceIssue, StoreInv, Valid, ClockType, Unminted
<1>12. GoneIsSpent(nt)
  BY <1>3, <1>5, <1>7, <1>8 DEF GoneIsSpent, Spent, StoreInv
<1>13. OneHandlePerId(nt)
  BY <1>3, <1>5, <1>8, <1>9 DEF OneHandlePerId, StoreInv
<1>14. StoreInv(nt)
  BY <1>8, <1>10, <1>11, <1>12, <1>13 DEF StoreInv
<1> QED  BY <1>2, <1>5, <1>8, <1>14 DEF new

\* The changes the handlers make to an aggregate's record.
LEMMA StoredUpdates ==
  ASSUME ClockType, NEW x \in Aggregate
  PROVE  /\ LET b == [x EXCEPT !.lanes = @ + 1, !.touched = now] IN
            b \in Aggregate /\ b.id = x.id /\ b.touched = now
         /\ LET b == [x EXCEPT !.lanes = @ - 1, !.touched = now] IN
            b \in Aggregate /\ b.id = x.id /\ b.touched = now
         /\ LET b == [x EXCEPT !.bytes = TRUE] IN
            b \in Aggregate /\ b.id = x.id /\ b.touched = x.touched
         /\ LET b == [x EXCEPT !.phase = IF @ = "Open" THEN "Finished" ELSE @] IN
            b \in Aggregate /\ b.id = x.id /\ b.touched = x.touched
         /\ LET b == [x EXCEPT !.phase = "Expired"] IN
            b \in Aggregate /\ b.id = x.id /\ b.touched = x.touched
<1>1. LET b == [x EXCEPT !.lanes = @ + 1, !.touched = now] IN
      b \in Aggregate /\ b.id = x.id /\ b.touched = now
  <2> DEFINE up == x.lanes + 1
  <2>1. up \in Int /\ now \in Nat
    BY DEF Aggregate, ClockType
  <2> HIDE DEF up
  <2>2. LET b == [x EXCEPT !.lanes = up, !.touched = now] IN
        b \in Aggregate /\ b.id = x.id /\ b.touched = now
    BY <2>1, Zenon DEF Aggregate
  <2> QED  BY <2>2 DEF up, Aggregate
<1>2. LET b == [x EXCEPT !.lanes = @ - 1, !.touched = now] IN
      b \in Aggregate /\ b.id = x.id /\ b.touched = now
  <2> DEFINE down == x.lanes - 1
  <2>1. down \in Int /\ now \in Nat
    BY DEF Aggregate, ClockType
  <2> HIDE DEF down
  <2>2. LET b == [x EXCEPT !.lanes = down, !.touched = now] IN
        b \in Aggregate /\ b.id = x.id /\ b.touched = now
    BY <2>1, Zenon DEF Aggregate
  <2> QED  BY <2>2 DEF down, Aggregate
<1>3. LET b == [x EXCEPT !.bytes = TRUE] IN
      b \in Aggregate /\ b.id = x.id /\ b.touched = x.touched
  BY Zenon DEF Aggregate
<1>4. LET b == [x EXCEPT !.phase = IF @ = "Open" THEN "Finished" ELSE @] IN
      b \in Aggregate /\ b.id = x.id /\ b.touched = x.touched
  BY DEF Aggregate, Phases
<1>5. LET b == [x EXCEPT !.phase = "Expired"] IN
      b \in Aggregate /\ b.id = x.id /\ b.touched = x.touched
  BY Zenon DEF Aggregate, Phases
<1> QED  BY <1>1, <1>2, <1>3, <1>4, <1>5

\* Changing fields of one aggregate other than its ID, its touch to now or not
\* at all, keeps the invariant.
LEMMA UpdateInv ==
  ASSUME ClockType, NEW st, StoreInv(st), NEW h \in DOMAIN st.heap, NEW a \in Aggregate,
         a.id = st.heap[h].id, a.touched = st.heap[h].touched \/ a.touched = now
  PROVE  LET nt == [st EXCEPT !.heap = [@ EXCEPT ![h] = a]] IN
         StoreInv(nt) /\ DOMAIN nt.heap = DOMAIN st.heap
<1> DEFINE nt == [st EXCEPT !.heap = [@ EXCEPT ![h] = a]]
<1>1. /\ nt \in StoreType
      /\ nt.live = st.live /\ nt.tombstones = st.tombstones
      /\ DOMAIN nt.heap = DOMAIN st.heap
      /\ \A g \in DOMAIN st.heap : nt.heap[g] = IF g = h THEN a ELSE st.heap[g]
  BY UpdateFacts DEF StoreInv
<1> HIDE DEF nt
<1>2. StoreInv(nt)
  BY <1>1, SameAggregates
<1> QED  BY <1>1, <1>2 DEF nt

\* Whatever `reach` answers, the store it leaves keeps the invariant and the
\* aggregates it had, and the answer is one of its aggregates or a refusal.
LEMMA ReachInv ==
  ASSUME ClockType, StoreInv(store), NEW i \in Ids, NEW o \in Callers, NEW how,
         NEW r \in Reach(i, o, how)
  PROVE  /\ StoreInv(r.st)
         /\ DOMAIN store.heap \subseteq DOMAIN r.st.heap
         /\ r.h \in DOMAIN r.st.heap \cup {NoHandle}
<1> DEFINE st == Entered(store)
<1>1. StoreInv(st) /\ DOMAIN st.heap = DOMAIN store.heap
  BY EnteredInv
<1> HIDE DEF st
<1>2. CASE r = Refused(store) \/ r = Refused(st)
  BY <1>1, <1>2 DEF Refused, Outcome
<1>3. CASE i \in DOMAIN st.live /\ r = ReachLive(st, i, o, how)
  <2> DEFINE h == st.live[i]
  <2>1. h \in DOMAIN st.heap /\ st \in StoreType
    BY <1>1, <1>3 DEF StoreInv, PointsAtOwnId
  <2>2. CASE r = Outcome(Joined(st, h), h)
    <3> DEFINE b == [st.heap[h] EXCEPT !.lanes = @ + 1, !.touched = now]
    <3>1. st.heap[h] \in Aggregate
      BY <2>1, ElementType, SMTT(60)
    <3>2. b \in Aggregate /\ b.id = st.heap[h].id /\ b.touched = now
      BY <3>1, StoredUpdates, Zenon
    <3> HIDE DEF h
    <3>3. Joined(st, h) = [st EXCEPT !.heap = [@ EXCEPT ![h] = b]]
      BY <2>1, <3>1, Zenon DEF Joined, StoreType, Aggregate
    <3> HIDE DEF b
    <3>4. StoreInv(Joined(st, h)) /\ DOMAIN Joined(st, h).heap = DOMAIN st.heap
      BY <1>1, <2>1, <3>2, <3>3, UpdateInv
    <3> QED  BY <1>1, <2>1, <2>2, <3>4 DEF Outcome
  <2>3. CASE r = Outcome(st, h)
    BY <1>1, <2>1, <2>3 DEF Outcome
  <2>4. r = Refused(st) \/ r = Outcome(st, h) \/ r = Outcome(Joined(st, h), h)
    BY <1>3 DEF ReachLive
  <2> QED  BY <1>2, <2>2, <2>3, <2>4
<1>4. CASE i \notin DOMAIN st.live /\ r \in ReachNew(st, i, o, how) /\ r # Refused(st)
  <2>1. o \in Owners /\ i \notin DOMAIN st.tombstones /\ Valid(i)
    BY <1>4 DEF ReachNew, Callers
  <2>2. PICK room \in Capacity(st, o) :
            r = IF room.full = "No"
                THEN Outcome(Created(room.st, i, o, IF how = "Join" THEN 1 ELSE 0),
                             Len(st.heap) + 1)
                ELSE Refused(room.st)
    BY <1>4, <2>1 DEF ReachNew
  <2>3. /\ StoreInv(room.st)
        /\ DOMAIN room.st.heap = DOMAIN st.heap /\ Len(room.st.heap) = Len(st.heap)
        /\ i \notin DOMAIN room.st.live /\ i \notin DOMAIN room.st.tombstones
    BY <1>1, <1>4, <2>1, CapacityInv
  <2> DEFINE n == IF how = "Join" THEN 1 ELSE 0
             nt == Created(room.st, i, o, n)
  <2>4. n \in Int
    OBVIOUS
  <2> HIDE DEF n
  <2>5. /\ StoreInv(nt) /\ DOMAIN nt.heap = DOMAIN room.st.heap \cup {Len(room.st.heap) + 1}
    BY <2>1, <2>3, <2>4, CreatedInv, SMTT(60)
  <2>6. r = Outcome(nt, Len(st.heap) + 1) \/ r = Refused(room.st)
    BY <2>2 DEF n
  <2> HIDE DEF nt
  <2> QED  BY <1>1, <2>3, <2>5, <2>6 DEF Outcome, Refused
<1> QED  BY <1>2, <1>3, <1>4 DEF Reach, st

\* The initial store satisfies the invariant.
LEMMA InitInv == Init => IInv
<1> SUFFICES ASSUME Init PROVE IInv
  OBVIOUS
<1>1. ClockType
  BY DEF Init, ClockType
<1>2. store \in StoreType
  <2>1. <<>> \in Seq(Aggregate)
    BY EmptySeq
  <2>2. <<>> \in Partial(Nat)
    <3>1. <<>> \in Seq(Nat) /\ Len(<<>>) = 0
      BY EmptySeq
    <3>2. <<>> \in [1..0 -> Nat] /\ DOMAIN <<>> = 1..0
      BY <3>1, LenProperties
    <3>3. 1..0 = {}
      OBVIOUS
    <3> QED  BY <3>2, <3>3, PartialFacts, Zenon
  <2> QED  BY <2>1, <2>2, StoreAssumption DEF Init, StoreType
<1>3. DOMAIN store.heap = {} /\ DOMAIN store.live = {}
  BY DEF Init
<1>4. StoreInv(store)
  BY <1>2, <1>3 DEF StoreInv, PointsAtOwnId, TouchedSinceIssue, GoneIsSpent, OneHandlePerId
<1>5. HolderType
  BY DEF Init, HolderType
<1> QED  BY <1>1, <1>4, <1>5 DEF IInv

\* Holders keep pointing into a heap that only grows.
LEMMA HoldersKept ==
  ASSUME HolderType, DOMAIN store.heap \subseteq DOMAIN store'.heap,
         sinks' = sinks \/ \E s \in Sinks, h \in DOMAIN store'.heap \cup {NoHandle} :
                              sinks' = [sinks EXCEPT ![s] = h],
         calls' = calls \/ \E c \in Calls, h \in DOMAIN store'.heap \cup {NoHandle} :
                              calls' = [calls EXCEPT ![c] = h]
  PROVE  HolderType'
BY DEF HolderType

\* The invariant of a store depends on the clock and the issue times only.
LEMMA SameClock ==
  ASSUME now' = now, issued' = issued, StoreInv(store')
  PROVE  StoreInv(store)'
BY DEF StoreInv, StoreType, PointsAtOwnId, TouchedSinceIssue, GoneIsSpent, OneHandlePerId,
       Spent, Partial, Aggregate

\* Every step keeps the invariant.
LEMMA NextInv == IInv /\ [Next]_vars => IInv'
<1> SUFFICES ASSUME IInv, [Next]_vars PROVE IInv'
  OBVIOUS
<1> USE DEF IInv
<1>a. store \in StoreType
  BY DEF StoreInv
<1>b. ASSUME NEW h \in DOMAIN store.heap, NEW b \in Aggregate,
             b.id = store.heap[h].id, b.touched = store.heap[h].touched \/ b.touched = now,
             store' = [store EXCEPT !.heap = [@ EXCEPT ![h] = b]],
             now' = now, issued' = issued
      PROVE  ClockType' /\ StoreInv(store)' /\ DOMAIN store'.heap = DOMAIN store.heap
  <2>1. StoreInv(store') /\ DOMAIN store'.heap = DOMAIN store.heap
    BY <1>b, UpdateInv
  <2> QED  BY <1>b, <2>1, SameClock DEF ClockType
<1>1. ASSUME NEW i \in Ids, Mint(i) PROVE IInv'
  <2>1. ClockType'
    BY <1>1 DEF Mint, ClockType, Unminted
  <2>2. \A h \in DOMAIN store.heap : issued'[store.heap[h].id] = issued[store.heap[h].id]
    BY <1>1, SMTT(60) DEF Mint, ClockType, StoreInv, TouchedSinceIssue, Unminted
  <2>3. StoreInv(store)'
    <3>1. store' \in StoreType /\ PointsAtOwnId(store') /\ OneHandlePerId(store')
      BY <1>1 DEF Mint, StoreInv, PointsAtOwnId, OneHandlePerId
    <3>2. TouchedSinceIssue(store)'
      BY <1>1, <2>2, SMTT(60) DEF Mint, StoreInv, TouchedSinceIssue
    <3>3. GoneIsSpent(store)'
      BY <1>1, <2>2 DEF Mint, StoreInv, GoneIsSpent, Spent
    <3> QED  BY <3>1, <3>2, <3>3 DEF StoreInv, PointsAtOwnId, OneHandlePerId,
                                   StoreType, Aggregate, Partial
  <2>4. HolderType'
    BY <1>1 DEF Mint, HolderType
  <2> QED  BY <2>1, <2>3, <2>4
<1>2. ASSUME NEW s \in Sinks, NEW i \in Ids, NEW o \in Callers, Begin(s, i, o) PROVE IInv'
  <2>1. PICK r \in Reach(i, o, "Join") : store' = r.st /\ sinks' = [sinks EXCEPT ![s] = r.h]
    BY <1>2, Zenon DEF Begin
  <2>2. /\ StoreInv(store') /\ DOMAIN store.heap \subseteq DOMAIN store'.heap
        /\ r.h \in DOMAIN store'.heap \cup {NoHandle}
    BY <2>1, ReachInv
  <2>3. now' = now /\ issued' = issued /\ calls' = calls
    BY <1>2 DEF Begin
  <2> QED  BY <2>1, <2>2, <2>3, SameClock, HoldersKept, Zenon DEF ClockType
<1>3. ASSUME NEW s \in Sinks, Record(s) PROVE IInv'
  <2> DEFINE h == sinks[s]
             b == [store.heap[h] EXCEPT !.bytes = TRUE]
  <2>1. h \in DOMAIN store.heap
    BY <1>3, SMTT(60) DEF Record, HolderType
  <2>2. b \in Aggregate /\ b.id = store.heap[h].id /\ b.touched = store.heap[h].touched
    BY <1>a, <2>1, ElementType, StoredUpdates, Zenon
  <2>3. store' = [store EXCEPT !.heap = [@ EXCEPT ![h] = b]]
    BY <1>3, <1>a, <2>1 DEF Record, StoreType
  <2> HIDE DEF h, b
  <2>4. now' = now /\ issued' = issued /\ calls' = calls /\ sinks' = sinks
    BY <1>3 DEF Record
  <2>5. ClockType' /\ StoreInv(store)' /\ DOMAIN store'.heap = DOMAIN store.heap
    BY <1>b, <2>1, <2>2, <2>3, <2>4, SMTT(60)
  <2> QED  BY <2>4, <2>5, HoldersKept
<1>4. ASSUME NEW s \in Sinks, Leave(s) PROVE IInv'
  <2> DEFINE h == sinks[s]
             b == [store.heap[h] EXCEPT !.lanes = @ - 1, !.touched = now]
  <2>1. h \in DOMAIN store.heap
    BY <1>4 DEF Leave, HolderType
  <2>2. store.heap[h] \in Aggregate /\ b \in Aggregate /\ b.id = store.heap[h].id /\ b.touched = now
    BY <1>a, <2>1, ElementType, StoredUpdates, Zenon
  <2>3. store' = [store EXCEPT !.heap = [@ EXCEPT ![h] = b]]
    BY <1>4, <1>a, <2>1, <2>2, Zenon DEF Leave, StoreType, Aggregate
  <2> HIDE DEF h, b
  <2>4. now' = now /\ issued' = issued /\ calls' = calls /\ sinks' = [sinks EXCEPT ![s] = NoHandle]
    BY <1>4 DEF Leave
  <2>5. ClockType' /\ StoreInv(store)' /\ DOMAIN store'.heap = DOMAIN store.heap
    BY <1>b, <2>1, <2>2, <2>3, <2>4
  <2> QED  BY <2>4, <2>5, HoldersKept, Zenon
<1>5. ASSUME NEW i \in Ids, NEW o \in Callers, Subscribe(i, o) PROVE IInv'
  <2>1. PICK r \in Reach(i, o, "Watch") : store' = r.st
    BY <1>5 DEF Subscribe
  <2>2. StoreInv(store') /\ DOMAIN store.heap \subseteq DOMAIN store'.heap
    BY <2>1, ReachInv
  <2>3. now' = now /\ issued' = issued /\ calls' = calls /\ sinks' = sinks
    BY <1>5 DEF Subscribe
  <2> QED  BY <2>2, <2>3, SameClock, HoldersKept DEF ClockType
<1>6. ASSUME NEW c \in Calls, NEW i \in Ids, NEW o \in Callers, Finish(c, i, o) PROVE IInv'
  <2>1. PICK r \in Reach(i, o, "Read") : store' = r.st /\ calls' = [calls EXCEPT ![c] = r.h]
    BY <1>6, Zenon DEF Finish
  <2>2. /\ StoreInv(store') /\ DOMAIN store.heap \subseteq DOMAIN store'.heap
        /\ r.h \in DOMAIN store'.heap \cup {NoHandle}
    BY <2>1, ReachInv
  <2>3. now' = now /\ issued' = issued /\ sinks' = sinks
    BY <1>6 DEF Finish
  <2> QED  BY <2>1, <2>2, <2>3, SameClock, HoldersKept, Zenon DEF ClockType
<1>7. ASSUME NEW c \in Calls, Finalize(c) PROVE IInv'
  <2> DEFINE h == calls[c]
             b == [store.heap[h] EXCEPT !.phase = IF @ = "Open" THEN "Finished" ELSE @]
  <2>1. h \in DOMAIN store.heap
    BY <1>7 DEF Finalize, HolderType
  <2>2. b \in Aggregate /\ b.id = store.heap[h].id /\ b.touched = store.heap[h].touched
    BY <1>a, <2>1, ElementType, StoredUpdates, Zenon
  <2>3. store' = [store EXCEPT !.heap = [@ EXCEPT ![h] = b]]
    BY <1>7, <1>a, <2>1, ElementType DEF Finalize, StoreType, Aggregate
  <2> HIDE DEF h, b
  <2>4. now' = now /\ issued' = issued /\ sinks' = sinks /\ calls' = [calls EXCEPT ![c] = NoHandle]
    BY <1>7 DEF Finalize
  <2>5. ClockType' /\ StoreInv(store)' /\ DOMAIN store'.heap = DOMAIN store.heap
    BY <1>b, <2>1, <2>2, <2>3, <2>4
  <2> QED  BY <2>4, <2>5, HoldersKept, Zenon
<1>8. ASSUME Look PROVE IInv'
  <2>1. StoreInv(store') /\ DOMAIN store'.heap = DOMAIN store.heap
    BY <1>8, EnteredInv DEF Look
  <2>2. now' = now /\ issued' = issued /\ calls' = calls /\ sinks' = sinks
    BY <1>8, SMTT(60) DEF Look
  <2> QED  BY <2>1, <2>2, SameClock, HoldersKept DEF ClockType
<1>9. ASSUME Tick PROVE IInv'
  <2>1. ClockType' /\ HolderType'
    BY <1>9 DEF Tick, ClockType, HolderType
  <2>2. \A h \in DOMAIN store.heap : issued[store.heap[h].id] \in Nat /\ store.heap[h].touched \in Nat
    BY <1>a, ElementType DEF StoreInv, TouchedSinceIssue, Aggregate
  <2>3. TouchedSinceIssue(store)'
    BY <1>9, <2>2, SMTT(60) DEF Tick, StoreInv, TouchedSinceIssue, ClockType
  <2>4. GoneIsSpent(store)'
    BY <1>9, <2>2, StoreAssumption, SMTT(60) DEF Tick, StoreInv, GoneIsSpent, Spent, ClockType
  <2>5. store' \in StoreType /\ PointsAtOwnId(store') /\ OneHandlePerId(store')
    BY <1>9 DEF Tick, StoreInv, PointsAtOwnId, OneHandlePerId
  <2> QED  BY <2>1, <2>3, <2>4, <2>5 DEF StoreInv, PointsAtOwnId, OneHandlePerId,
                                         StoreType, Aggregate, Partial
<1>10. ASSUME NEW h \in Handles, ExpireDisplaced(h) PROVE IInv'
  <2> DEFINE b == [store.heap[h] EXCEPT !.phase = "Expired"]
  <2>1. h \in DOMAIN store.heap
    BY DEF Handles
  <2>2. b \in Aggregate /\ b.id = store.heap[h].id /\ b.touched = store.heap[h].touched
    BY <1>a, <2>1, ElementType, StoredUpdates, Zenon
  <2>3. store' = [store EXCEPT !.heap = [@ EXCEPT ![h] = b]]
    BY <1>10, <1>a, <2>1 DEF ExpireDisplaced, StoreType
  <2> HIDE DEF b
  <2>4. now' = now /\ issued' = issued /\ calls' = calls /\ sinks' = sinks
    BY <1>10 DEF ExpireDisplaced
  <2>5. ClockType' /\ StoreInv(store)' /\ DOMAIN store'.heap = DOMAIN store.heap
    BY <1>b, <2>1, <2>2, <2>3, <2>4, SMTT(60)
  <2> QED  BY <2>4, <2>5, HoldersKept
<1>11. CASE UNCHANGED vars
  BY <1>11, SameClock DEF vars, ClockType, HolderType
<1> QED  BY <1>1, <1>2, <1>3, <1>4, <1>5, <1>6, <1>7, <1>8, <1>9, <1>10, <1>11 DEF Next

\* For every number of IDs, clients, lanes and concurrent calls, and whatever
\* the capacity, lifetime and sweep interval: no upload ID ever names a second
\* aggregate (engine/uploads.rs, reach, sweep and displace).
THEOREM OneAggregatePerId == Spec => []IdNamesOneAggregate
<1>1. IInv => IdNamesOneAggregate
  BY DEF IInv, StoreInv, OneHandlePerId, IdNamesOneAggregate, Handles
<1> QED  BY <1>1, InitInv, NextInv, PTL DEF Spec

\* Whatever the constants, a handle a lane, a call or the map holds points at an
\* aggregate the store made, and only upload IDs key the map and its tombstones.
THEOREM TypeCorrect == Spec => []TypeOK
<1>1. IInv => TypeOK
  BY PartialFacts DEF IInv, ClockType, HolderType, StoreInv, StoreType, PointsAtOwnId, TypeOK, Handles
<1> QED  BY <1>1, InitInv, NextInv, PTL DEF Spec

(***************************************************************************)
(* The capacity accounting: the quota counts the live aggregates, in total *)
(* and for each key, and passes no bound.  It rests on the store invariant *)
(* above, which says which aggregate each entry of the map points at.      *)
(***************************************************************************)
ChargedLive(st, k) == {i \in DOMAIN st.live : k \in Charged[st.heap[st.live[i]].owner]}

Accounted(st) ==
    /\ st.used = Cardinality(DOMAIN st.live) /\ st.used <= MaxLive
    /\ \A k \in Keys : st.held[k] = Cardinality(ChargedLive(st, k)) /\ st.held[k] <= Share[k]

\* A change that keeps the map, the quota and every owner keeps the accounts.
LEMMA SameOwners ==
  ASSUME NEW st, PointsAtOwnId(st), Accounted(st), NEW nt,
         nt.live = st.live, nt.used = st.used, nt.held = st.held,
         \A h \in DOMAIN st.heap : nt.heap[h].owner = st.heap[h].owner
  PROVE  Accounted(nt)
<1>1. ASSUME NEW k PROVE ChargedLive(nt, k) = ChargedLive(st, k)
  BY DEF PointsAtOwnId, ChargedLive
<1> QED  BY <1>1, SMTT(60) DEF Accounted

\* Counts of live IDs are natural numbers of finite sets.
LEMMA LiveFinite ==
  ASSUME NEW st \in StoreType
  PROVE  /\ IsFiniteSet(DOMAIN st.live) /\ Cardinality(DOMAIN st.live) \in Nat
         /\ \A k : IsFiniteSet(ChargedLive(st, k)) /\ Cardinality(ChargedLive(st, k)) \in Nat
<1>1. DOMAIN st.live \in SUBSET Ids
  BY PartialFacts DEF StoreType
<1>2. \A k : ChargedLive(st, k) \in SUBSET Ids
  BY <1>1 DEF ChargedLive
<1> QED  BY <1>1, <1>2, CountIsNat

\* Removed entries give back exactly what they were charged.
LEMMA ExpireAccounted ==
  ASSUME NEW st, StoreInv(st), Accounted(st), NEW gone \in SUBSET DOMAIN st.live
  PROVE  Accounted(Expire(st, gone))
<1> DEFINE charged(k) == {i \in gone : k \in Charged[st.heap[st.live[i]].owner]}
           held == [k \in Keys |-> st.held[k] - Cardinality(charged(k))]
           used == st.used - Cardinality(gone)
           live == [i \in DOMAIN st.live \ gone |-> st.live[i]]
           heap == [h \in DOMAIN st.heap |->
                      IF \E i \in gone : st.live[i] = h
                      THEN [st.heap[h] EXCEPT !.phase = "Expired"] ELSE st.heap[h]]
           e == Expire(st, gone)
<1>1. st \in StoreType /\ PointsAtOwnId(st)
  BY DEF StoreInv
<1>2. Release(st, gone) = [st EXCEPT !.used = used, !.held = held]
  BY <1>1 DEF Release, StoreType
<1>3. /\ DOMAIN live = DOMAIN st.live \ gone
      /\ \A i \in DOMAIN live : live[i] = st.live[i]
  OBVIOUS
<1>4. \A h \in DOMAIN st.heap : heap[h].owner = st.heap[h].owner
  <2>1. \A h \in DOMAIN st.heap : st.heap[h] \in Aggregate
    BY <1>1, ElementType
  <2> QED  BY <2>1 DEF Aggregate
<1>5. e.live = live /\ e.heap = heap /\ e.used = used /\ e.held = held
  <2> HIDE DEF used, held
  <2>1. LET r == Release(st, gone) IN
        /\ r \in StoreType /\ r.heap = st.heap /\ r.live = st.live
        /\ r.used = used /\ r.held = held
    BY <1>1, <1>2, ReleaseFacts DEF StoreType
  <2> DEFINE r == Release(st, gone)
             m == Remove(st, gone)
  <2>a. m = [r EXCEPT !.live = live]
    BY <2>1 DEF Remove
  <2>b. m \in StoreType /\ m.heap = st.heap
    BY <1>1, RemoveFacts
  <2>c. e = [m EXCEPT !.heap = heap]
    BY <2>b DEF Expire
  <2> HIDE DEF r, m, live, heap, e
  <2>2. e = [r EXCEPT !.live = live, !.heap = heap]
    BY <2>1, <2>a, <2>c DEF StoreType, r
  <2> HIDE DEF r, live, heap, e
  <2> QED  BY <2>1, <2>2 DEF StoreType, r
<1> HIDE DEF e, live, heap
<1>6. ASSUME NEW k
      PROVE  /\ ChargedLive(e, k) = ChargedLive(st, k) \ charged(k)
             /\ ChargedLive(st, k) \cap charged(k) = charged(k)
  <2>1. DOMAIN e.live = DOMAIN st.live \ gone
    BY <1>3, <1>5, Zenon
  <2>2. ASSUME NEW i \in DOMAIN e.live
        PROVE  e.heap[e.live[i]].owner = st.heap[st.live[i]].owner
    BY <1>1, <1>3, <1>4, <1>5, <2>1, Zenon DEF PointsAtOwnId
  <2> QED  BY <2>1, <2>2, SMTT(60) DEF ChargedLive
<1>7. /\ Cardinality(DOMAIN e.live) = Cardinality(DOMAIN st.live) - Cardinality(gone)
      /\ Cardinality(gone) \in Nat
  <2>1. DOMAIN st.live \cap gone = gone /\ gone \in SUBSET Ids
    BY <1>1, PartialFacts DEF StoreType
  <2>2. IsFiniteSet(DOMAIN st.live)
    BY <1>1, LiveFinite
  <2>3. Cardinality(DOMAIN st.live \ gone)
          = Cardinality(DOMAIN st.live) - Cardinality(DOMAIN st.live \cap gone)
    BY <2>2, FS_Difference, Zenon
  <2> QED  BY <1>3, <1>5, <2>1, <2>3, CountIsNat, Zenon
<1>8. ASSUME NEW k
      PROVE  /\ Cardinality(ChargedLive(e, k)) = Cardinality(ChargedLive(st, k)) - Cardinality(charged(k))
             /\ Cardinality(charged(k)) \in Nat
  <2>1. charged(k) \in SUBSET Ids
    BY <1>1, PartialFacts DEF StoreType
  <2> HIDE DEF charged
  <2>2. IsFiniteSet(ChargedLive(st, k))
    BY <1>1, LiveFinite
  <2>3. Cardinality(ChargedLive(st, k) \ charged(k))
          = Cardinality(ChargedLive(st, k)) - Cardinality(ChargedLive(st, k) \cap charged(k))
    BY <2>2, FS_Difference, ZenonT(60)
  <2> QED  BY <1>6, <2>1, <2>3, CountIsNat, Zenon
<1>9. e.used = Cardinality(DOMAIN e.live) /\ e.used <= MaxLive
  BY <1>1, <1>5, <1>7, LiveFinite, StoreAssumption DEF Accounted
<1>10. ASSUME NEW k \in Keys
       PROVE  e.held[k] = Cardinality(ChargedLive(e, k)) /\ e.held[k] <= Share[k]
  <2>1. e.held[k] = st.held[k] - Cardinality(charged(k))
    BY <1>5
  <2>2. Share[k] \in Nat
    BY StoreAssumption
  <2> HIDE DEF charged
  <2> QED  BY <1>1, <1>8, <2>1, <2>2, LiveFinite DEF Accounted
<1> QED  BY <1>9, <1>10 DEF Accounted, e

\* `sweep` and the locking it may run in keep the accounts.
LEMMA EnteredAccounted ==
  ASSUME ClockType, NEW st, StoreInv(st), Accounted(st)
  PROVE  Accounted(Entered(st))
<1> DEFINE gone == {i \in DOMAIN st.live : ~Kept(st.heap[st.live[i]])}
           e == Expire(st, gone)
           s == Sweep(st)
           n == Entered(st)
<1>1. st \in StoreType /\ gone \in SUBSET DOMAIN st.live
  BY SMTT(60) DEF StoreInv
<1>2. e \in StoreType /\ PointsAtOwnId(e)
  <2> HIDE DEF gone
  <2> QED  BY <1>1, ExpireFacts DEF StoreInv, PointsAtOwnId
<1>3. Accounted(e)
  BY <1>1, ExpireAccounted
<1>4. s = [e EXCEPT !.tombstones = RetainedTombstones(@)]
  BY DEF Sweep
<1> HIDE DEF gone, e
<1>5. s.live = e.live /\ s.heap = e.heap /\ s.used = e.used /\ s.held = e.held
  BY <1>2, <1>4 DEF StoreType
<1>6. Accounted(s) /\ StoreInv(s)
  BY <1>2, <1>3, <1>5, SameOwners, SweepInv, SMTT(60)
<1> HIDE DEF s
<1>7. CASE now >= st.nextSweep
  <2>1. n = [s EXCEPT !.nextSweep = now + SweepInterval]
    BY <1>7 DEF Entered, s
  <2> DEFINE t == now + SweepInterval
  <2> HIDE DEF t, n
  <2>2. n = [s EXCEPT !.nextSweep = t]
    BY <2>1 DEF t
  <2>3. n.live = s.live /\ n.heap = s.heap /\ n.used = s.used /\ n.held = s.held /\ PointsAtOwnId(s)
    BY <1>6, <2>2 DEF StoreInv, StoreType
  <2> QED  BY <1>6, <2>3, SameOwners DEF n
<1> QED  BY <1>7 DEF Entered

\* A displaced aggregate gives its place back, expired or not.
LEMMA DisplaceAccounted ==
  ASSUME ClockType, NEW st, StoreInv(st), Accounted(st), NEW i \in Displaceable(st)
  PROVE  Accounted(Displace(st, i))
<1> DEFINE gone == {i}
           r == Remove(st, gone)
           e == Expire(st, gone)
           d == Displace(st, i)
<1>1. st \in StoreType /\ gone \in SUBSET DOMAIN st.live
  BY DisplaceInv DEF StoreInv
<1>2. d = [r EXCEPT !.tombstones =
              [j \in DOMAIN @ \cup {i} |-> IF j = i THEN TombstoneUntil ELSE @[j]]]
  BY SMTT(60) DEF Displace
<1> DEFINE heap == [h \in DOMAIN r.heap |->
                      IF \E j \in gone : st.live[j] = h
                      THEN [r.heap[h] EXCEPT !.phase = "Expired"] ELSE r.heap[h]]
<1>3. r \in StoreType
  BY <1>1, RemoveFacts
<1>4. e = [r EXCEPT !.heap = heap]
  BY <1>3 DEF Expire, StoreType
<1>5. e \in StoreType /\ PointsAtOwnId(e) /\ Accounted(e)
  BY <1>1, ExpireFacts, ExpireAccounted DEF StoreInv, PointsAtOwnId
<1>6. DOMAIN heap = DOMAIN r.heap /\ \A h \in DOMAIN r.heap : heap[h].owner = r.heap[h].owner
  <2>1. \A h \in DOMAIN r.heap : r.heap[h] \in Aggregate
    BY <1>3, ElementType
  <2> HIDE DEF r, gone
  <2> QED  BY <2>1 DEF Aggregate
<1> HIDE DEF gone, d, r, e, heap
<1>7. e.live = r.live /\ e.used = r.used /\ e.held = r.held /\ e.heap = heap
  BY <1>3, <1>4 DEF StoreType
<1> DEFINE ts == [j \in DOMAIN r.tombstones \cup {i} |->
                     IF j = i THEN TombstoneUntil ELSE r.tombstones[j]]
<1>8. d = [r EXCEPT !.tombstones = ts]
  BY <1>2, <1>3 DEF StoreType
<1> HIDE DEF ts
<1>9. d.live = r.live /\ d.heap = r.heap /\ d.used = r.used /\ d.held = r.held
  BY <1>3, <1>8 DEF StoreType
<1>10. \A h \in DOMAIN e.heap : d.heap[h].owner = e.heap[h].owner
  BY <1>6, <1>7, <1>9, Zenon
<1> QED  BY <1>5, <1>7, <1>9, <1>10, SameOwners DEF d

\* A place is granted only where the total and every share have room.
LEMMA AcquireFacts ==
  ASSUME NEW st, NEW o \in Owners
  PROVE  LET a == Acquire(st, o) IN
         \/ a.full # "No" /\ a.st = st
         \/ /\ a.full = "No" /\ a.st = Hold(st, o)
            /\ ~TotalFull(st) /\ ~ClientFull(st, o)
BY SMTT(60) DEF Acquire

\* The new aggregate takes the place that was held for it.
LEMMA CreatedAccounted ==
  ASSUME ClockType, NEW st, StoreInv(st), Accounted(st), NEW i \in Ids, NEW o \in Owners, NEW n \in Int,
         i \notin DOMAIN st.live, ~TotalFull(st), ~ClientFull(st, o)
  PROVE  Accounted(Created(Hold(st, o), i, o, n))
<1> DEFINE a == [id |-> i, owner |-> o, bytes |-> FALSE, lanes |-> n,
                 touched |-> now, phase |-> "Open"]
           new == Len(st.heap) + 1
           heap == Append(st.heap, a)
           live == [j \in DOMAIN st.live \cup {i} |-> IF j = i THEN new ELSE st.live[j]]
           held == [k \in Keys |-> st.held[k] + (IF k \in Charged[o] THEN 1 ELSE 0)]
           used == st.used + 1
           hs == Hold(st, o)
           nt == Created(hs, i, o, n)
<1>1. st \in StoreType /\ PointsAtOwnId(st)
  BY DEF StoreInv
<1>2. hs = [st EXCEPT !.used = used, !.held = held]
  BY <1>1 DEF Hold, StoreType
<1>3. hs \in StoreType /\ hs.heap = st.heap /\ hs.live = st.live
  BY HoldInv DEF StoreInv
<1>4. hs.used = used /\ hs.held = held
  <2> HIDE DEF used, held, hs
  <2> QED  BY <1>1, <1>2 DEF StoreType
<1>5. nt = [hs EXCEPT !.heap = heap, !.live = live]
  <2> HIDE DEF hs
  <2> QED  BY <1>3 DEF Created, StoreType
<1>6. nt.heap = heap /\ nt.live = live /\ nt.used = used /\ nt.held = held
  <2> HIDE DEF hs, heap, live, used, held, nt
  <2> QED  BY <1>3, <1>4, <1>5 DEF StoreType
<1>7. a \in Aggregate /\ a.owner = o
  BY DEF Aggregate, Phases, ClockType
<1>8. \A h \in DOMAIN st.heap : heap[h] = st.heap[h]
  <2>1. st.heap \in Seq(Aggregate) /\ DOMAIN st.heap = 1..Len(st.heap)
    BY <1>1, LenProperties DEF StoreType
  <2> HIDE DEF a
  <2> QED  BY <1>7, <2>1, AppendProperties
<1>9. heap[new] = a
  <2>1. st.heap \in Seq(Aggregate)
    BY <1>1 DEF StoreType
  <2> HIDE DEF a
  <2> QED  BY <1>7, <2>1, AppendProperties
<1>10. /\ DOMAIN live = DOMAIN st.live \cup {i}
       /\ live[i] = new /\ \A j \in DOMAIN st.live : live[j] = st.live[j]
  BY SMTT(60)
<1> HIDE DEF a, new, heap, live, nt
<1>11. ASSUME NEW k
       PROVE  ChargedLive(nt, k) = IF k \in Charged[o] THEN ChargedLive(st, k) \cup {i} ELSE ChargedLive(st, k)
  <2>1. nt.heap[nt.live[i]].owner = o
    BY <1>6, <1>7, <1>9, <1>10, SMTT(60)
  <2>2. ASSUME NEW j \in DOMAIN st.live
        PROVE  nt.heap[nt.live[j]].owner = st.heap[st.live[j]].owner
    BY <1>1, <1>6, <1>8, <1>10, SMTT(60) DEF PointsAtOwnId
  <2> QED  BY <1>6, <1>10, <2>1, <2>2, Zenon DEF ChargedLive
<1>12. nt.used = Cardinality(DOMAIN nt.live) /\ nt.used <= MaxLive
  <2>1. IsFiniteSet(DOMAIN st.live) /\ Cardinality(DOMAIN st.live) \in Nat
    BY <1>1, LiveFinite
  <2>2. Cardinality(DOMAIN st.live \cup {i}) = Cardinality(DOMAIN st.live) + 1
    BY <2>1, FS_AddElement, Zenon
  <2> QED  BY <1>6, <1>10, <2>1, <2>2, StoreAssumption, SMTT(60) DEF Accounted, TotalFull
<1>13. ASSUME NEW k \in Keys
       PROVE  nt.held[k] = Cardinality(ChargedLive(nt, k)) /\ nt.held[k] <= Share[k]
  <2>1. IsFiniteSet(ChargedLive(st, k)) /\ Cardinality(ChargedLive(st, k)) \in Nat
    BY <1>1, LiveFinite
  <2>2. i \notin ChargedLive(st, k)
    BY DEF ChargedLive
  <2>3. Cardinality(ChargedLive(st, k) \cup {i}) = Cardinality(ChargedLive(st, k)) + 1
    BY <2>1, <2>2, FS_AddElement, ZenonT(60)
  <2>4. nt.held[k] = st.held[k] + (IF k \in Charged[o] THEN 1 ELSE 0)
    BY <1>6
  <2>5. st.held[k] = Cardinality(ChargedLive(st, k)) /\ st.held[k] <= Share[k] /\ Share[k] \in Nat
    BY StoreAssumption DEF Accounted
  <2>6. k \in Charged[o] => ~(st.held[k] + 1 > Share[k])
    BY DEF ClientFull
  <2>7. CASE k \in Charged[o]
    <3>1. Cardinality(ChargedLive(nt, k)) = Cardinality(ChargedLive(st, k)) + 1
      BY <1>11, <2>3, <2>7, SMTT(60)
    <3>2. nt.held[k] = st.held[k] + 1
      BY <2>4, <2>7, SMTT(60)
    <3> QED  BY <2>1, <2>5, <2>6, <2>7, <3>1, <3>2
  <2>8. CASE k \notin Charged[o]
    <3>1. ChargedLive(nt, k) = ChargedLive(st, k)
      BY <1>11, <2>8, SMTT(60)
    <3>2. nt.held[k] = st.held[k] + 0
      BY <2>4, <2>8
    <3> QED  BY <2>1, <2>5, <3>1, <3>2, SMTT(60)
  <2> QED  BY <2>7, <2>8
<1> QED  BY <1>12, <1>13 DEF Accounted, nt

\* Whatever `reach` answers, the accounts of the store it leaves are exact.
LEMMA ReachAccounted ==
  ASSUME ClockType, StoreInv(store), Accounted(store), NEW i \in Ids, NEW o \in Callers, NEW how,
         NEW r \in Reach(i, o, how)
  PROVE  Accounted(r.st)
<1> DEFINE st == Entered(store)
<1>1. StoreInv(st) /\ Accounted(st)
  BY EnteredInv, EnteredAccounted
<1> HIDE DEF st
<1>2. CASE r = Refused(store) \/ r = Refused(st)
  BY <1>1, <1>2 DEF Refused, Outcome
<1>3. CASE i \in DOMAIN st.live /\ r = ReachLive(st, i, o, how)
  <2> DEFINE h == st.live[i]
             b == [st.heap[h] EXCEPT !.lanes = @ + 1, !.touched = now]
             nt == Joined(st, h)
  <2>1. h \in DOMAIN st.heap /\ st \in StoreType /\ PointsAtOwnId(st)
    BY <1>1, <1>3 DEF StoreInv, PointsAtOwnId
  <2>2. st.heap[h] \in Aggregate
    BY <2>1, ElementType, SMTT(60)
  <2>3. b \in Aggregate /\ b.owner = st.heap[h].owner
    <3>1. b \in Aggregate
      BY <2>2, StoredUpdates, Zenon
    <3> QED  BY <2>2, <3>1, Zenon DEF Aggregate
  <2> HIDE DEF h
  <2>4. nt = [st EXCEPT !.heap = [@ EXCEPT ![h] = b]]
    BY <2>1, <2>2, Zenon DEF Joined, StoreType, Aggregate
  <2> HIDE DEF b
  <2>5. /\ nt.live = st.live /\ nt.used = st.used /\ nt.held = st.held
        /\ \A g \in DOMAIN st.heap : nt.heap[g] = IF g = h THEN b ELSE st.heap[g]
    BY <2>1, <2>3, <2>4, UpdateFacts DEF StoreType
  <2> HIDE DEF nt
  <2>6. Accounted(nt)
    BY <1>1, <2>1, <2>3, <2>5, SameOwners
  <2>7. r = Refused(st) \/ r = Outcome(st, h) \/ r = Outcome(nt, h)
    BY <1>3 DEF ReachLive, h, nt
  <2> QED  BY <1>1, <2>6, <2>7, SMTT(60) DEF Refused, Outcome
<1>4. CASE i \notin DOMAIN st.live /\ r \in ReachNew(st, i, o, how) /\ r # Refused(st)
  <2>1. o \in Owners
    BY <1>4 DEF ReachNew, Callers
  <2> DEFINE n == IF how = "Join" THEN 1 ELSE 0
  <2>2. PICK room \in Capacity(st, o) :
            r = IF room.full = "No"
                THEN Outcome(Created(room.st, i, o, n), Len(st.heap) + 1)
                ELSE Refused(room.st)
    BY <1>4, <2>1 DEF ReachNew
  <2>3. n \in Int
    OBVIOUS
  <2> HIDE DEF n
  <2>4. ASSUME NEW s, StoreInv(s), Accounted(s), i \notin DOMAIN s.live, room = Acquire(s, o)
        PROVE  Accounted(r.st)
    <3>1. \/ room.full # "No" /\ room.st = s
          \/ /\ room.full = "No" /\ room.st = Hold(s, o)
             /\ ~TotalFull(s) /\ ~ClientFull(s, o)
      BY <2>1, <2>4, AcquireFacts, SMTT(60)
    <3>2. CASE room.full # "No"
      BY <2>2, <2>4, <3>1, <3>2, Zenon DEF Refused, Outcome
    <3>3. CASE room.full = "No"
      <4>1. Accounted(Created(room.st, i, o, n))
        BY <2>1, <2>3, <2>4, <3>1, <3>3, CreatedAccounted, SMTT(60)
      <4> QED  BY <2>2, <3>3, <4>1 DEF Outcome
    <3> QED  BY <3>2, <3>3
  <2>5. CASE room = Acquire(st, o)
    BY <1>1, <1>4, <2>4, <2>5, SMTT(60)
  <2>6. CASE \E v \in Displaceable(st) : room = Acquire(Displace(st, v), o)
    <3>1. PICK v \in Displaceable(st) : room = Acquire(Displace(st, v), o)
      BY <2>6, SMTT(60)
    <3>2. /\ StoreInv(Displace(st, v)) /\ Accounted(Displace(st, v))
          /\ i \notin DOMAIN Displace(st, v).live
      BY <1>1, <1>4, DisplaceInv, DisplaceAccounted
    <3> QED  BY <2>4, <3>1, <3>2
  <2> QED  BY <2>5, <2>6 DEF Capacity
<1> QED  BY <1>2, <1>3, <1>4 DEF Reach, st

\* A change of one aggregate's record that keeps its owner keeps the accounts.
LEMMA UpdateAccounted ==
  ASSUME StoreInv(store), Accounted(store), NEW h \in DOMAIN store.heap, NEW b \in Aggregate,
         b.owner = store.heap[h].owner, store' = [store EXCEPT !.heap = [@ EXCEPT ![h] = b]]
  PROVE  Accounted(store')
<1>1. store \in StoreType /\ PointsAtOwnId(store)
  BY DEF StoreInv
<1>2. /\ store'.live = store.live /\ store'.used = store.used /\ store'.held = store.held
      /\ \A g \in DOMAIN store.heap : store'.heap[g] = IF g = h THEN b ELSE store.heap[g]
  BY <1>1, UpdateFacts DEF StoreType
<1> QED  BY <1>1, <1>2, SameOwners, ZenonT(60)

\* The empty store holds nothing.
LEMMA InitAccounted == Init => Accounted(store)
<1> SUFFICES ASSUME Init PROVE Accounted(store)
  OBVIOUS
<1>1. DOMAIN store.live = {} /\ store.used = 0 /\ \A k \in Keys : store.held[k] = 0
  BY DEF Init
<1>2. \A k : ChargedLive(store, k) = {}
  BY <1>1 DEF ChargedLive
<1>3. Cardinality({}) = 0
  BY FS_EmptySet
<1> QED  BY <1>1, <1>2, <1>3, StoreAssumption DEF Accounted

\* Every step keeps the accounts exact.
LEMMA NextAccounted == IInv /\ Accounted(store) /\ [Next]_vars => Accounted(store')
<1> SUFFICES ASSUME IInv, Accounted(store), [Next]_vars PROVE Accounted(store')
  OBVIOUS
<1> USE DEF IInv
<1>a. store \in StoreType
  BY DEF StoreInv
<1>1. ASSUME NEW s \in Sinks, NEW i \in Ids, NEW o \in Callers, Begin(s, i, o) PROVE Accounted(store')
  BY <1>1, ReachAccounted DEF Begin
<1>2. ASSUME NEW s \in Sinks, Record(s) PROVE Accounted(store')
  <2> DEFINE h == sinks[s]
             b == [store.heap[h] EXCEPT !.bytes = TRUE]
  <2>1. h \in DOMAIN store.heap
    BY <1>2 DEF Record, HolderType
  <2>2. b \in Aggregate /\ b.owner = store.heap[h].owner
    BY <1>a, <2>1, ElementType, Zenon DEF Aggregate
  <2>3. store' = [store EXCEPT !.heap = [@ EXCEPT ![h] = b]]
    BY <1>2, <1>a, <2>1, ElementType DEF Record, StoreType, Aggregate
  <2> QED  BY <2>1, <2>2, <2>3, UpdateAccounted, Zenon
<1>3. ASSUME NEW s \in Sinks, Leave(s) PROVE Accounted(store')
  <2> DEFINE h == sinks[s]
             b == [store.heap[h] EXCEPT !.lanes = @ - 1, !.touched = now]
  <2>1. h \in DOMAIN store.heap
    BY <1>3 DEF Leave, HolderType
  <2>2. store.heap[h] \in Aggregate
    BY <1>a, <2>1, ElementType, SMTT(60)
  <2>3. b \in Aggregate
    BY <2>2, StoredUpdates, Zenon
  <2>4. b.owner = store.heap[h].owner
    BY <2>2 DEF Aggregate
  <2>5. store' = [store EXCEPT !.heap = [@ EXCEPT ![h] = b]]
    BY <1>3, <1>a, <2>1, <2>2, Zenon DEF Leave, StoreType, Aggregate
  <2> HIDE DEF h, b
  <2> QED  BY <2>1, <2>3, <2>4, <2>5, UpdateAccounted
<1>4. ASSUME NEW i \in Ids, NEW o \in Callers, Subscribe(i, o) PROVE Accounted(store')
  BY <1>4, ReachAccounted DEF Subscribe
<1>5. ASSUME NEW c \in Calls, NEW i \in Ids, NEW o \in Callers, Finish(c, i, o) PROVE Accounted(store')
  BY <1>5, ReachAccounted DEF Finish
<1>6. ASSUME NEW c \in Calls, Finalize(c) PROVE Accounted(store')
  <2> DEFINE h == calls[c]
             b == [store.heap[h] EXCEPT !.phase = IF @ = "Open" THEN "Finished" ELSE @]
  <2>1. h \in DOMAIN store.heap
    BY <1>6 DEF Finalize, HolderType
  <2>2. b \in Aggregate /\ b.owner = store.heap[h].owner
    BY <1>a, <2>1, ElementType DEF Aggregate, Phases
  <2>3. store' = [store EXCEPT !.heap = [@ EXCEPT ![h] = b]]
    BY <1>6, <1>a, <2>1, ElementType, SMTT(60) DEF Finalize, StoreType, Aggregate
  <2> HIDE DEF h, b
  <2> QED  BY <2>1, <2>2, <2>3, UpdateAccounted
<1>7. ASSUME Look PROVE Accounted(store')
  BY <1>7, EnteredAccounted DEF Look
<1>8. ASSUME NEW h \in Handles, ExpireDisplaced(h) PROVE Accounted(store')
  <2> DEFINE b == [store.heap[h] EXCEPT !.phase = "Expired"]
  <2>1. h \in DOMAIN store.heap
    BY DEF Handles
  <2>2. b \in Aggregate /\ b.owner = store.heap[h].owner
    BY <1>a, <2>1, ElementType DEF Aggregate, Phases
  <2>3. store' = [store EXCEPT !.heap = [@ EXCEPT ![h] = b]]
    BY <1>8, <1>a, <2>1 DEF ExpireDisplaced, StoreType
  <2> HIDE DEF b
  <2> QED  BY <2>1, <2>2, <2>3, UpdateAccounted
<1>9. CASE (\E i \in Ids : Mint(i)) \/ Tick \/ UNCHANGED vars
  BY <1>9 DEF Mint, Tick, vars
<1> QED  BY <1>1, <1>2, <1>3, <1>4, <1>5, <1>6, <1>7, <1>8, <1>9 DEF Next

\* For every set of clients, keys, charges and shares, and every capacity: the
\* Hold of each entry is released exactly when the entry goes, so the quota's
\* counts are those of the live aggregates and pass neither MAX_LIVE nor a
\* client's share (engine/uploads.rs, capacity, expire, sweep and displace).
THEOREM CapacityExact == Spec => []CapacityAccounted
<1>1. Accounted(store) => CapacityAccounted
  BY Zenon DEF Accounted, ChargedLive, CapacityAccounted
<1>2. IInv /\ Accounted(store) /\ [Next]_vars => Accounted(store)'
  BY NextAccounted DEF Accounted, ChargedLive
<1> QED  BY <1>1, <1>2, InitInv, InitAccounted, NextInv, PTL DEF Spec

(***************************************************************************)
(* The lives of the aggregates: lane counts are those of the open sinks,   *)
(* an aggregate with lanes, or with bytes and not expired, is in the map,  *)
(* and phases move only forward.  The three go together: a sweep or a      *)
(* displacement spares an aggregate in use because its lane count is       *)
(* exact, and what a displacement has yet to expire gets no bytes because  *)
(* no lane can reach it.                                                   *)
(***************************************************************************)
Count(h) == Cardinality({s \in Sinks : sinks[s] = h})

InMap(st, h) == st.heap[h].id \in DOMAIN st.live /\ st.live[st.heap[h].id] = h

InUse(a) == a.lanes > 0 \/ (a.bytes /\ a.phase # "Expired")

Laned(st) ==
    \A h \in DOMAIN st.heap :
        st.heap[h].lanes = Count(h) /\ (InUse(st.heap[h]) => InMap(st, h))

\* What may become of an aggregate's phase in a step, and which entries may go.
MayExpire(a) == a.lanes = 0 /\ (~a.bytes \/ now - a.touched > Retention)

MayGo(a) == a.lanes = 0 /\ ((a.phase = "Open" /\ ~a.bytes) \/ now - a.touched > Retention)

Moves(a, b) == b.phase = a.phase \/ (b.phase = "Expired" /\ MayExpire(a))

\* Counting sinks gives a natural number, and none is on a handle the heap has
\* not given out.
LEMMA CountFacts ==
  ASSUME HolderType, store \in StoreType, NEW h
  PROVE  /\ Count(h) \in Nat
         /\ h \notin DOMAIN store.heap /\ h # NoHandle => Count(h) = 0
<1>1. IsFiniteSet({s \in Sinks : sinks[s] = h})
  BY StoreAssumption, FS_Subset
<1>2. ASSUME h \notin DOMAIN store.heap, h # NoHandle
      PROVE  {s \in Sinks : sinks[s] = h} = {}
  BY <1>2 DEF HolderType
<1> QED  BY <1>1, <1>2, FS_CardinalityType, FS_EmptySet DEF Count

\* Expiring entries changes the phase of their aggregates and no other field.
LEMMA ExpireRecords ==
  ASSUME NEW st \in StoreType, NEW gone \in SUBSET DOMAIN st.live
  PROVE  LET e == Expire(st, gone) IN
         \A h \in DOMAIN st.heap :
            /\ e.heap[h].lanes = st.heap[h].lanes
            /\ IF \E i \in gone : st.live[i] = h THEN e.heap[h].phase = "Expired"
               ELSE e.heap[h] = st.heap[h]
<1> DEFINE r == Remove(st, gone)
           heap == [h \in DOMAIN r.heap |->
                      IF \E i \in gone : st.live[i] = h
                      THEN [r.heap[h] EXCEPT !.phase = "Expired"] ELSE r.heap[h]]
           e == Expire(st, gone)
<1>1. r \in StoreType /\ r.heap = st.heap
  BY RemoveFacts
<1>2. e = [r EXCEPT !.heap = heap]
  BY <1>1 DEF Expire
<1>3. \A h \in DOMAIN st.heap : st.heap[h] \in Aggregate
  BY ElementType
<1>4. \A h \in DOMAIN st.heap :
        /\ heap[h].lanes = st.heap[h].lanes
        /\ IF \E i \in gone : st.live[i] = h THEN heap[h].phase = "Expired"
           ELSE heap[h] = st.heap[h]
  BY <1>1, <1>3 DEF Aggregate
<1> HIDE DEF r, heap, e
<1>5. e.heap = heap
  BY <1>1, <1>2, SMTT(60) DEF StoreType
<1> QED  BY <1>4, <1>5 DEF e

\* Removing entries without lanes keeps the lane counts and those in use.
LEMMA ExpireLaned ==
  ASSUME NEW st, StoreInv(st), Laned(st), NEW gone \in SUBSET DOMAIN st.live,
         \A i \in gone : ~(st.heap[st.live[i]].lanes > 0)
  PROVE  Laned(Expire(st, gone))
<1> DEFINE e == Expire(st, gone)
<1>1. st \in StoreType /\ PointsAtOwnId(st) /\ OneHandlePerId(st)
  BY SMTT(60) DEF StoreInv
<1>2. /\ DOMAIN e.live = DOMAIN st.live \ gone
      /\ \A i \in DOMAIN e.live : e.live[i] = st.live[i]
      /\ DOMAIN e.heap = DOMAIN st.heap
      /\ \A h \in DOMAIN st.heap : e.heap[h].id = st.heap[h].id
  BY <1>1, ExpireFacts, ZenonT(60)
<1>3. \A h \in DOMAIN st.heap :
         /\ e.heap[h].lanes = st.heap[h].lanes
         /\ IF \E i \in gone : st.live[i] = h THEN e.heap[h].phase = "Expired"
            ELSE e.heap[h] = st.heap[h]
  BY <1>1, ExpireRecords, SMTT(60)
<1> HIDE DEF e
<1>4. ASSUME NEW h \in DOMAIN e.heap
      PROVE  e.heap[h].lanes = Count(h) /\ (InUse(e.heap[h]) => InMap(e, h))
  <2>1. CASE \E i \in gone : st.live[i] = h
    BY <1>2, <1>3, <2>1 DEF Laned, InUse
  <2>2. CASE ~\E i \in gone : st.live[i] = h
    BY <1>2, <1>3, <2>2 DEF Laned, InMap
  <2> QED  BY <2>1, <2>2
<1> QED  BY <1>4 DEF Laned, e

\* A change of the store outside its heap and map keeps the lane counts.
LEMMA SameLanes ==
  ASSUME NEW st, Laned(st), NEW nt, nt.heap = st.heap, nt.live = st.live
  PROVE  Laned(nt)
BY DEF Laned, InMap

\* `sweep` spares aggregates with lanes, and what it expires rested for RETENTION.
LEMMA EnteredLaned ==
  ASSUME ClockType, HolderType, store \in StoreType, NEW st, StoreInv(st), Laned(st)
  PROVE  /\ Laned(Entered(st))
         /\ \A h \in DOMAIN st.heap :
               \/ Entered(st).heap[h] = st.heap[h]
               \/ Entered(st).heap[h].phase = "Expired" /\ MayExpire(st.heap[h])
         /\ \A i \in DOMAIN st.live \ DOMAIN Entered(st).live : MayGo(st.heap[st.live[i]])
         /\ DOMAIN Entered(st).live \subseteq DOMAIN st.live
         /\ \A i \in DOMAIN Entered(st).live : Entered(st).live[i] = st.live[i]
<1> DEFINE gone == {i \in DOMAIN st.live : ~Kept(st.heap[st.live[i]])}
           e == Expire(st, gone)
           s == Sweep(st)
           n == Entered(st)
<1>1. st \in StoreType /\ gone \in SUBSET DOMAIN st.live
  BY SMTT(60) DEF StoreInv
<1>2. \A i \in gone : LET a == st.heap[st.live[i]] IN
                      ~(a.lanes > 0) /\ ~(now - a.touched <= Retention)
  BY DEF Kept
<1>3. s = [e EXCEPT !.tombstones = RetainedTombstones(@)]
  BY SMTT(60) DEF Sweep
<1> HIDE DEF gone
<1>4. e \in StoreType /\ Laned(e)
  BY <1>1, <1>2, ExpireFacts, ExpireLaned, Zenon
<1>r. ASSUME NEW i \in gone
      PROVE  LET a == st.heap[st.live[i]] IN a.lanes = 0 /\ now - a.touched > Retention
  <2> DEFINE h == st.live[i]
  <2>1. h \in DOMAIN st.heap
    BY <1>1 DEF StoreInv, PointsAtOwnId
  <2>2. st.heap[h].touched \in Nat /\ st.heap[h].lanes = Count(h) /\ Count(h) \in Nat
    BY <1>1, <2>1, ElementType, CountFacts, SMTT(60) DEF Aggregate, Laned
  <2>3. ~(st.heap[h].lanes > 0) /\ ~(now - st.heap[h].touched <= Retention)
    BY <1>2
  <2> HIDE DEF h
  <2>4. st.heap[h].lanes = 0 /\ now - st.heap[h].touched > Retention
    BY <2>2, <2>3, StoreAssumption, SMTT(60) DEF Retention, ClockType
  <2> QED  BY <2>4 DEF h
<1>l. /\ DOMAIN e.live = DOMAIN st.live \ gone
      /\ \A i \in DOMAIN e.live : e.live[i] = st.live[i]
  BY <1>1, ExpireFacts
<1>g. /\ \A i \in DOMAIN st.live \ DOMAIN e.live : MayGo(st.heap[st.live[i]])
      /\ DOMAIN e.live \subseteq DOMAIN st.live
  BY <1>r, <1>l DEF MayGo
<1>5. ASSUME NEW h \in DOMAIN st.heap
      PROVE  e.heap[h] = st.heap[h] \/ (e.heap[h].phase = "Expired" /\ MayExpire(st.heap[h]))
  <2>1. CASE \E i \in gone : st.live[i] = h
    <3>1. e.heap[h].phase = "Expired"
      BY <1>1, <2>1, ExpireRecords, SMTT(60)
    <3> QED  BY <1>r, <2>1, <3>1, SMTT(60) DEF MayExpire
  <2>2. CASE ~\E i \in gone : st.live[i] = h
    BY <1>1, <2>2, ExpireRecords
  <2> QED  BY <2>1, <2>2, SMTT(60)
<1> HIDE DEF e
<1>6. s.live = e.live /\ s.heap = e.heap
  BY <1>3, <1>4 DEF StoreType
<1>7. s \in StoreType
  BY SweepInv DEF StoreInv
<1> HIDE DEF s
<1>8. CASE now >= st.nextSweep
  <2> DEFINE t == now + SweepInterval
  <2>1. n = [s EXCEPT !.nextSweep = t]
    BY <1>8 DEF Entered, s
  <2> HIDE DEF t, n
  <2>2. n.live = e.live /\ n.heap = e.heap
    BY <1>6, <1>7, <2>1 DEF StoreType
  <2> QED  BY <1>4, <1>5, <1>g, <1>l, <2>2, SameLanes DEF n
<1>9. CASE ~(now >= st.nextSweep)
  BY <1>9, SMTT(60) DEF Entered
<1> QED  BY <1>8, <1>9

\* The aggregate `displace` takes from the map had no lanes, bytes or finish.
LEMMA DisplaceLaned ==
  ASSUME ClockType, NEW st, StoreInv(st), Laned(st), NEW v \in Displaceable(st)
  PROVE  /\ Laned(Displace(st, v))
         /\ \A i \in DOMAIN st.live \ DOMAIN Displace(st, v).live :
               LET a == st.heap[st.live[i]] IN MayGo(a) /\ a.phase = "Open"
<1> DEFINE gone == {v}
           e == Remove(st, gone)
           d == Displace(st, v)
<1>1. st \in StoreType /\ gone \in SUBSET DOMAIN st.live /\ v \in DOMAIN st.live
  BY DisplaceInv DEF StoreInv
<1>2. Empty(st.heap[st.live[v]])
  BY DEF Displaceable, Victims
<1>3. d = [e EXCEPT !.tombstones =
              [j \in DOMAIN @ \cup {v} |-> IF j = v THEN TombstoneUntil ELSE @[j]]]
  BY SMTT(60) DEF Displace
<1>4. /\ e \in StoreType /\ e.heap = st.heap /\ DOMAIN e.live = DOMAIN st.live \ {v}
      /\ \A i \in DOMAIN e.live : e.live[i] = st.live[i]
  BY <1>1, RemoveFacts
<1> HIDE DEF gone, d, e
<1> DEFINE ts == [j \in DOMAIN e.tombstones \cup {v} |->
                     IF j = v THEN TombstoneUntil ELSE e.tombstones[j]]
<1>5. d = [e EXCEPT !.tombstones = ts]
  BY <1>3, <1>4 DEF StoreType
<1> HIDE DEF ts
<1>6. d.live = e.live /\ d.heap = st.heap
  BY <1>4, <1>5, SMTT(60) DEF StoreType
<1>7. ASSUME NEW h \in DOMAIN st.heap
      PROVE  st.heap[h].lanes = Count(h) /\ (InUse(st.heap[h]) => InMap(d, h))
  <2>1. CASE h = st.live[v]
    BY <1>2, <2>1 DEF Empty, InUse, Laned
  <2>2. CASE h # st.live[v]
    BY <1>4, <1>6, <2>2 DEF Laned, InMap
  <2> QED  BY <2>1, <2>2
<1>8. Laned(d)
  BY <1>6, <1>7 DEF Laned
<1>9. \A i \in DOMAIN st.live \ DOMAIN d.live : i = v
  BY <1>4, <1>6, Zenon
<1> QED  BY <1>2, <1>8, <1>9 DEF d, MayGo, Empty

\* Whatever `capacity` does keeps the lane counts and displaces only the idle.
LEMMA CapacityLaned ==
  ASSUME ClockType, NEW st, StoreInv(st), Laned(st), NEW o \in Owners, NEW room \in Capacity(st, o)
  PROVE  /\ Laned(room.st)
         /\ \A i \in DOMAIN st.live \ DOMAIN room.st.live :
               LET a == st.heap[st.live[i]] IN MayGo(a) /\ a.phase = "Open"
<1>1. ASSUME NEW s, StoreInv(s), NEW a, a = Acquire(s, o)
      PROVE  a.st.heap = s.heap /\ a.st.live = s.live
  <2>1. a.st = s \/ a.st = Hold(s, o)
    BY <1>1 DEF Acquire
  <2> QED  BY <1>1, <2>1, HoldInv
<1>2. CASE room = Acquire(st, o)
  BY <1>1, <1>2, SameLanes, SMTT(60)
<1>3. CASE \E v \in Displaceable(st) : room = Acquire(Displace(st, v), o)
  <2>1. PICK v \in Displaceable(st) : room = Acquire(Displace(st, v), o)
    BY <1>3, SMTT(60)
  <2>2. room.st.heap = Displace(st, v).heap /\ room.st.live = Displace(st, v).live
    BY <1>1, <2>1, DisplaceInv, SMTT(60)
  <2> QED  BY <2>2, DisplaceLaned, SameLanes
<1> QED  BY <1>2, <1>3 DEF Capacity

\* A new aggregate has the lane that made it, if one did, and is in the map.
LEMMA CreatedLanes ==
  ASSUME ClockType, NEW st, StoreInv(st), NEW i \in Ids, NEW o \in Owners, NEW n \in Int,
         i \notin DOMAIN st.live, NEW nt, nt = Created(st, i, o, n), NEW new, new = Len(st.heap) + 1
  PROVE  /\ \A h \in DOMAIN st.heap : nt.heap[h] = st.heap[h]
         /\ nt.heap[new].lanes = n /\ InMap(nt, new)
         /\ \A h \in DOMAIN st.heap : InMap(st, h) => InMap(nt, h)
         /\ DOMAIN st.live \subseteq DOMAIN nt.live
<1> DEFINE a == [id |-> i, owner |-> o, bytes |-> FALSE, lanes |-> n,
                 touched |-> now, phase |-> "Open"]
           heap == Append(st.heap, a)
           live == [j \in DOMAIN st.live \cup {i} |-> IF j = i THEN new ELSE st.live[j]]
<1>1. st \in StoreType
  BY DEF StoreInv
<1>2. nt = [st EXCEPT !.heap = heap, !.live = live]
  BY <1>1 DEF Created, StoreType
<1>3. a \in Aggregate /\ a.id = i /\ a.lanes = n
  BY DEF Aggregate, Phases, ClockType
<1> HIDE DEF a
<1>4. st.heap \in Seq(Aggregate) /\ DOMAIN st.heap = 1..Len(st.heap)
  BY <1>1, LenProperties DEF StoreType
<1>5. heap[new] = a /\ \A h \in DOMAIN st.heap : heap[h] = st.heap[h]
  BY <1>3, <1>4, AppendProperties, SMTT(60)
<1>6. /\ DOMAIN live = DOMAIN st.live \cup {i}
      /\ live[i] = new /\ \A j \in DOMAIN st.live : live[j] = st.live[j]
  OBVIOUS
<1> HIDE DEF heap, live
<1>7. nt.heap = heap /\ nt.live = live
  BY <1>1, <1>2, SMTT(60) DEF StoreType
<1>8. InMap(nt, new)
  BY <1>3, <1>5, <1>6, <1>7, SMTT(60) DEF InMap
<1>9. \A h \in DOMAIN st.heap : InMap(st, h) => InMap(nt, h)
  BY <1>5, <1>6, <1>7, SMTT(60) DEF InMap
<1> QED  BY <1>3, <1>5, <1>6, <1>7, <1>8, <1>9, SMTT(60)

\* No aggregate has the handle that stands for none, and the next one is free.
LEMMA HandlesFrom ==
  ASSUME NEW st, StoreInv(st)
  PROVE  /\ NoHandle \notin DOMAIN st.heap
         /\ Len(st.heap) + 1 \notin DOMAIN st.heap /\ Len(st.heap) + 1 # NoHandle
<1>1. DOMAIN st.heap = 1..Len(st.heap) /\ Len(st.heap) \in Nat
  BY LenProperties, Zenon DEF StoreInv, StoreType
<1> QED  BY <1>1 DEF NoHandle

\* What `sweep` and `displace` take from the map may go.
Going(nt) == \A i \in DOMAIN store.live \ DOMAIN nt.live : MayGo(store.heap[store.live[i]])

\* Whatever `reach` answers: lane counts are the open sinks' and the one joining,
\* aggregates in use are in the map, phases move only forward, and what leaves
\* the map may go.
LEMMA ReachLives ==
  ASSUME ClockType, HolderType, StoreInv(store), Laned(store),
         NEW i \in Ids, NEW o \in Callers, NEW how, NEW r \in Reach(i, o, how)
  PROVE  /\ \A h \in DOMAIN r.st.heap :
               /\ r.st.heap[h].lanes = Count(h) + (IF how = "Join" /\ h = r.h THEN 1 ELSE 0)
               /\ InUse(r.st.heap[h]) => InMap(r.st, h)
         /\ \A h \in DOMAIN store.heap : Moves(store.heap[h], r.st.heap[h])
         /\ Going(r.st)
<1> DEFINE st == Entered(store)
<1>a. store \in StoreType
  BY SMTT(60) DEF StoreInv
<1>1. StoreInv(st) /\ Laned(st) /\ DOMAIN st.heap = DOMAIN store.heap
  BY <1>a, EnteredInv, EnteredLaned, Zenon
<1>2. \A h \in DOMAIN store.heap :
         st.heap[h] = store.heap[h] \/ (st.heap[h].phase = "Expired" /\ MayExpire(store.heap[h]))
  BY <1>a, EnteredLaned
<1>e. /\ Going(store) /\ Going(st) /\ DOMAIN st.live \subseteq DOMAIN store.live
      /\ \A j \in DOMAIN st.live : st.live[j] = store.live[j]
  BY <1>a, EnteredLaned DEF Going
<1> HIDE DEF st
<1>3. NoHandle \notin DOMAIN st.heap /\ \A h : Count(h) \in Nat
  BY <1>a, <1>1, HandlesFrom, CountFacts, Zenon
<1>b. \A h : Count(h) + 0 = Count(h)
  BY <1>3
<1>c. /\ \A h \in DOMAIN store.heap : Moves(store.heap[h], store.heap[h])
      /\ \A h \in DOMAIN store.heap : Moves(store.heap[h], st.heap[h])
  BY <1>2, Zenon DEF Moves
<1>d. ASSUME NEW b, Laned(b), DOMAIN b.heap = DOMAIN store.heap, r = Refused(b),
             \A h \in DOMAIN store.heap : Moves(store.heap[h], b.heap[h]), Going(b)
      PROVE  /\ \A h \in DOMAIN r.st.heap :
                    /\ r.st.heap[h].lanes = Count(h) + (IF how = "Join" /\ h = r.h THEN 1 ELSE 0)
                    /\ InUse(r.st.heap[h]) => InMap(r.st, h)
             /\ \A h \in DOMAIN store.heap : Moves(store.heap[h], r.st.heap[h])
             /\ Going(r.st)
  <2>1. r.st = b /\ r.h = NoHandle
    BY <1>d, Zenon DEF Refused, Outcome
  <2>2. NoHandle \notin DOMAIN b.heap
    BY <1>1, <1>3, <1>d, Zenon
  <2> QED  BY <1>b, <1>d, <2>1, <2>2, Zenon DEF Laned
<1>4. CASE r = Refused(store) \/ r = Refused(st)
  BY <1>1, <1>4, <1>c, <1>d, <1>e, Zenon
<1>5. CASE i \in DOMAIN st.live /\ r = ReachLive(st, i, o, how)
  <2> DEFINE h == st.live[i]
             b == [st.heap[h] EXCEPT !.lanes = @ + 1, !.touched = now]
             nt == Joined(st, h)
  <2>1. h \in DOMAIN st.heap /\ st \in StoreType /\ st.heap[h].id = i
    BY <1>1, <1>5, Zenon DEF StoreInv, PointsAtOwnId
  <2>2. st.heap[h] \in Aggregate
    BY <2>1, ElementType, SMTT(60)
  <2>3. b \in Aggregate /\ b.id = i
    BY <2>1, <2>2, StoredUpdates, Zenon
  <2>4. b.lanes = st.heap[h].lanes + 1 /\ b.phase = st.heap[h].phase
    <3> DEFINE up == st.heap[h].lanes + 1
    <3>1. b = [st.heap[h] EXCEPT !.lanes = up, !.touched = now]
      BY <2>2 DEF Aggregate
    <3> HIDE DEF up, h, b
    <3>2. b.lanes = up /\ b.phase = st.heap[h].phase
      BY <2>2, <3>1, SMTT(60) DEF Aggregate
    <3> QED  BY <3>2 DEF up
  <2>5. InMap(st, h)
    BY <1>5, <2>1 DEF InMap
  <2> HIDE DEF h
  <2>6. nt = [st EXCEPT !.heap = [@ EXCEPT ![h] = b]]
    BY <2>1, <2>2, ZenonT(60) DEF Joined, StoreType, Aggregate
  <2> HIDE DEF b
  <2>7. /\ nt.live = st.live /\ DOMAIN nt.heap = DOMAIN st.heap
        /\ \A g \in DOMAIN st.heap : nt.heap[g] = IF g = h THEN b ELSE st.heap[g]
    BY <2>1, <2>3, <2>6, UpdateFacts
  <2> HIDE DEF nt
  <2>8. CASE how = "Join" /\ r = Outcome(nt, h)
    <3>1. ASSUME NEW g \in DOMAIN st.heap
          PROVE  /\ nt.heap[g].lanes = Count(g) + (IF g = h THEN 1 ELSE 0)
                 /\ InUse(nt.heap[g]) => InMap(nt, g)
      <4>1. CASE g = h
        BY <1>1, <2>1, <2>3, <2>4, <2>5, <2>7, <4>1, Zenon DEF Laned, InMap
      <4>2. CASE g # h
        BY <1>1, <1>b, <2>7, <4>2, Zenon DEF Laned, InMap
      <4> QED  BY <4>1, <4>2, Zenon
    <3>2. ASSUME NEW g \in DOMAIN st.heap PROVE nt.heap[g].phase = st.heap[g].phase
      <4>1. CASE g = h
        BY <2>4, <2>7, <4>1, Zenon
      <4>2. CASE g # h
        BY <2>7, <4>2, Zenon
      <4> QED  BY <4>1, <4>2, Zenon
    <3>3. r.st = nt /\ r.h = h
      BY <2>8, Zenon DEF Outcome
    <3>4. \A g \in DOMAIN store.heap : Moves(store.heap[g], r.st.heap[g])
      BY <1>1, <1>c, <3>2, <3>3, Zenon DEF Moves
    <3>5. Going(r.st)
      BY <1>e, <2>7, <3>3, Zenon DEF Going
    <3> QED  BY <2>7, <2>8, <3>1, <3>3, <3>4, <3>5, Zenon
  <2>9. CASE how # "Join" /\ r = Outcome(st, h)
    <3>1. r.st = st /\ r.h = h
      BY <2>9, Zenon DEF Outcome
    <3> QED  BY <1>1, <1>b, <1>c, <1>e, <2>9, <3>1, Zenon DEF Laned
  <2>10. r = Refused(st) \/ (how # "Join" /\ r = Outcome(st, h)) \/ (how = "Join" /\ r = Outcome(nt, h))
    BY <1>5, Zenon DEF ReachLive, h, nt
  <2> QED  BY <1>4, <2>8, <2>9, <2>10, Zenon
<1>6. CASE i \notin DOMAIN st.live /\ r \in ReachNew(st, i, o, how) /\ r # Refused(st)
  <2>1. o \in Owners /\ i \notin DOMAIN st.tombstones /\ Valid(i)
    BY <1>6 DEF ReachNew, Callers
  <2> DEFINE n == IF how = "Join" THEN 1 ELSE 0
             new == Len(st.heap) + 1
  <2>2. PICK room \in Capacity(st, o) :
            r = IF room.full = "No" THEN Outcome(Created(room.st, i, o, n), new)
                ELSE Refused(room.st)
    BY <1>6, <2>1, SMTT(60) DEF ReachNew
  <2>3. /\ StoreInv(room.st) /\ Laned(room.st)
        /\ DOMAIN room.st.heap = DOMAIN st.heap /\ Len(room.st.heap) = Len(st.heap)
        /\ i \notin DOMAIN room.st.live /\ i \notin DOMAIN room.st.tombstones
    BY <1>1, <1>6, <2>1, CapacityInv, CapacityLaned, Zenon
  <2>4. room.st.heap = st.heap
    BY <1>1, <2>1, CapacityInv, Zenon
  <2>5. \A h \in DOMAIN store.heap : Moves(store.heap[h], room.st.heap[h])
    BY <1>c, <2>4, Zenon
  <2>g. Going(room.st)
    <3>1. \A j \in DOMAIN st.live \ DOMAIN room.st.live :
             MayGo(st.heap[st.live[j]]) /\ st.heap[st.live[j]].phase = "Open"
      BY <1>1, <2>1, CapacityLaned, SMTT(60)
    <3>2. ASSUME NEW j \in DOMAIN store.live, j \notin DOMAIN room.st.live
          PROVE  MayGo(store.heap[store.live[j]])
      <4>1. CASE j \notin DOMAIN st.live
        BY <1>e, <3>2, <4>1, Zenon DEF Going
      <4>2. CASE j \in DOMAIN st.live
        <5>1. st.live[j] = store.live[j] /\ store.live[j] \in DOMAIN store.heap
          BY <1>e, <3>2, <4>2, Zenon DEF StoreInv, PointsAtOwnId
        <5>2. MayGo(st.heap[store.live[j]]) /\ st.heap[store.live[j]].phase = "Open"
          BY <3>1, <3>2, <4>2, <5>1, Zenon
        <5>3. "Open" # "Expired"
          OBVIOUS
        <5>4. st.heap[store.live[j]] = store.heap[store.live[j]]
          BY <1>2, <5>1, <5>2, <5>3, Zenon
        <5> QED  BY <5>2, <5>4, Zenon
      <4> QED  BY <4>1, <4>2, Zenon
    <3> QED  BY <3>2, Zenon DEF Going
  <2>6. CASE r = Refused(room.st)
    BY <1>1, <1>d, <2>3, <2>5, <2>6, <2>g, Zenon
  <2>7. CASE r = Outcome(Created(room.st, i, o, n), new)
    <3> DEFINE nt == Created(room.st, i, o, n)
    <3>1. n \in Int
      BY SMTT(60)
    <3>2. new \notin DOMAIN st.heap /\ new # NoHandle
      BY <1>1, HandlesFrom, Zenon
    <3>3. Count(new) = 0
      BY <1>1, <1>a, <3>2, CountFacts, Zenon
    <3> HIDE DEF n
    <3>4. DOMAIN nt.heap = DOMAIN st.heap \cup {new}
      BY <2>1, <2>3, <3>1, CreatedInv, SMTT(60)
    <3>5. /\ \A h \in DOMAIN st.heap : nt.heap[h] = room.st.heap[h]
          /\ nt.heap[new].lanes = n /\ InMap(nt, new)
          /\ \A h \in DOMAIN st.heap : InMap(room.st, h) => InMap(nt, h)
          /\ DOMAIN room.st.live \subseteq DOMAIN nt.live
      <4> DEFINE rs == room.st
      <4>1. /\ new = Len(rs.heap) + 1 /\ nt = Created(rs, i, o, n)
            /\ StoreInv(rs) /\ i \notin DOMAIN rs.live
        BY <2>3, Zenon
      <4> HIDE DEF nt, new, rs
      <4>2. /\ \A h \in DOMAIN rs.heap : nt.heap[h] = rs.heap[h]
            /\ nt.heap[new].lanes = n /\ InMap(nt, new)
            /\ \A h \in DOMAIN rs.heap : InMap(rs, h) => InMap(nt, h)
            /\ DOMAIN rs.live \subseteq DOMAIN nt.live
        BY <2>1, <3>1, <4>1, CreatedLanes, SMTT(60)
      <4> QED  BY <2>3, <4>2, Zenon DEF rs
    <3> HIDE DEF nt, new
    <3>6. ASSUME NEW h \in DOMAIN st.heap
          PROVE  /\ nt.heap[h].lanes = Count(h) + (IF how = "Join" /\ h = new THEN 1 ELSE 0)
                 /\ InUse(nt.heap[h]) => InMap(nt, h)
      BY <1>1, <1>b, <2>3, <3>2, <3>5, Zenon DEF Laned
    <3>7. nt.heap[new].lanes = Count(new) + (IF how = "Join" /\ new = new THEN 1 ELSE 0)
      BY <3>3, <3>5 DEF n
    <3>8. \A h \in DOMAIN store.heap : Moves(store.heap[h], nt.heap[h])
      BY <1>1, <2>5, <3>5, Zenon
    <3>9. r.st = nt /\ r.h = new
      BY <2>7 DEF Outcome, nt
    <3>10. Going(nt)
      BY <2>g, <3>5, Zenon DEF Going
    <3> QED  BY <3>4, <3>5, <3>6, <3>7, <3>8, <3>9, <3>10, ZenonT(60)
  <2> QED  BY <2>2, <2>6, <2>7, Zenon
<1> QED  BY <1>4, <1>5, <1>6, Zenon DEF Reach, st

\* A sink opening on a handle adds one to its count and leaves the others alone.
LEMMA CountJoins ==
  ASSUME HolderType, NEW s \in Sinks, sinks[s] = NoHandle, NEW g, sinks' = [sinks EXCEPT ![s] = g]
  PROVE  \A h : h # NoHandle => Count(h)' = Count(h) + (IF h = g THEN 1 ELSE 0)
<1> SUFFICES ASSUME NEW h, h # NoHandle
             PROVE  Count(h)' = Count(h) + (IF h = g THEN 1 ELSE 0)
  OBVIOUS
<1> DEFINE on == {t \in Sinks : sinks[t] = h}
           after == {t \in Sinks : sinks'[t] = h}
<1>1. IsFiniteSet(on)
  BY StoreAssumption, FS_Subset
<1>2. Cardinality(on) \in Nat
  BY <1>1, FS_CardinalityType, SMTT(60)
<1>3. CASE h = g
  <2>1. after = on \cup {s} /\ s \notin on
    BY <1>3 DEF HolderType
  <2> HIDE DEF on, after
  <2>2. Cardinality(on \cup {s}) = Cardinality(on) + 1
    BY <1>1, <2>1, FS_AddElement, Zenon
  <2> QED  BY <1>2, <1>3, <2>1, <2>2, Zenon DEF Count, on, after
<1>4. CASE h # g
  <2>1. after = on
    BY <1>4 DEF HolderType
  <2> HIDE DEF on, after
  <2> QED  BY <1>2, <1>4, <2>1 DEF Count, on, after
<1> QED  BY <1>3, <1>4

\* A sink closing takes one from its handle's count.
LEMMA CountLeaves ==
  ASSUME HolderType, NEW s \in Sinks, sinks[s] # NoHandle, sinks' = [sinks EXCEPT ![s] = NoHandle]
  PROVE  \A h : h # NoHandle => Count(h)' = Count(h) - (IF h = sinks[s] THEN 1 ELSE 0)
<1> SUFFICES ASSUME NEW h, h # NoHandle
             PROVE  Count(h)' = Count(h) - (IF h = sinks[s] THEN 1 ELSE 0)
  OBVIOUS
<1> DEFINE on == {t \in Sinks : sinks[t] = h}
           after == {t \in Sinks : sinks'[t] = h}
<1>1. IsFiniteSet(on)
  BY StoreAssumption, FS_Subset
<1>2. Cardinality(on) \in Nat
  BY <1>1, FS_CardinalityType, SMTT(60)
<1>3. CASE h = sinks[s]
  <2>1. after = on \ {s} /\ s \in on
    BY <1>3 DEF HolderType
  <2> HIDE DEF on, after
  <2>2. Cardinality(on \ {s}) = Cardinality(on) - 1
    BY <1>1, <2>1, FS_RemoveElement, SMTT(60)
  <2> QED  BY <1>2, <1>3, <2>1, <2>2, SMTT(60) DEF Count, on, after
<1>4. CASE h # sinks[s]
  <2>1. after = on
    BY <1>4 DEF HolderType
  <2> HIDE DEF on, after
  <2> QED  BY <1>2, <1>4, <2>1, SMTT(60) DEF Count, on, after
<1> QED  BY <1>3, <1>4, SMTT(60)

\* What a step may do to an aggregate: leave its phase, finish it while open, or
\* expire it when it is neither in use nor worth keeping.
Lives(a, b) == Moves(a, b) \/ (a.phase = "Open" /\ b.phase = "Finished")

AllLive ==
    /\ \A h \in DOMAIN store.heap : Lives(store.heap[h], store'.heap[h])
    /\ Going(store')

\* Changing one aggregate whose lanes follow its sinks keeps the counts exact.
LEMMA UpdateLaned ==
  ASSUME StoreInv(store), Laned(store), NEW h \in DOMAIN store.heap, NEW b \in Aggregate,
         b.id = store.heap[h].id, store' = [store EXCEPT !.heap = [@ EXCEPT ![h] = b]],
         b.lanes = Count(h)', InUse(b) => InUse(store.heap[h]), Lives(store.heap[h], b),
         \A g \in DOMAIN store.heap \ {h} : Count(g)' = Count(g)
  PROVE  Laned(store)' /\ AllLive
<1>1. store \in StoreType
  BY DEF StoreInv
<1>2. /\ store'.live = store.live /\ DOMAIN store'.heap = DOMAIN store.heap
      /\ \A g \in DOMAIN store.heap : store'.heap[g] = IF g = h THEN b ELSE store.heap[g]
  BY <1>1, UpdateFacts
<1>3. store.heap[h] \in Aggregate
  BY <1>1, ElementType
<1>4. ASSUME NEW g \in DOMAIN store.heap
      PROVE  /\ store'.heap[g].lanes = Count(g)'
             /\ InUse(store'.heap[g]) => InMap(store', g)
  <2>1. CASE g = h
    BY <1>2, <2>1 DEF Laned, InMap
  <2>2. CASE g # h
    BY <1>2, <2>2 DEF Laned, InMap
  <2> QED  BY <2>1, <2>2
<1>5. Laned(store)'
  BY <1>2, <1>4 DEF Laned, InMap, InUse
<1>6. AllLive
  BY <1>2, SMTT(60) DEF AllLive, Lives, Moves, Going
<1> QED  BY <1>5, <1>6

\* Nothing is on an empty heap.
LEMMA InitLaned == Init => Laned(store)
BY DEF Init, Laned

\* Every step keeps the lane counts exact and moves every aggregate forward.
LEMMA NextLaned == IInv /\ Laned(store) /\ [Next]_vars => Laned(store)' /\ AllLive
<1> SUFFICES ASSUME IInv, Laned(store), [Next]_vars PROVE Laned(store)' /\ AllLive
  OBVIOUS
<1> USE DEF IInv
<1>a. store \in StoreType /\ \A h \in DOMAIN store.heap : store.heap[h] \in Aggregate
  BY ElementType DEF StoreInv
<1>b. sinks' = sinks => \A h : Count(h)' = Count(h)
  BY DEF Count
<1>c. NoHandle \notin DOMAIN store.heap
  BY HandlesFrom, Zenon
<1>d. ASSUME NEW i \in Ids, NEW o \in Callers, NEW how \in {"Watch", "Read"},
             NEW r \in Reach(i, o, how), store' = r.st, sinks' = sinks
      PROVE  Laned(store)' /\ AllLive
  <2>1. /\ \A h \in DOMAIN r.st.heap :
             r.st.heap[h].lanes = Count(h) + 0 /\ (InUse(r.st.heap[h]) => InMap(r.st, h))
        /\ \A h \in DOMAIN store.heap : Moves(store.heap[h], r.st.heap[h])
        /\ Going(r.st)
    BY <1>d, ReachLives, SMTT(60)
  <2>2. \A h : Count(h) + 0 = Count(h)
    BY <1>a, CountFacts, SMTT(60)
  <2>3. ASSUME NEW h \in DOMAIN store'.heap
        PROVE  store'.heap[h].lanes = Count(h)' /\ (InUse(store'.heap[h]) => InMap(store', h))
    <3>1. Count(h)' = Count(h) + 0
      BY <1>b, <1>d, <2>2, Zenon
    <3> QED  BY <1>d, <2>1, <3>1, Zenon
  <2>4. AllLive
    BY <1>d, <2>1, Zenon DEF AllLive, Lives
  <2> QED  BY <2>3, <2>4, SMTT(60) DEF Laned, InMap, InUse
<1>1. ASSUME NEW s \in Sinks, NEW i \in Ids, NEW o \in Callers, Begin(s, i, o)
      PROVE  Laned(store)' /\ AllLive
  <2>1. PICK r \in Reach(i, o, "Join") : store' = r.st /\ sinks' = [sinks EXCEPT ![s] = r.h]
    BY <1>1, Zenon DEF Begin
  <2>2. /\ \A h \in DOMAIN r.st.heap :
             /\ r.st.heap[h].lanes = Count(h) + (IF h = r.h THEN 1 ELSE 0)
             /\ InUse(r.st.heap[h]) => InMap(r.st, h)
        /\ \A h \in DOMAIN store.heap : Moves(store.heap[h], r.st.heap[h])
        /\ Going(r.st)
    BY <2>1, ReachLives, ZenonT(60)
  <2>3. NoHandle \notin DOMAIN r.st.heap
    <3>1. StoreInv(r.st)
      BY <2>1, ReachInv, SMTT(60)
    <3> QED  BY <3>1, HandlesFrom, Zenon
  <2>4. \A h : h # NoHandle => Count(h)' = Count(h) + (IF h = r.h THEN 1 ELSE 0)
    BY <1>1, <2>1, CountJoins, Zenon DEF Begin
  <2>5. ASSUME NEW h \in DOMAIN store'.heap
        PROVE  store'.heap[h].lanes = Count(h)' /\ (InUse(store'.heap[h]) => InMap(store', h))
    <3>1. h \in DOMAIN r.st.heap /\ h # NoHandle
      BY <2>1, <2>3, <2>5, Zenon
    <3>2. r.st.heap[h].lanes = Count(h)' /\ (InUse(r.st.heap[h]) => InMap(r.st, h))
      BY <2>2, <2>4, <3>1, Zenon
    <3> QED  BY <2>1, <3>2, Zenon
  <2>6. Laned(store)'
    BY <2>5, Zenon DEF Laned, InMap, InUse
  <2> QED  BY <2>1, <2>2, <2>6, Zenon DEF AllLive, Lives
<1>2. ASSUME NEW s \in Sinks, Record(s) PROVE Laned(store)' /\ AllLive
  <2>0. PICK h \in DOMAIN store.heap : h = sinks[s]
    BY <1>2 DEF Record, HolderType
  <2>1. PICK b : b = [store.heap[h] EXCEPT !.bytes = TRUE]
    BY Zenon
  <2>2. /\ b \in Aggregate /\ b.id = store.heap[h].id
        /\ b.lanes = store.heap[h].lanes /\ b.phase = store.heap[h].phase
    BY <1>a, <2>1, Zenon DEF Aggregate
  <2>3. store' = [store EXCEPT !.heap = [@ EXCEPT ![h] = b]]
    BY <1>2, <1>a, <2>0, <2>1, SMTT(60) DEF Record, StoreType, Aggregate
  <2>4. sinks' = sinks
    BY <1>2 DEF Record
  <2>5. b.lanes = Count(h)' /\ Lives(store.heap[h], b)
    BY <1>a, <1>b, <2>1, <2>2, <2>4, SMTT(60) DEF Laned, Lives, Moves, Aggregate
  <2>6. InUse(store.heap[h])
    <3>1. Count(h) > 0
      <4> DEFINE on == {t \in Sinks : sinks[t] = h}
      <4>1. s \in on /\ IsFiniteSet(on)
        BY <2>0, StoreAssumption, FS_Subset
      <4> HIDE DEF on
      <4>2. Cardinality(on) \in Nat /\ Cardinality(on) # 0
        BY <4>1, FS_CardinalityType, FS_EmptySet
      <4> QED  BY <4>2 DEF Count, on
    <3> QED  BY <3>1 DEF Laned, InUse
  <2> QED  BY <1>b, <2>1, <2>2, <2>3, <2>4, <2>5, <2>6, UpdateLaned, Zenon
<1>3. ASSUME NEW s \in Sinks, Leave(s) PROVE Laned(store)' /\ AllLive
  <2>0. PICK h \in DOMAIN store.heap : h = sinks[s]
    BY <1>3 DEF Leave, HolderType
  <2>1. PICK down : down = store.heap[h].lanes - 1
    OBVIOUS
  <2>2. store.heap[h] \in Aggregate /\ down \in Int
    BY <1>a, <2>1 DEF Aggregate
  <2>3. PICK b : b = [store.heap[h] EXCEPT !.lanes = down, !.touched = now]
    OBVIOUS
  <2>4. store' = [store EXCEPT !.heap = [@ EXCEPT ![h] = b]]
    BY <1>3, <1>a, <2>0, <2>1, <2>2, <2>3, Zenon DEF Leave, StoreType, Aggregate
  <2>5. \A g : g # NoHandle => Count(g)' = Count(g) - (IF g = h THEN 1 ELSE 0)
    BY <1>3, <2>0, CountLeaves, Zenon DEF Leave
  <2>6. /\ b \in Aggregate /\ b.id = store.heap[h].id
        /\ b.lanes = down /\ b.phase = store.heap[h].phase /\ b.bytes = store.heap[h].bytes
    BY <2>2, <2>3, Zenon DEF Aggregate, ClockType
  <2>7. b.lanes = Count(h)' /\ (InUse(b) => InUse(store.heap[h]))
    <3>1. b.lanes = Count(h)' /\ (b.lanes > 0 => store.heap[h].lanes > 0)
      BY <1>c, <2>1, <2>2, <2>5, <2>6 DEF Laned, Aggregate
    <3> QED  BY <2>6, <3>1 DEF InUse
  <2>8. \A g \in DOMAIN store.heap \ {h} : Count(g)' = Count(g)
    <3>1. \A g : Count(g) \in Nat
      BY <1>a, CountFacts
    <3> QED  BY <1>c, <2>5, <3>1
  <2>9. Lives(store.heap[h], b)
    BY <2>6 DEF Lives, Moves
  <2> QED  BY <2>4, <2>6, <2>7, <2>8, <2>9, UpdateLaned, SMTT(60)
<1>4. ASSUME NEW i \in Ids, NEW o \in Callers, Subscribe(i, o) PROVE Laned(store)' /\ AllLive
  BY <1>d, <1>4, SMTT(60) DEF Subscribe
<1>5. ASSUME NEW c \in Calls, NEW i \in Ids, NEW o \in Callers, Finish(c, i, o)
      PROVE  Laned(store)' /\ AllLive
  BY <1>d, <1>5 DEF Finish
<1>6. ASSUME NEW c \in Calls, Finalize(c) PROVE Laned(store)' /\ AllLive
  <2>0. PICK h \in DOMAIN store.heap : h = calls[c]
    BY <1>6 DEF Finalize, HolderType
  <2>1. PICK b : b = [store.heap[h] EXCEPT !.phase = IF @ = "Open" THEN "Finished" ELSE @]
    BY Zenon
  <2>2. /\ b \in Aggregate /\ b.id = store.heap[h].id /\ b.lanes = store.heap[h].lanes
        /\ b.bytes = store.heap[h].bytes
        /\ b.phase = store.heap[h].phase \/ (store.heap[h].phase = "Open" /\ b.phase = "Finished")
    BY <1>a, <2>1 DEF Aggregate, Phases
  <2>3. store' = [store EXCEPT !.heap = [@ EXCEPT ![h] = b]]
    BY <1>6, <1>a, <2>0, <2>1 DEF Finalize, StoreType, Aggregate
  <2>4. sinks' = sinks
    BY <1>6 DEF Finalize
  <2>5. b.lanes = Count(h)' /\ Lives(store.heap[h], b)
    BY <1>a, <1>b, <2>1, <2>2, <2>4, SMTT(60) DEF Laned, Lives, Moves, Aggregate
  <2>6. InUse(b) => InUse(store.heap[h])
    BY <2>2 DEF InUse
  <2> QED  BY <1>b, <2>2, <2>3, <2>4, <2>5, <2>6, UpdateLaned, Zenon
<1>7. ASSUME Look PROVE Laned(store)' /\ AllLive
  <2>1. store' = Entered(store) /\ sinks' = sinks
    BY <1>7 DEF Look
  <2>2. Laned(store')
    BY <1>a, <2>1, EnteredLaned, Zenon
  <2>3. AllLive
    BY <1>a, <2>1, EnteredLaned, Zenon DEF AllLive, Lives, Moves, Going
  <2> QED  BY <1>b, <2>1, <2>2, <2>3, SMTT(60) DEF Laned, InMap, InUse
<1>8. ASSUME NEW h \in Handles, ExpireDisplaced(h) PROVE Laned(store)' /\ AllLive
  <2>0. h \in DOMAIN store.heap
    BY DEF Handles
  <2>1. PICK b : b = [store.heap[h] EXCEPT !.phase = "Expired"]
    BY Zenon
  <2>2. /\ b \in Aggregate /\ b.id = store.heap[h].id /\ b.lanes = store.heap[h].lanes
        /\ b.phase = "Expired"
    BY <1>a, <2>0, <2>1 DEF Aggregate, Phases
  <2>3. store' = [store EXCEPT !.heap = [@ EXCEPT ![h] = b]]
    BY <1>8, <1>a, <2>0, <2>1 DEF ExpireDisplaced, StoreType
  <2>4. sinks' = sinks
    BY <1>8 DEF ExpireDisplaced
  <2>5. store.heap[h].phase # "Expired" /\ ~InMap(store, h)
    BY <1>8 DEF ExpireDisplaced, Displaced, InMap
  <2>6. ~(store.heap[h].lanes > 0) /\ ~store.heap[h].bytes
    BY <2>0, <2>5 DEF Laned, InUse
  <2>7. store.heap[h].lanes = 0
    BY <1>a, <2>0, <2>6, CountFacts DEF Laned
  <2>8. b.lanes = Count(h)' /\ Lives(store.heap[h], b)
    BY <1>b, <2>0, <2>2, <2>4, <2>6, <2>7 DEF Laned, Lives, Moves, MayExpire
  <2>9. InUse(b) => InUse(store.heap[h])
    BY <2>2 DEF InUse
  <2> QED  BY <1>b, <2>0, <2>2, <2>3, <2>4, <2>8, <2>9, UpdateLaned, Zenon
<1>9. CASE (\E i \in Ids : Mint(i)) \/ Tick \/ UNCHANGED vars
  <2>1. store' = store /\ sinks' = sinks
    BY <1>9 DEF Mint, Tick, vars
  <2> QED  BY <1>b, <2>1, Zenon DEF Laned, InMap, InUse, AllLive, Lives, Moves, Going
<1> QED  BY <1>1, <1>2, <1>3, <1>4, <1>5, <1>6, <1>7, <1>8, <1>9, SMTT(60) DEF Next

\* For every number of lanes, calls and clients: an aggregate's lane count is the
\* number of open sinks, and one in use is in the map (engine/uploads.rs, begin,
\* the sink's Drop, sweep and displace).
THEOREM LanesExact == Spec => []LanesAreSinks
<1>1. Laned(store) => LanesAreSinks
  BY DEF Laned, InMap, InUse, Count, LanesAreSinks, Handles
<1> QED  BY <1>1, InitInv, InitLaned, NextInv, NextLaned, PTL DEF Spec

\* Whatever the constants and the interleaving of lanes, readers, finishes and
\* the two locks of a displacement: no aggregate leaves the expired or the
\* finished phase backwards, none expires while a lane is open or its bytes are
\* fresh, and the map loses only what rested for RETENTION or was empty when
\* displace looked (engine/uploads.rs, finish, sweep, displace and expire).
THEOREM LivesOnlyForward == Spec => LivesForward
<1> DEFINE Forward == /\ \A h \in Handles :
                           LET a == store.heap[h]
                               next == store'.heap[h].phase
                           IN /\ a.phase = "Expired" => next = "Expired"
                              /\ a.phase = "Finished" => next # "Open"
                              /\ a.phase # "Expired" /\ next = "Expired" =>
                                    a.lanes = 0 /\ (~a.bytes \/ now - a.touched > Retention)
                      /\ \A i \in DOMAIN store.live \ DOMAIN store'.live :
                            LET a == store.heap[store.live[i]]
                            IN a.lanes = 0 /\ ((a.phase = "Open" /\ ~a.bytes) \/ now - a.touched > Retention)
<1>1. IInv /\ Laned(store) /\ [Next]_vars => [Forward]_vars
  <2> SUFFICES ASSUME IInv, Laned(store), [Next]_vars PROVE Forward
    OBVIOUS
  <2>1. AllLive
    BY NextLaned
  <2> QED  BY <2>1, Zenon DEF AllLive, Lives, Moves, MayExpire, Going, MayGo, Handles
<1> HIDE DEF Forward
<1>2. Spec => [][Forward]_vars
  BY <1>1, InitInv, InitLaned, NextInv, NextLaned, PTL DEF Spec
<1> QED  BY <1>2, SMTT(60) DEF Forward, LivesForward
==============================================================================
