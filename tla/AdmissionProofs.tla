--------------------------- MODULE AdmissionProofs ---------------------------
(***************************************************************************)
(* What Admission promises, for any number of leases, clients and requests *)
(* and any quotas: QuotasExact, LeaseCovered and DueOnlyUnused.            *)
(***************************************************************************)
EXTENDS Admission, TLAPS

(***************************************************************************)
(* A quota q counts the holds h of the leases, those of the work P, by     *)
(* client, and the exempt work H.                                          *)
(***************************************************************************)
Quota == [used : Nat, held : [Clients -> Nat]]

Counted(q, h, P, H) ==
    /\ \A c \in Clients : q.held[c] = Tally(Of(c), h) + Cardinality(P[c])
    /\ q.used = Tally(Clients, q.held) + Cardinality(H)

\* Client c's holds in q move by d, which may be negative, to those in r.
Moved(q, r, c, d) ==
    /\ r \in [used : Int, held : [Clients -> Int]]
    /\ r.used = q.used + d /\ r.held[c] = q.held[c] + d
    /\ \A b \in Clients \ {c} : r.held[b] = q.held[b]

\* No client's holds move, the use of q moves by d to that of r.
Exempted(q, r, d) ==
    r \in [used : Int, held : [Clients -> Int]] /\ r.used = q.used + d /\ r.held = q.held

LEMMA ExemptTypes ==
    ASSUME NEW q \in Quota
    PROVE  Exempted(q, TakeExempt(q), 1) /\ Exempted(q, GiveExempt(q), -1) /\ Exempted(q, q, 0)
  BY DEF Exempted, TakeExempt, GiveExempt, Quota

LEMMA TakeMoves == ASSUME NEW q \in Quota, NEW c \in Clients PROVE Moved(q, Take(q, c), c, 1)
  BY DEF Take, Quota, Moved

LEMMA GiveMoves == ASSUME NEW q \in Quota, NEW c \in Clients, NEW n \in Int PROVE Moved(q, Give(q, c, n), c, -n)
  BY DEF Give, Quota, Moved

LEMMA StillMoves == ASSUME NEW q \in Quota, NEW c \in Clients PROVE Moved(q, q, c, 0)
  BY DEF Quota, Moved

\* A quota within its limits stays within them when a hold is taken where one
\* fits, or holds are given back.
Within(q, total, share) == q.used <= total /\ \A c \in Clients : q.held[c] <= share
MayMove(q, c, d, total, share) == d <= 0 \/ (d = 1 /\ Fits(q, c, total, share))
MayExempt(q, d, total) == d <= 0 \/ (d = 1 /\ q.used < total)

LEMMA MovedFits ==
    ASSUME NEW q \in Quota, NEW c \in Clients, NEW d \in Int, NEW r, Moved(q, r, c, d),
           NEW total \in Nat, NEW share \in Nat, Within(q, total, share), MayMove(q, c, d, total, share)
    PROVE  Within(r, total, share)
  <1>1. q.used \in Nat /\ r.used = q.used + d /\ r.used <= total
    BY SMTT(60) DEF Quota, Moved, Fits, Within, MayMove
  <1>2. q.held[c] \in Nat /\ r.held[c] = q.held[c] + d /\ r.held[c] <= share
    BY SMTT(60) DEF Quota, Moved, Fits, Within, MayMove
  <1>3. \A b \in Clients \ {c} : r.held[b] <= share
    BY SMTT(60) DEF Moved, Within
  <1> QED
    BY <1>1, <1>2, <1>3 DEF Within

LEMMA ExemptedFits ==
    ASSUME NEW q \in Quota, NEW d \in Int, NEW r, Exempted(q, r, d),
           NEW total \in Nat, NEW share \in Nat, Within(q, total, share), MayExempt(q, d, total)
    PROVE  Within(r, total, share)
  BY SMTT(60) DEF Quota, Exempted, Within, MayExempt

LEMMA OfFinite == \A c \in Clients : IsFiniteSet(Of(c)) /\ Of(c) \subseteq Leases
  <1>1. \A c \in Clients : Of(c) \subseteq Leases
    BY DEF Of
  <1> QED
    BY <1>1, FS_Subset, AdmissionAssumption

LEMMA WorkNumbers == ASSUME NEW W \in SUBSET Work PROVE IsFiniteSet(W) /\ Cardinality(W) \in Nat
  <1>1. IsFiniteSet(W)
    BY FS_Subset, AdmissionAssumption
  <1> QED
    BY <1>1, FS_CardinalityType

\* A quota's use changes with what one client holds.
LEMMA UsedFollows ==
    ASSUME NEW f \in [Clients -> Nat], NEW g \in [Clients -> Nat], NEW c \in Clients,
           \A d \in Clients \ {c} : g[d] = f[d]
    PROVE  Tally(Clients, g) = Tally(Clients, f) + g[c] - f[c] /\ Tally(Clients, g) \in Nat /\ Tally(Clients, f) \in Nat
  <1>1. \A d \in Clients : f[d] \in Nat /\ g[d] \in Nat
    OBVIOUS
  <1>2. IsFiniteSet(Clients)
    BY AdmissionAssumption
  <1>3. Tally(Clients, g) = Tally(Clients, f) + g[c] - f[c]
    BY <1>1, <1>2, TallyChange
  <1> QED
    BY <1>1, <1>2, <1>3, TallyType

\* What lease l holds grows by d, which may be negative: so do its owner's holds.
LEMMA LeaseMoves ==
    ASSUME NEW q \in Quota, NEW h \in [Leases -> Nat], NEW P \in [Clients -> SUBSET Work], NEW H \in SUBSET Work,
           Counted(q, h, P, H), NEW l \in Leases, NEW d \in Int,
           NEW g \in [Leases -> Nat], g[l] = h[l] + d, \A k \in Leases \ {l} : g[k] = h[k],
           NEW r, Moved(q, r, Owner[l], d)
    PROVE  r \in Quota /\ Counted(r, g, P, H)
  <1> DEFINE o == Owner[l]
             n == q.held[o] + d
  <1>1. o \in Clients /\ l \in Of(o) /\ \A c \in Clients \ {o} : l \notin Of(c)
    BY AdmissionAssumption DEF Of
  <1>2. \A c \in Clients \ {o} : Tally(Of(c), g) = Tally(Of(c), h)
    <2> SUFFICES ASSUME NEW c \in Clients \ {o} PROVE Tally(Of(c), g) = Tally(Of(c), h)
      OBVIOUS
    <2>1. \A k \in Of(c) : h[k] = g[k]
      BY <1>1, OfFinite
    <2> QED
      BY <2>1, UnitsSame DEF Tally
  <1>3. /\ Tally(Of(o), g) = Tally(Of(o), h) + d
        /\ Tally(Of(o), g) \in Nat /\ Tally(Of(o), h) \in Nat
    <2>1. \A k \in Of(o) : h[k] \in Nat /\ g[k] \in Nat
      BY <1>1, OfFinite
    <2>2. \A k \in Of(o) \ {l} : g[k] = h[k]
      BY <1>1, OfFinite
    <2>3. Tally(Of(o), g) = Tally(Of(o), h) + g[l] - h[l]
      BY <1>1, <2>1, <2>2, OfFinite, TallyChange
    <2>4. Tally(Of(o), g) \in Nat /\ Tally(Of(o), h) \in Nat
      BY <1>1, <2>1, OfFinite, TallyType
    <2> QED
      BY <2>3, <2>4
  <1>4. Cardinality(P[o]) \in Nat /\ Cardinality(H) \in Nat
    BY <1>1, WorkNumbers
  <1>5. q.held[o] = Tally(Of(o), h) + Cardinality(P[o])
    BY <1>1 DEF Counted
  <1>6. n = Tally(Of(o), g) + Cardinality(P[o]) /\ n \in Nat
    BY <1>3, <1>4, <1>5
  <1>7. r.held[o] = n /\ r.used = q.used + d /\ q.held[o] \in Nat /\ q.used \in Nat /\ n = q.held[o] + d
    BY <1>1 DEF Moved, Quota
  <1> HIDE DEF n, o
  <1>8. /\ q.held \in [Clients -> Nat] /\ r.held \in [Clients -> Nat]
        /\ \A c \in Clients \ {o} : r.held[c] = q.held[c]
    BY <1>1, <1>6, <1>7 DEF Quota, Moved, o
  <1>9. /\ Tally(Clients, r.held) = Tally(Clients, q.held) + n - q.held[o]
        /\ Tally(Clients, r.held) \in Nat /\ Tally(Clients, q.held) \in Nat
    BY <1>1, <1>7, <1>8, UsedFollows
  <1>10. r.used = Tally(Clients, r.held) + Cardinality(H) /\ r.used \in Nat
    BY <1>4, <1>7, <1>9 DEF Counted
  <1>11. \A c \in Clients : r.held[c] = Tally(Of(c), g) + Cardinality(P[c])
    BY <1>2, <1>6, <1>7, <1>8 DEF Counted
  <1>12. r \in Quota
    BY <1>8, <1>10 DEF Quota, Moved
  <1> QED
    BY <1>10, <1>11, <1>12 DEF Counted

\* The work past the grants of client c becomes W.
LEMMA WorkMoves ==
    ASSUME NEW q \in Quota, NEW h \in [Leases -> Nat], NEW P \in [Clients -> SUBSET Work], NEW H \in SUBSET Work,
           Counted(q, h, P, H), NEW c \in Clients, NEW d \in Int,
           NEW Q \in [Clients -> SUBSET Work], \A b \in Clients \ {c} : Q[b] = P[b],
           Cardinality(Q[c]) = Cardinality(P[c]) + d,
           NEW r, Moved(q, r, c, d)
    PROVE  r \in Quota /\ Counted(r, h, Q, H)
  <1> DEFINE n == q.held[c] + d
  <1>1. Tally(Of(c), h) \in Nat
    <2>1. \A k \in Of(c) : h[k] \in Nat
      BY OfFinite
    <2> QED
      BY <2>1, OfFinite, TallyType
  <1>2. Cardinality(P[c]) \in Nat /\ Cardinality(Q[c]) \in Nat /\ Cardinality(H) \in Nat
    BY WorkNumbers
  <1>3. q.held[c] = Tally(Of(c), h) + Cardinality(P[c])
    BY DEF Counted
  <1>4. n = Tally(Of(c), h) + Cardinality(Q[c]) /\ n \in Nat
    BY <1>1, <1>2, <1>3
  <1>5. r.held[c] = n /\ r.used = q.used + d /\ q.held[c] \in Nat /\ q.used \in Nat /\ n = q.held[c] + d
    BY DEF Moved, Quota
  <1> HIDE DEF n
  <1>6. /\ q.held \in [Clients -> Nat] /\ r.held \in [Clients -> Nat]
        /\ \A b \in Clients \ {c} : r.held[b] = q.held[b]
    BY <1>4, <1>5 DEF Quota, Moved
  <1>7. /\ Tally(Clients, r.held) = Tally(Clients, q.held) + n - q.held[c]
        /\ Tally(Clients, r.held) \in Nat /\ Tally(Clients, q.held) \in Nat
    BY <1>5, <1>6, UsedFollows
  <1>8. r.used = Tally(Clients, r.held) + Cardinality(H) /\ r.used \in Nat
    BY <1>2, <1>5, <1>7 DEF Counted
  <1>9. \A b \in Clients : r.held[b] = Tally(Of(b), h) + Cardinality(Q[b])
    BY <1>4, <1>5, <1>6 DEF Counted
  <1>10. r \in Quota
    BY <1>6, <1>8 DEF Quota, Moved
  <1> QED
    BY <1>8, <1>9, <1>10 DEF Counted

\* The exempt work becomes J.
LEMMA ExemptMoves ==
    ASSUME NEW q \in Quota, NEW h \in [Leases -> Nat], NEW P \in [Clients -> SUBSET Work], NEW H \in SUBSET Work,
           Counted(q, h, P, H), NEW d \in Int, NEW J \in SUBSET Work, Cardinality(J) = Cardinality(H) + d,
           NEW r, Exempted(q, r, d)
    PROVE  r \in Quota /\ Counted(r, h, P, J)
  <1>1. Cardinality(J) \in Nat /\ Cardinality(H) \in Nat
    BY WorkNumbers
  <1>2. q.held \in [Clients -> Nat] /\ q.used \in Nat
    BY DEF Quota
  <1>3. Tally(Clients, q.held) \in Nat
    <2>1. \A c \in Clients : q.held[c] \in Nat
      BY <1>2
    <2> QED
      BY <2>1, TallyType, AdmissionAssumption
  <1>4. r.used = Tally(Clients, r.held) + Cardinality(J) /\ r.held = q.held /\ r.used \in Nat
    BY <1>1, <1>2, <1>3 DEF Counted, Exempted
  <1>5. r \in Quota
    BY <1>2, <1>4 DEF Quota, Exempted
  <1> QED
    BY <1>4, <1>5 DEF Counted

(***************************************************************************)
(* The inductive invariant.  A slot's lease is the one whose owner it      *)
(* charges; a resize runs on a lease that has not ended and only it has    *)
(* taken holds; a lease is counted unused from a moment since which it had *)
(* no live work.                                                           *)
(***************************************************************************)
Lease == [st : {"None", "Live", "Cancelled", "Ended"}, grant : Counts, used : Counts, holds : Counts,
          live : Nat, since : {"None", "Recent", "Old"}]
Size == [grant : Counts, raised : Counts, new : BOOLEAN, on : BOOLEAN]
Slot == [pc : {"Free", "Found", "Live", "Past", "Linked"}, lease : Leases \cup {NoLease}, client : Clients,
         session : BOOLEAN, granted : BOOLEAN]

Types ==
    /\ leases \in [Leases -> Lease] /\ sizing \in [Leases -> Size] /\ slots \in [Work -> Slot]
    /\ watch \in [Leases -> {"Off", "Top", "Armed", "Wait", "Sleep", "Slept", "Due", "Done"}]
    /\ aged \in [Leases -> BOOLEAN]

SlotSound(slot) ==
    /\ slot.pc \in {"Found", "Live"} => slot.lease \in Leases /\ slot.client = Owner[slot.lease]
    /\ slot.granted => slot.pc = "Live"
    /\ slot.pc = "Linked" => slot.session

\* What l's record, its resize and its task agree on.
LeaseSound(lease, size, at, old) ==
    /\ lease.holds = Wanted(lease.grant, lease.used)
    /\ lease.st = "Ended" => lease.grant = Zero
    /\ size.on => lease.st \in (IF size.new THEN {"None"} ELSE {"Live", "Cancelled"})
    /\ ~size.on => size.raised = Zero
    /\ lease.st = "None" => at = "Off" /\ lease.since = "None"
    /\ lease.since # "None" => lease.live = 0
    /\ lease.since = "Old" => old

\* What l's record counts of the work that presents it.
WorkCounted(l, lease) ==
    /\ lease.used.m = Cardinality(GrantedOf(l))
    /\ lease.used.s = Cardinality({w \in GrantedOf(l) : slots[w].session})
    /\ lease.live = Cardinality(LiveOf(l))

LeaseInv ==
    /\ Types
    /\ \A w \in Work : SlotSound(slots[w])
    /\ \A l \in Leases : LeaseSound(leases[l], sizing[l], watch[l], aged[l]) /\ WorkCounted(l, leases[l])

PastOf(session) == [c \in Clients |-> PastHolds(c, session)]

QuotaInv ==
    /\ ops \in Quota /\ Counted(ops, Measurements, PastOf(FALSE), Handlers)
    /\ sess \in Quota /\ Counted(sess, Sessions, PastOf(TRUE), {})
    /\ Within(ops, Total.m, Share.m) /\ Within(sess, Total.s, Share.s)

(***************************************************************************)
(* A set of work loses or gains one request.                               *)
(***************************************************************************)
One(b) == IF b THEN 1 ELSE 0

LEMMA Sums == \A n, i \in Int : n = n + 0 - 0 /\ n - i = n + 0 - i /\ n + i = n + i - 0
  OBVIOUS

LEMMA OneMoves ==
    ASSUME NEW A \in SUBSET Work, NEW B \in SUBSET Work, NEW w \in Work,
           \A v \in Work \ {w} : v \in A <=> v \in B
    PROVE  Cardinality(B) = Cardinality(A) + One(w \in B) - One(w \in A) /\ Cardinality(A) >= One(w \in A)
  <1> DEFINE C == A \ {w}
  <1>1. C = B \ {w} /\ C \in SUBSET Work /\ w \notin C
    OBVIOUS
  <1>2. IsFiniteSet(C) /\ Cardinality(C) \in Nat
    BY <1>1, WorkNumbers
  <1>3. (w \in A => A = C \cup {w}) /\ (w \notin A => A = C)
    OBVIOUS
  <1>4. (w \in B => B = C \cup {w}) /\ (w \notin B => B = C)
    BY <1>1
  <1> HIDE DEF C
  <1>5. Cardinality(C \cup {w}) = Cardinality(C) + 1
    BY <1>1, <1>2, FS_AddElement, Zenon
  <1>6. Cardinality(A) = Cardinality(C) + One(w \in A)
    <2>1. CASE w \in A
      <3>1. Cardinality(A) = Cardinality(C \cup {w}) /\ One(w \in A) = 1
        BY <1>3, <2>1 DEF One
      <3> QED
        BY <1>5, <3>1
    <2>2. CASE w \notin A
      <3>1. Cardinality(A) = Cardinality(C) /\ One(w \in A) = 0
        BY <1>3, <2>2 DEF One
      <3> QED
        BY <1>2, <3>1
    <2> QED
      BY <2>1, <2>2
  <1>7. Cardinality(B) = Cardinality(C) + One(w \in B)
    <2>1. CASE w \in B
      <3>1. Cardinality(B) = Cardinality(C \cup {w}) /\ One(w \in B) = 1
        BY <1>4, <2>1 DEF One
      <3> QED
        BY <1>5, <3>1
    <2>2. CASE w \notin B
      <3>1. Cardinality(B) = Cardinality(C) /\ One(w \in B) = 0
        BY <1>4, <2>2 DEF One
      <3> QED
        BY <1>2, <3>1
    <2> QED
      BY <2>1, <2>2
  <1> QED
    BY <1>2, <1>6, <1>7 DEF One

LEMMA WorkSets ==
    /\ \A l \in Leases : LiveOf(l) \in SUBSET Work /\ GrantedOf(l) \in SUBSET Work
                         /\ {w \in GrantedOf(l) : slots[w].session} \in SUBSET Work
    /\ \A c \in Clients, session \in BOOLEAN : PastHolds(c, session) \in SUBSET Work
    /\ Handlers \in SUBSET Work
  BY DEF LiveOf, GrantedOf, PastHolds, Handlers

\* fit() lowers holds that cover what a lease needs to exactly that.
LEMMA Fitted ==
    ASSUME NEW h \in Counts, NEW g \in Counts, NEW u \in Counts,
           h.m >= Wanted(g, u).m, h.s >= Wanted(g, u).s
    PROVE  Fit(h, g, u) = Wanted(g, u) /\ Wanted(g, u) \in Counts
  BY DEF Fit, Wanted, Counts, Max, Min

\* fit() never raises a hold.
LEMMA FitLowers ==
    ASSUME NEW h \in Counts, NEW g \in Counts, NEW u \in Counts
    PROVE  /\ Fit(h, g, u).m \in Nat /\ Fit(h, g, u).m <= h.m /\ h.m \in Nat
           /\ Fit(h, g, u).s \in Nat /\ Fit(h, g, u).s <= h.s /\ h.s \in Nat
  BY SMTT(60) DEF Fit, Wanted, Min, Max, Counts

\* A step that moves no work keeps what the leases count of it.
LEMMA LeaseKeeps ==
    ASSUME LeaseInv, Types', slots' = slots,
           \A l \in Leases : /\ LeaseSound(leases'[l], sizing'[l], watch'[l], aged'[l])
                             /\ leases'[l].used = leases[l].used /\ leases'[l].live = leases[l].live
    PROVE  LeaseInv'
  <1>1. \A w \in Work : SlotSound(slots'[w])
    BY DEF LeaseInv
  <1>2. \A l \in Leases : LiveOf(l)' = LiveOf(l) /\ GrantedOf(l)' = GrantedOf(l)
    BY DEF LiveOf, GrantedOf
  <1>3. \A l \in Leases : WorkCounted(l, leases[l])'
    BY <1>2 DEF LeaseInv, WorkCounted
  <1> QED
    BY <1>1, <1>3 DEF LeaseInv

LEMMA CreateKeeps ==
    ASSUME LeaseInv, NEW l \in Leases, NEW asked \in Asked, Create(l, asked)
    PROVE  LeaseInv'
  <1>1. Clamped(asked) \in Counts /\ Zero \in Counts
    BY AdmissionAssumption DEF Clamped, Min, Counts, Zero
  <1>2. Types'
    BY <1>1 DEF LeaseInv, Types, Create, Size
  <1>3. \A k \in Leases : LeaseSound(leases'[k], sizing'[k], watch'[k], aged'[k])
    BY DEF LeaseInv, Types, Create, Size, LeaseSound
  <1> QED
    BY <1>2, <1>3, LeaseKeeps, Zenon DEF Create

LEMMA ResizeKeeps ==
    ASSUME LeaseInv, NEW l \in Leases, NEW asked \in Asked, Resize(l, asked)
    PROVE  LeaseInv'
  <1>1. Clamped(asked) \in Counts /\ Zero \in Counts
    BY AdmissionAssumption DEF Clamped, Min, Counts, Zero
  <1>2. Types'
    BY <1>1 DEF LeaseInv, Types, Resize, Size
  <1>3. \A k \in Leases : LeaseSound(leases'[k], sizing'[k], watch'[k], aged'[k])
    BY DEF LeaseInv, Types, Resize, Size, LeaseSound
  <1> QED
    BY <1>2, <1>3, LeaseKeeps, Zenon DEF Resize

LEMMA RaiseKeeps ==
    ASSUME LeaseInv, NEW l \in Leases, Raise(l)
    PROVE  LeaseInv'
  <1>1. PICK more \in Counts : Took(l, more)
    BY DEF Raise, Counts
  <1>2. Plus(sizing[l].raised, more) \in Counts
    BY DEF LeaseInv, Types, Size, Counts, Plus
  <1>3. Types'
    BY <1>1, <1>2, SMTT(60) DEF LeaseInv, Types, Raise, Took, Size
  <1>4. \A k \in Leases : LeaseSound(leases'[k], sizing'[k], watch'[k], aged'[k])
    BY <1>1 DEF LeaseInv, Types, Raise, Took, Size, LeaseSound
  <1> QED
    BY <1>3, <1>4, LeaseKeeps DEF Raise

LEMMA RefuseKeeps ==
    ASSUME LeaseInv, NEW l \in Leases, Refuse(l)
    PROVE  LeaseInv'
  <1>1. Types'
    BY SMTT(60) DEF LeaseInv, Types, Refuse, Size, Idle, Zero, Counts
  <1>2. \A k \in Leases : LeaseSound(leases'[k], sizing'[k], watch'[k], aged'[k])
    BY DEF LeaseInv, Types, Refuse, Size, Idle, LeaseSound
  <1> QED
    BY <1>1, <1>2, LeaseKeeps DEF Refuse

LEMMA ResizedKeeps ==
    ASSUME LeaseInv, NEW l \in Leases, Resized(l)
    PROVE  LeaseInv'
  <1> DEFINE g == sizing[l].grant
             u == leases[l].used
             h == Plus(leases[l].holds, sizing[l].raised)
  <1>1. /\ leases[l] \in Lease /\ sizing[l] \in Size
        /\ h \in Counts /\ g \in Counts /\ u \in Counts
    BY DEF LeaseInv, Types, Lease, Size, Counts, Plus
  <1>2. h.m >= Wanted(g, u).m /\ h.s >= Wanted(g, u).s
    BY <1>1 DEF Resized, Lacks, Wanted, Counts, Plus, Max, Lease, Size
  <1>3. Fit(h, g, u) = Wanted(g, u) /\ Wanted(g, u) \in Counts
    BY <1>1, <1>2, Fitted, SMTT(60)
  <1>4. leases' = [leases EXCEPT ![l] = [leases[l] EXCEPT !.grant = g, !.holds = Wanted(g, u),
                                             !.st = IF sizing[l].new THEN "Live" ELSE leases[l].st]]
    BY <1>1, <1>3, Zenon DEF Resized, Refit, Lease
  <1> HIDE DEF g, h, u
  <1>5. Types'
    BY <1>1, <1>3, <1>4, Zenon DEF LeaseInv, Types, Resized, Lease, Size, Idle, Zero, Counts
  <1>6. LeaseSound(leases'[l], sizing'[l], watch'[l], aged'[l])
    BY <1>1, <1>4 DEF LeaseInv, Types, Resized, Lease, Idle, LeaseSound, u
  <1>7. \A k \in Leases \ {l} : LeaseSound(leases'[k], sizing'[k], watch'[k], aged'[k])
    BY <1>4 DEF LeaseInv, Types, Resized
  <1>8. \A k \in Leases : leases'[k].used = leases[k].used /\ leases'[k].live = leases[k].live
    BY <1>1, <1>4 DEF LeaseInv, Types, Lease
  <1> QED
    BY <1>5, <1>6, <1>7, <1>8, LeaseKeeps, SMTT(60) DEF Resized

LEMMA CancelKeeps ==
    ASSUME LeaseInv, NEW l \in Leases, Cancel(l)
    PROVE  LeaseInv'
  <1>1. Types'
    BY DEF LeaseInv, Types, Cancel, Lease
  <1>2. \A k \in Leases : LeaseSound(leases'[k], sizing'[k], watch'[k], aged'[k])
    BY DEF LeaseInv, Types, Cancel, Lease, LeaseSound
  <1>3. \A k \in Leases : leases'[k].used = leases[k].used /\ leases'[k].live = leases[k].live
    BY DEF LeaseInv, Types, Cancel, Lease
  <1> QED
    BY <1>1, <1>2, <1>3, LeaseKeeps DEF Cancel

LEMMA EndKeeps ==
    ASSUME LeaseInv, NEW l \in Leases, End(l)
    PROVE  LeaseInv'
  <1> DEFINE u == leases[l].used
             h == leases[l].holds
  <1>1. leases[l] \in Lease /\ h \in Counts /\ Zero \in Counts /\ u \in Counts
    BY DEF LeaseInv, Types, Lease, Counts, Zero
  <1>2. h.m >= Wanted(Zero, u).m /\ h.s >= Wanted(Zero, u).s
    <2>1. h = Wanted(leases[l].grant, u) /\ leases[l].grant \in Counts
      BY <1>1 DEF LeaseInv, LeaseSound, Lease
    <2> QED
      BY <1>1, <2>1 DEF Wanted, Counts, Max, Zero
  <1>3. Fit(h, Zero, u) = Wanted(Zero, u) /\ Wanted(Zero, u) \in Counts
    BY <1>1, <1>2, Fitted
  <1>4. leases' = [leases EXCEPT ![l] = [leases[l] EXCEPT !.st = "Ended", !.grant = Zero, !.holds = Wanted(Zero, u)]]
    BY <1>1, <1>3, Zenon DEF End, Refit, Lease
  <1> HIDE DEF h, u
  <1>5. Types'
    BY <1>1, <1>3, <1>4, Zenon DEF LeaseInv, Types, End, Lease
  <1>6. \A k \in Leases : LeaseSound(leases'[k], sizing'[k], watch'[k], aged'[k])
    BY <1>1, <1>4 DEF LeaseInv, Types, End, Unlocked, Lease, LeaseSound, u
  <1>7. \A k \in Leases : leases'[k].used = leases[k].used /\ leases'[k].live = leases[k].live
    BY <1>1, <1>4 DEF LeaseInv, Types, Lease
  <1> QED
    BY <1>5, <1>6, <1>7, LeaseKeeps DEF End

LEMMA TaskKeeps ==
    ASSUME LeaseInv, NEW l \in Leases, Arm(l) \/ Check(l) \/ Wake(l)
    PROVE  LeaseInv'
  <1>1. CASE Arm(l)
    <2>1. Types' /\ \A k \in Leases : LeaseSound(leases'[k], sizing'[k], watch'[k], aged'[k])
      BY <1>1 DEF LeaseInv, Types, Arm, LeaseSound
    <2> QED
      BY <1>1, <2>1, LeaseKeeps, SMTT(60) DEF Arm
  <1>2. CASE Check(l)
    <2>1. Types'
      <3>1. leases' \in [Leases -> Lease]
        BY <1>2, SMTT(60) DEF LeaseInv, Types, Check, Lease
      <3>2. watch' \in [Leases -> {"Off", "Top", "Armed", "Wait", "Sleep", "Slept", "Due", "Done"}]
        BY <1>2, SMTT(60) DEF LeaseInv, Types, Check
      <3> QED
        BY <1>2, <3>1, <3>2, Zenon DEF LeaseInv, Types, Check
    <2>2. \A k \in Leases : LeaseSound(leases'[k], sizing'[k], watch'[k], aged'[k])
      BY <1>2 DEF LeaseInv, Types, Check, Lease, LeaseSound
    <2>3. \A k \in Leases : leases'[k].used = leases[k].used /\ leases'[k].live = leases[k].live
      BY <1>2 DEF LeaseInv, Types, Check, Lease
    <2> QED
      BY <1>2, <2>1, <2>2, <2>3, LeaseKeeps DEF Check
  <1>3. CASE Wake(l)
    <2>1. Types' /\ \A k \in Leases : LeaseSound(leases'[k], sizing'[k], watch'[k], aged'[k])
      BY <1>3 DEF LeaseInv, Types, Wake, LeaseSound
    <2> QED
      BY <1>3, <2>1, LeaseKeeps DEF Wake
  <1> QED
    BY <1>1, <1>2, <1>3

LEMMA TickKeeps == ASSUME LeaseInv, Tick PROVE LeaseInv'
  <1>1. Types'
    <2>1. leases' \in [Leases -> Lease]
      <3>1. ASSUME NEW k \in Leases
            PROVE  [leases[k] EXCEPT !.since = IF leases[k].since = "Recent" THEN "Old" ELSE leases[k].since] \in Lease
        <4>1. leases[k] \in Lease
          BY Zenon DEF LeaseInv, Types
        <4> QED
          BY <4>1 DEF Lease
      <3> QED
        BY <3>1, Zenon DEF Tick
    <2>2. /\ watch' \in [Leases -> {"Off", "Top", "Armed", "Wait", "Sleep", "Slept", "Due", "Done"}]
          /\ aged' \in [Leases -> BOOLEAN]
      BY SMTT(60) DEF LeaseInv, Types, Tick
    <2> QED
      BY <2>1, <2>2, Zenon DEF LeaseInv, Types, Tick
  <1>2. \A k \in Leases : LeaseSound(leases'[k], sizing'[k], watch'[k], aged'[k])
    <2> SUFFICES ASSUME NEW k \in Leases PROVE LeaseSound(leases'[k], sizing'[k], watch'[k], aged'[k])
      OBVIOUS
    <2>1. leases[k] \in Lease /\ LeaseSound(leases[k], sizing[k], watch[k], aged[k])
      BY DEF LeaseInv, Types
    <2>2. /\ leases'[k] = [leases[k] EXCEPT !.since = IF leases[k].since = "Recent" THEN "Old" ELSE leases[k].since]
          /\ watch'[k] = (IF watch[k] = "Sleep" THEN "Slept" ELSE watch[k])
          /\ aged'[k] = (leases[k].live = 0) /\ sizing'[k] = sizing[k]
      BY DEF Tick
    <2> QED
      BY <2>1, <2>2, Zenon DEF Lease, LeaseSound
  <1>3. \A k \in Leases : leases'[k].used = leases[k].used /\ leases'[k].live = leases[k].live
    BY DEF LeaseInv, Types, Tick, Lease
  <1> QED
    BY <1>1, <1>2, <1>3, LeaseKeeps DEF Tick

(***************************************************************************)
(* A step that moves one request w: what w adds to the counts of a lease,  *)
(* before and after the step.                                              *)
(***************************************************************************)
LiveAt(slot, l) == slot.lease = l /\ slot.pc = "Live"
GrantedAt(slot, l) == LiveAt(slot, l) /\ slot.granted

LEMMA WorkKeeps ==
    ASSUME LeaseInv, Types', NEW w \in Work, \A v \in Work \ {w} : slots'[v] = slots[v], SlotSound(slots'[w]),
           \A l \in Leases :
               /\ LeaseSound(leases'[l], sizing'[l], watch'[l], aged'[l])
               /\ leases'[l].used.m = leases[l].used.m + One(GrantedAt(slots'[w], l)) - One(GrantedAt(slots[w], l))
               /\ leases'[l].used.s = leases[l].used.s + One(GrantedAt(slots'[w], l) /\ slots'[w].session)
                                                        - One(GrantedAt(slots[w], l) /\ slots[w].session)
               /\ leases'[l].live = leases[l].live + One(LiveAt(slots'[w], l)) - One(LiveAt(slots[w], l))
    PROVE  LeaseInv'
  <1>1. \A v \in Work : SlotSound(slots'[v])
    BY DEF LeaseInv
  <1>2. ASSUME NEW l \in Leases PROVE WorkCounted(l, leases[l])'
    <2> DEFINE A == {v \in GrantedOf(l) : slots[v].session}
               B == {v \in GrantedOf(l)' : slots'[v].session}
    <2>1. LiveOf(l) \in SUBSET Work /\ GrantedOf(l) \in SUBSET Work /\ A \in SUBSET Work
      BY Zenon DEF LiveOf, GrantedOf
    <2>2. LiveOf(l)' \in SUBSET Work /\ GrantedOf(l)' \in SUBSET Work /\ B \in SUBSET Work
      BY SMTT(60) DEF LiveOf, GrantedOf
    <2>3. \A v \in Work \ {w} : /\ v \in LiveOf(l) <=> v \in LiveOf(l)'
                                /\ v \in GrantedOf(l) <=> v \in GrantedOf(l)'
                                /\ v \in A <=> v \in B
      BY Zenon DEF LiveOf, GrantedOf
    <2>4. /\ w \in LiveOf(l) <=> LiveAt(slots[w], l)
          /\ w \in GrantedOf(l) <=> GrantedAt(slots[w], l)
          /\ w \in A <=> GrantedAt(slots[w], l) /\ slots[w].session
      BY Zenon DEF LiveOf, GrantedOf, LiveAt, GrantedAt
    <2>5. /\ w \in LiveOf(l)' <=> LiveAt(slots'[w], l)
          /\ w \in GrantedOf(l)' <=> GrantedAt(slots'[w], l)
          /\ w \in B <=> GrantedAt(slots'[w], l) /\ slots'[w].session
      BY Zenon DEF LiveOf, GrantedOf, LiveAt, GrantedAt
    <2>6. /\ leases[l].used.m = Cardinality(GrantedOf(l))
          /\ leases[l].used.s = Cardinality(A)
          /\ leases[l].live = Cardinality(LiveOf(l))
      BY Zenon DEF LeaseInv, WorkCounted
    <2> HIDE DEF A, B
    <2>7. leases'[l].live = Cardinality(LiveOf(l)')
      BY <2>1, <2>2, <2>3, <2>4, <2>5, <2>6, OneMoves DEF One
    <2>8. leases'[l].used.m = Cardinality(GrantedOf(l)')
      BY <2>1, <2>2, <2>3, <2>4, <2>5, <2>6, OneMoves, SMTT(60) DEF One
    <2>9. leases'[l].used.s = Cardinality(B)
      BY <2>1, <2>2, <2>3, <2>4, <2>5, <2>6, OneMoves, SMTT(60) DEF One
    <2> QED
      BY <2>7, <2>8, <2>9, SMTT(60) DEF WorkCounted, B
  <1> QED
    BY <1>1, <1>2, SMTT(60) DEF LeaseInv

LEMMA ApartKeeps ==
    ASSUME LeaseInv, NEW w \in Work, NEW slot \in Slot, SlotSound(slot), slot.pc # "Live", slots[w].pc # "Live",
           slots' = [slots EXCEPT ![w] = slot], UNCHANGED <<leases, sizing, watch, aged>>
    PROVE  LeaseInv'
  <1>1. Types' /\ slots'[w] = slot /\ \A v \in Work \ {w} : slots'[v] = slots[v]
    BY DEF LeaseInv, Types
  <1>2. \A l \in Leases : ~LiveAt(slots'[w], l) /\ ~GrantedAt(slots'[w], l) /\ ~LiveAt(slots[w], l) /\ ~GrantedAt(slots[w], l)
    BY <1>1, SMTT(60) DEF LiveAt, GrantedAt
  <1>3. ASSUME NEW l \in Leases
        PROVE  /\ LeaseSound(leases'[l], sizing'[l], watch'[l], aged'[l])
               /\ leases'[l].used.m = leases[l].used.m + One(GrantedAt(slots'[w], l)) - One(GrantedAt(slots[w], l))
               /\ leases'[l].used.s = leases[l].used.s + One(GrantedAt(slots'[w], l) /\ slots'[w].session)
                                                        - One(GrantedAt(slots[w], l) /\ slots[w].session)
               /\ leases'[l].live = leases[l].live + One(LiveAt(slots'[w], l)) - One(LiveAt(slots[w], l))
    <2>1. leases[l].used.m \in Nat /\ leases[l].used.s \in Nat /\ leases[l].live \in Nat
      BY DEF LeaseInv, Types, Lease, Counts
    <2> QED
      BY <1>2, <2>1 DEF One, LeaseInv
  <1> QED
    BY <1>1, <1>3, WorkKeeps

LEMMA FreeSlot == Free \in Slot /\ SlotSound(Free) /\ Free.pc = "Free"
  <1>1. (CHOOSE c \in Clients : TRUE) \in Clients
    BY AdmissionAssumption
  <1> QED
    BY <1>1 DEF Free, Slot, SlotSound

LEMMA SlotTypes ==
    ASSUME LeaseInv, NEW w \in Work
    PROVE  /\ slots[w] \in Slot /\ SlotSound(slots[w])
           /\ slots[w].client \in Clients /\ slots[w].session \in BOOLEAN /\ slots[w].granted \in BOOLEAN
           /\ slots[w].pc \in {"Found", "Live"} => slots[w].lease \in Leases
  BY DEF LeaseInv, Types, Slot, SlotSound

LEMMA ApartActionsKeep ==
    ASSUME LeaseInv, NEW w \in Work, NEW session \in BOOLEAN,
           \/ \E l \in Leases : Find(w, l, session)
           \/ \E c \in Clients : AdmitUnleased(w, c, session)
           \/ RefuseWork(w) \/ Release(w) \/ ReleaseLinked(w)
    PROVE  LeaseInv'
  <1>1. CASE \E l \in Leases : Find(w, l, session)
    <2>1. PICK l \in Leases : Find(w, l, session)
      BY <1>1
    <2> DEFINE slot == [pc |-> "Found", lease |-> l, client |-> Owner[l], session |-> session, granted |-> FALSE]
    <2>2. slot \in Slot /\ SlotSound(slot) /\ slot.pc # "Live"
      BY AdmissionAssumption DEF Slot, SlotSound
    <2>3. slots' = [slots EXCEPT ![w] = slot] /\ slots[w].pc # "Live" /\ UNCHANGED <<leases, sizing, watch, aged>>
      BY <2>1 DEF Find
    <2> HIDE DEF slot
    <2> QED
      BY <2>2, <2>3, ApartKeeps, Zenon
  <1>2. CASE \E c \in Clients : AdmitUnleased(w, c, session)
    <2>1. PICK c \in Clients : AdmitUnleased(w, c, session)
      BY <1>2
    <2> DEFINE slot == [pc |-> "Past", lease |-> NoLease, client |-> c, session |-> session, granted |-> FALSE]
    <2>2. slot \in Slot /\ SlotSound(slot) /\ slot.pc # "Live"
      BY DEF Slot, SlotSound
    <2>3. slots' = [slots EXCEPT ![w] = slot] /\ slots[w].pc # "Live" /\ UNCHANGED <<leases, sizing, watch, aged>>
      BY <2>1 DEF AdmitUnleased
    <2> HIDE DEF slot
    <2> QED
      BY <2>2, <2>3, ApartKeeps, Zenon
  <1>3. CASE RefuseWork(w) \/ ReleaseLinked(w)
    <2>1. slots' = [slots EXCEPT ![w] = Free] /\ slots[w].pc # "Live" /\ UNCHANGED <<leases, sizing, watch, aged>>
      BY <1>3 DEF RefuseWork, ReleaseLinked
    <2> QED
      BY <2>1, FreeSlot, ApartKeeps, Zenon
  <1>4. CASE Release(w)
    <2> DEFINE slot == IF slots[w].session THEN [slots[w] EXCEPT !.pc = "Linked"] ELSE Free
    <2>1. slot \in Slot /\ SlotSound(slot) /\ slot.pc # "Live"
      BY <1>4, FreeSlot, SlotTypes DEF Slot, SlotSound, Release
    <2>2. slots' = [slots EXCEPT ![w] = slot] /\ slots[w].pc # "Live" /\ UNCHANGED <<leases, sizing, watch, aged>>
      BY <1>4 DEF Release
    <2> HIDE DEF slot
    <2> QED
      BY <2>1, <2>2, ApartKeeps, Zenon
  <1> QED
    BY <1>1, <1>2, <1>3, <1>4, SMTT(60)

LEMMA Bits == 0 \in Nat /\ 1 \in Nat /\ 0 \in Int /\ 1 \in Int
  OBVIOUS

\* Nothing added or taken leaves a number; what is taken away lowers it.
LEMMA Stays == ASSUME NEW n \in Nat PROVE n = n + 0 - 0
  OBVIOUS

LEMMA Grows == ASSUME NEW n \in Nat, NEW d \in Nat PROVE n + d = n + d - 0
  OBVIOUS

LEMMA Lowers == ASSUME NEW a \in Nat, NEW b \in Nat, NEW c \in Nat, a = b - c PROVE a <= b
  OBVIOUS

LEMMA UsesType ==
    ASSUME NEW granted \in BOOLEAN, NEW session \in BOOLEAN
    PROVE  /\ Uses(granted, session) \in Counts
           /\ Uses(granted, session).m = One(granted) /\ Uses(granted, session).s = One(granted /\ session)
  BY DEF Uses, Counts, One

LEMMA AdmittedLease ==
    ASSUME NEW lease \in Lease, NEW granted \in BOOLEAN, NEW session \in BOOLEAN, NEW next,
           next = Admitted(lease, granted, session)
    PROVE  /\ next \in Lease
           /\ next.used.m = lease.used.m + One(granted) /\ next.used.s = lease.used.s + One(granted /\ session)
           /\ next.live = lease.live + 1 /\ next.since = "None"
           /\ next.grant = lease.grant /\ next.holds = lease.holds /\ next.st = lease.st
  <1> DEFINE more == Uses(granted, session)
             used == Plus(lease.used, more)
  <1>1. more \in Counts /\ more.m = One(granted) /\ more.s = One(granted /\ session)
    BY UsesType
  <1>2. next = [lease EXCEPT !.used = used, !.live = lease.live + 1, !.since = "None"]
    BY DEF Admitted
  <1> HIDE DEF more
  <1>3. used \in Counts /\ used.m = lease.used.m + One(granted) /\ used.s = lease.used.s + One(granted /\ session)
    BY <1>1 DEF Plus, Counts, Lease
  <1> HIDE DEF used
  <1>4. lease.live \in Nat /\ lease.live + 1 \in Nat
    BY DEF Lease
  <1>5. /\ next \in Lease /\ next.used = used /\ next.live = lease.live + 1 /\ next.since = "None"
        /\ next.grant = lease.grant /\ next.holds = lease.holds /\ next.st = lease.st
    BY <1>2, <1>3, <1>4, Zenon DEF Lease
  <1> QED
    BY <1>3, <1>5

LEMMA AdmitKeeps == ASSUME LeaseInv, NEW w \in Work, Admit(w) PROVE LeaseInv'
  <1> DEFINE l == slots[w].lease
             session == slots[w].session
             granted == Granted(l, session)
             lease == Admitted(leases[l], granted, session)
  <1>1. l \in Leases /\ leases[l] \in Lease /\ slots[w] \in Slot /\ session \in BOOLEAN /\ granted \in BOOLEAN
    BY SlotTypes DEF Admit, LeaseInv, Types, Granted
  <1>0. lease = Admitted(leases[l], granted, session)
    BY Zenon
  <1>2. /\ lease \in Lease /\ lease.used.m = leases[l].used.m + One(granted)
        /\ lease.used.s = leases[l].used.s + One(granted /\ session) /\ lease.live = leases[l].live + 1
        /\ lease.grant = leases[l].grant /\ lease.holds = leases[l].holds /\ lease.st = leases[l].st
        /\ lease.since = "None"
    <2> HIDE DEF lease, granted, session, l
    <2>1. lease.used.m = leases[l].used.m + One(granted) /\ lease.used.s = leases[l].used.s + One(granted /\ session)
      BY <1>0, <1>1, AdmittedLease, SMTT(60)
    <2>2. /\ lease \in Lease /\ lease.live = leases[l].live + 1 /\ lease.since = "None"
          /\ lease.grant = leases[l].grant /\ lease.holds = leases[l].holds /\ lease.st = leases[l].st
      BY <1>0, <1>1, AdmittedLease, SMTT(60)
    <2> QED
      BY <2>1, <2>2, Zenon
  <1>3. /\ leases' = [leases EXCEPT ![l] = lease] /\ aged' = [aged EXCEPT ![l] = FALSE]
        /\ slots' = [slots EXCEPT ![w] = [slots[w] EXCEPT !.pc = "Live", !.granted = granted]]
        /\ UNCHANGED <<sizing, watch>> /\ slots[w].pc = "Found"
    BY SMTT(60) DEF Admit
  <1>4. LeaseSound(lease, sizing[l], watch[l], FALSE)
    <2>1. LeaseSound(leases[l], sizing[l], watch[l], aged[l])
      BY <1>1, SMTT(60) DEF LeaseInv
    <2>3. Wanted(lease.grant, lease.used) = Wanted(leases[l].grant, leases[l].used)
      <3>1. /\ leases[l].grant.m \in Nat /\ leases[l].grant.s \in Nat
            /\ leases[l].used.m \in Nat /\ leases[l].used.s \in Nat
        BY <1>1, Zenon DEF Lease, Counts
      <3>2. CASE granted
        <4>1. leases[l].used.m < leases[l].grant.m /\ (session => leases[l].used.s < leases[l].grant.s)
          BY <3>2 DEF Granted
        <4>2. One(granted) = 1 /\ One(granted /\ session) \in {0, 1} /\ (One(granted /\ session) = 1 => session)
          BY <3>2, SMTT(60) DEF One
        <4> HIDE DEF lease, granted, session, l
        <4> QED
          BY <1>2, <3>1, <4>1, <4>2, SMTT(60) DEF Wanted, Max
      <3>3. CASE ~granted
        <4>1. One(granted) = 0 /\ One(granted /\ session) = 0
          BY <3>3 DEF One
        <4> HIDE DEF lease, granted, session, l
        <4> QED
          <5>1. lease.used.m = leases[l].used.m + 0 /\ lease.used.s = leases[l].used.s + 0
            BY <1>2, <4>1, Zenon
          <5>2. lease.used.m = leases[l].used.m /\ lease.used.s = leases[l].used.s
            BY <3>1, <5>1
          <5> QED
            BY <1>2, <5>2, Zenon DEF Wanted
      <3> QED
        BY <3>2, <3>3, Zenon
    <2> QED
      BY <1>2, <2>1, <2>3, Zenon DEF LeaseSound
  <1>5. Types'
    BY <1>1, <1>2, <1>3, Zenon DEF LeaseInv, Types, Slot
  <1>6. SlotSound(slots'[w]) /\ \A v \in Work \ {w} : slots'[v] = slots[v]
    BY <1>1, <1>3, SlotTypes DEF SlotSound, Slot, LeaseInv, Types
  <1>7. ASSUME NEW k \in Leases
        PROVE  /\ LeaseSound(leases'[k], sizing'[k], watch'[k], aged'[k])
               /\ leases'[k].used.m = leases[k].used.m + One(GrantedAt(slots'[w], k)) - One(GrantedAt(slots[w], k))
               /\ leases'[k].used.s = leases[k].used.s + One(GrantedAt(slots'[w], k) /\ slots'[w].session)
                                                        - One(GrantedAt(slots[w], k) /\ slots[w].session)
               /\ leases'[k].live = leases[k].live + One(LiveAt(slots'[w], k)) - One(LiveAt(slots[w], k))
    <2>1. /\ leases[k].used.m \in Nat /\ leases[k].used.s \in Nat /\ leases[k].live \in Nat
          /\ LeaseSound(leases[k], sizing[k], watch[k], aged[k])
      BY DEF LeaseInv, Types, Lease, Counts
    <2>2. /\ One(LiveAt(slots[w], k)) = 0 /\ One(GrantedAt(slots[w], k)) = 0
          /\ One(GrantedAt(slots[w], k) /\ slots[w].session) = 0
      BY <1>3, SMTT(60) DEF LiveAt, GrantedAt, One
    <2>3. CASE k = l
      <3>1. /\ lease.used.m = leases[l].used.m + One(granted)
            /\ lease.used.s = leases[l].used.s + One(granted /\ session) /\ lease.live = leases[l].live + 1
        BY <1>2, Zenon
      <3>2. /\ leases'[k] = lease /\ sizing'[k] = sizing[l] /\ watch'[k] = watch[l] /\ aged'[k] = FALSE
        BY <1>1, <1>3, <2>3 DEF LeaseInv, Types
      <3>3. /\ LiveAt(slots'[w], k) /\ GrantedAt(slots'[w], k) = granted
            /\ (GrantedAt(slots'[w], k) /\ slots'[w].session) = (granted /\ session)
        BY <1>1, <1>3, <2>3 DEF LiveAt, GrantedAt, LeaseInv, Types, Slot
      <3>4. /\ One(LiveAt(slots'[w], k)) = 1 /\ One(GrantedAt(slots'[w], k)) = One(granted)
            /\ One(GrantedAt(slots'[w], k) /\ slots'[w].session) = One(granted /\ session)
        BY <3>3 DEF One
      <3>5. One(granted) \in Nat /\ One(granted /\ session) \in Nat
        BY DEF One
      <3> HIDE DEF lease, granted, session, l
      <3>6. LeaseSound(leases'[k], sizing'[k], watch'[k], aged'[k])
        BY <1>4, <3>2, Zenon
      <3>7. leases[l] = leases[k]
        BY <2>3
      <3> QED
        <4>1. /\ leases[k].used.m + One(granted) = leases[k].used.m + One(granted) - 0
              /\ leases[k].used.s + One(granted /\ session) = leases[k].used.s + One(granted /\ session) - 0
              /\ leases[k].live + 1 = leases[k].live + 1 - 0
          <5>1. 1 \in Nat
            OBVIOUS
          <5> QED
            BY <2>1, <3>5, <5>1, Grows, Zenon
        <4> QED
          BY <2>2, <3>1, <3>2, <3>4, <3>6, <3>7, <4>1, Zenon
    <2>4. CASE k # l
      <3>1. leases'[k] = leases[k] /\ sizing'[k] = sizing[k] /\ watch'[k] = watch[k] /\ aged'[k] = aged[k]
        BY <1>3, <2>4 DEF LeaseInv, Types
      <3>2. ~LiveAt(slots'[w], k)
        BY <1>1, <1>3, <2>4 DEF LiveAt, LeaseInv, Types, Slot
      <3>3. /\ One(LiveAt(slots'[w], k)) = 0 /\ One(GrantedAt(slots'[w], k)) = 0
            /\ One(GrantedAt(slots'[w], k) /\ slots'[w].session) = 0
        BY <3>2 DEF GrantedAt, One
      <3> HIDE DEF lease, granted, session, l
      <3> QED
        BY <2>1, <2>2, <3>1, <3>3, Stays, Zenon
    <2> QED
      BY <2>3, <2>4, Zenon
  <1> QED
    BY <1>5, <1>6, <1>7, WorkKeeps

LEMMA DroppedLease ==
    ASSUME NEW lease \in Lease, NEW slot \in Slot, NEW next, next = Dropped(lease, slot),
           lease.used.m >= One(slot.granted), lease.used.s >= One(slot.granted /\ slot.session), lease.live > 0
    PROVE  /\ next \in Lease
           /\ next.used.m = lease.used.m - One(slot.granted)
           /\ next.used.s = lease.used.s - One(slot.granted /\ slot.session)
           /\ next.live = lease.live - 1 /\ next.since = lease.since
           /\ next.grant = lease.grant /\ next.holds = lease.holds /\ next.st = lease.st
  <1> DEFINE less == Uses(slot.granted, slot.session)
             used == Minus(lease.used, less)
  <1>1. less \in Counts /\ less.m = One(slot.granted) /\ less.s = One(slot.granted /\ slot.session)
    BY UsesType DEF Slot
  <1>2. next = [lease EXCEPT !.used = used, !.live = lease.live - 1]
    BY DEF Dropped
  <1> HIDE DEF less
  <1>3. /\ used \in Counts /\ used.m = lease.used.m - One(slot.granted)
        /\ used.s = lease.used.s - One(slot.granted /\ slot.session)
    BY <1>1 DEF Minus, Counts, Lease
  <1> HIDE DEF used
  <1>4. lease.live \in Nat /\ lease.live - 1 \in Nat
    BY DEF Lease
  <1>5. /\ next \in Lease /\ next.used = used /\ next.live = lease.live - 1 /\ next.since = lease.since
        /\ next.grant = lease.grant /\ next.holds = lease.holds /\ next.st = lease.st
    BY <1>2, <1>3, <1>4, ZenonT(60) DEF Lease
  <1> QED
    BY <1>3, <1>5, SMTT(60)

\* A live request is counted by its lease.
LEMMA LiveIsCounted ==
    ASSUME LeaseInv, NEW w \in Work, slots[w].pc = "Live", NEW l, l = slots[w].lease
    PROVE  /\ leases[l].live > 0 /\ leases[l].used.m >= One(slots[w].granted)
           /\ leases[l].used.s >= One(slots[w].granted /\ slots[w].session)
  <1> DEFINE A == {v \in GrantedOf(l) : slots[v].session}
  <1>1. l \in Leases
    BY SlotTypes
  <1>2. LiveOf(l) \in SUBSET Work /\ GrantedOf(l) \in SUBSET Work /\ A \in SUBSET Work
    BY DEF LiveOf, GrantedOf
  <1>3. w \in LiveOf(l) /\ (w \in GrantedOf(l)) = slots[w].granted
        /\ (w \in A) = (slots[w].granted /\ slots[w].session)
    BY SlotTypes DEF LiveOf, GrantedOf
  <1>4. /\ leases[l].used.m = Cardinality(GrantedOf(l)) /\ leases[l].used.s = Cardinality(A)
        /\ leases[l].live = Cardinality(LiveOf(l))
    BY <1>1 DEF LeaseInv, WorkCounted
  <1> HIDE DEF A
  <1>5. Cardinality(LiveOf(l)) >= One(w \in LiveOf(l)) /\ One(w \in LiveOf(l)) = 1
    BY <1>2, <1>3, OneMoves, SMTT(60) DEF One
  <1>6. Cardinality(GrantedOf(l)) >= One(w \in GrantedOf(l)) /\ Cardinality(A) >= One(w \in A)
    BY <1>2, OneMoves
  <1>7. Cardinality(LiveOf(l)) \in Nat
    BY <1>2, WorkNumbers, SMTT(60)
  <1> QED
    BY <1>3, <1>4, <1>5, <1>6, <1>7

\* The drop of a request keeps the holds that its lease still needs.
LEMMA DropFits ==
    ASSUME LeaseInv, NEW w \in Work, slots[w].pc = "Live", NEW l, l = slots[w].lease,
           NEW lease, lease = Dropped(leases[l], slots[w])
    PROVE  /\ l \in Leases /\ leases[l] \in Lease /\ lease \in Lease
           /\ lease.used.m = leases[l].used.m - One(slots[w].granted)
           /\ lease.used.s = leases[l].used.s - One(slots[w].granted /\ slots[w].session)
           /\ lease.live = leases[l].live - 1 /\ lease.since = leases[l].since
           /\ lease.grant = leases[l].grant /\ lease.holds = leases[l].holds /\ lease.st = leases[l].st
           /\ Fit(lease.holds, lease.grant, lease.used) = Wanted(lease.grant, lease.used)
           /\ Wanted(lease.grant, lease.used) \in Counts
  <1>1. l \in Leases /\ leases[l] \in Lease /\ slots[w] \in Slot
    BY SlotTypes, SMTT(60) DEF LeaseInv, Types
  <1> DEFINE slot == slots[w]
             old == leases[l]
  <1>0. old.live > 0 /\ old.used.m >= One(slot.granted) /\ old.used.s >= One(slot.granted /\ slot.session)
    BY LiveIsCounted, Zenon
  <1>2. /\ lease \in Lease
        /\ lease.used.m = leases[l].used.m - One(slots[w].granted)
        /\ lease.used.s = leases[l].used.s - One(slots[w].granted /\ slots[w].session)
        /\ lease.live = leases[l].live - 1 /\ lease.since = leases[l].since
        /\ lease.grant = leases[l].grant /\ lease.holds = leases[l].holds /\ lease.st = leases[l].st
    BY <1>0, <1>1, DroppedLease, SMTT(60)
  <1>3. lease.used.m <= leases[l].used.m /\ lease.used.s <= leases[l].used.s
    <2>1. One(slots[w].granted) \in Nat /\ One(slots[w].granted /\ slots[w].session) \in Nat
      BY Bits, Zenon DEF One
    <2>2. /\ leases[l].used.m \in Nat /\ leases[l].used.s \in Nat
          /\ lease.used.m \in Nat /\ lease.used.s \in Nat
      BY <1>1, <1>2, Zenon DEF Lease, Counts
    <2> QED
      <3>1. lease.used.m <= leases[l].used.m
        BY <1>2, <2>1, <2>2, Lowers, ZenonT(60)
      <3>2. lease.used.s <= leases[l].used.s
        BY <1>2, <2>1, <2>2, Lowers, ZenonT(60)
      <3> QED
        BY <3>1, <3>2, Zenon
  <1>4. leases[l].holds = Wanted(leases[l].grant, leases[l].used)
    BY <1>1, Zenon DEF LeaseInv, LeaseSound
  <1>5. lease.holds.m >= Wanted(lease.grant, lease.used).m /\ lease.holds.s >= Wanted(lease.grant, lease.used).s
    <2> DEFINE g == leases[l].grant
               u == leases[l].used
               v == lease.used
    <2>1. g \in Counts /\ u \in Counts /\ v \in Counts /\ v.m <= u.m /\ v.s <= u.s
      BY <1>1, <1>2, <1>3, Zenon DEF Lease
    <2>2. lease.holds = Wanted(g, u) /\ lease.grant = g
      BY <1>2, <1>4, Zenon
    <2> HIDE DEF g, u, v
    <2>3. Wanted(g, u).m >= Wanted(g, v).m /\ Wanted(g, u).s >= Wanted(g, v).s
      BY <2>1, SMTT(60) DEF Wanted, Max, Counts
    <2> QED
      BY <2>2, <2>3, Zenon DEF v
  <1>6. lease.holds \in Counts /\ lease.grant \in Counts /\ lease.used \in Counts
    BY <1>2, Zenon DEF Lease
  <1>7. /\ Fit(lease.holds, lease.grant, lease.used) = Wanted(lease.grant, lease.used)
        /\ Wanted(lease.grant, lease.used) \in Counts
    BY <1>5, <1>6, Fitted, Zenon
  <1> QED
    BY <1>1, <1>2, <1>7, Zenon

Fell(next, old, slot) ==
    /\ next.used.m = old.used.m - One(slot.granted)
    /\ next.used.s = old.used.s - One(slot.granted /\ slot.session)
    /\ next.live = old.live - 1 /\ next.since = old.since
    /\ next.grant = old.grant /\ next.st = old.st

LEMMA DropFell ==
    ASSUME LeaseInv, NEW w \in Work, slots[w].pc = "Live", NEW l, l = slots[w].lease,
           NEW lease, lease = Dropped(leases[l], slots[w])
    PROVE  Fell(lease, leases[l], slots[w])
  <1>1. l \in Leases /\ leases[l] \in Lease /\ slots[w] \in Slot
    BY SlotTypes, SMTT(60) DEF LeaseInv, Types
  <1> DEFINE slot == slots[w]
             old == leases[l]
  <1>2. old.live > 0 /\ old.used.m >= One(slot.granted) /\ old.used.s >= One(slot.granted /\ slot.session)
    BY LiveIsCounted, Zenon
  <1> QED
    BY <1>1, <1>2, DroppedLease, SMTT(60) DEF Fell

LEMMA DropKeeps == ASSUME LeaseInv, NEW w \in Work, Drop(w) PROVE LeaseInv'
  <1> DEFINE l == slots[w].lease
             lease == Dropped(leases[l], slots[w])
             next == [lease EXCEPT !.holds = Wanted(lease.grant, lease.used)]
             slot == IF slots[w].granted THEN Free ELSE [slots[w] EXCEPT !.pc = "Past"]
  <1>1. slots[w].pc = "Live" /\ slots[w] \in Slot /\ SlotSound(slots[w]) /\ slots[w].granted \in BOOLEAN
    BY SlotTypes, SMTT(60) DEF Drop
  <1>0. l = slots[w].lease /\ lease = Dropped(leases[l], slots[w])
    BY Zenon
  <1>2. /\ l \in Leases /\ leases[l] \in Lease /\ lease \in Lease
        /\ Fit(lease.holds, lease.grant, lease.used) = Wanted(lease.grant, lease.used)
        /\ Wanted(lease.grant, lease.used) \in Counts
    <2> HIDE DEF l, lease
    <2> QED
      BY <1>0, <1>1, DropFits, ZenonT(60)
  <1>3. /\ lease.used.m = leases[l].used.m - One(slots[w].granted)
        /\ lease.used.s = leases[l].used.s - One(slots[w].granted /\ slots[w].session)
        /\ lease.live = leases[l].live - 1 /\ lease.since = leases[l].since
        /\ lease.grant = leases[l].grant /\ lease.st = leases[l].st
    <2> HIDE DEF l, lease
    <2>1. Fell(lease, leases[l], slots[w])
      BY <1>0, <1>1, DropFell, ZenonT(60)
    <2> QED
      BY <2>1, Zenon DEF Fell
  <1>4. Refit(l, lease) /\ UNCHANGED <<sizing, watch, aged>> /\ slots' = [slots EXCEPT ![w] = slot]
    BY DEF Drop
  <1>5. leases' = [leases EXCEPT ![l] = next]
    BY <1>2, <1>4, Zenon DEF Refit
  <1>6. slot \in Slot /\ SlotSound(slot) /\ slot.pc # "Live"
    BY <1>1, FreeSlot DEF Slot, SlotSound
  <1> HIDE DEF lease, slot
  <1>7. /\ next \in Lease /\ next.used = lease.used /\ next.live = lease.live /\ next.since = lease.since
        /\ next.grant = lease.grant /\ next.st = lease.st /\ next.holds = Wanted(lease.grant, lease.used)
    BY <1>2 DEF Lease
  <1> HIDE DEF next, l
  <1>8. LeaseSound(next, sizing[l], watch[l], aged[l])
    <2>1. LeaseSound(leases[l], sizing[l], watch[l], aged[l]) /\ leases[l].live > 0
      BY <1>1, <1>2, LiveIsCounted, Zenon DEF LeaseInv, l
    <2>2. leases[l].since = "None"
      BY <2>1, SMTT(60) DEF LeaseSound
    <2> QED
      BY <1>3, <1>7, <2>1, <2>2, Zenon DEF LeaseSound
  <1>9. Types' /\ slots'[w] = slot /\ \A v \in Work \ {w} : slots'[v] = slots[v]
    BY <1>2, <1>4, <1>5, <1>6, <1>7, SMTT(60) DEF LeaseInv, Types
  <1>10. ASSUME NEW k \in Leases
         PROVE  /\ LeaseSound(leases'[k], sizing'[k], watch'[k], aged'[k])
                /\ leases'[k].used.m = leases[k].used.m + One(GrantedAt(slots'[w], k)) - One(GrantedAt(slots[w], k))
                /\ leases'[k].used.s = leases[k].used.s + One(GrantedAt(slots'[w], k) /\ slots'[w].session)
                                                         - One(GrantedAt(slots[w], k) /\ slots[w].session)
                /\ leases'[k].live = leases[k].live + One(LiveAt(slots'[w], k)) - One(LiveAt(slots[w], k))
    <2>1. /\ leases[k].used.m \in Nat /\ leases[k].used.s \in Nat /\ leases[k].live \in Nat
          /\ LeaseSound(leases[k], sizing[k], watch[k], aged[k])
      BY DEF LeaseInv, Types, Lease, Counts
    <2>2. /\ One(LiveAt(slots'[w], k)) = 0 /\ One(GrantedAt(slots'[w], k)) = 0
          /\ One(GrantedAt(slots'[w], k) /\ slots'[w].session) = 0
      BY <1>6, <1>9, Zenon DEF LiveAt, GrantedAt, One
    <2>3. CASE k = l
      <3>1. leases'[k] = next /\ sizing'[k] = sizing[l] /\ watch'[k] = watch[l] /\ aged'[k] = aged[l]
        BY <1>2, <1>4, <1>5, <2>3, SMTT(60) DEF LeaseInv, Types
      <3>2. /\ LiveAt(slots[w], k) /\ GrantedAt(slots[w], k) = slots[w].granted
            /\ (GrantedAt(slots[w], k) /\ slots[w].session) = (slots[w].granted /\ slots[w].session)
        BY <1>1, <2>3, Zenon DEF LiveAt, GrantedAt, l
      <3>3. /\ One(LiveAt(slots[w], k)) = 1 /\ One(GrantedAt(slots[w], k)) = One(slots[w].granted)
            /\ One(GrantedAt(slots[w], k) /\ slots[w].session) = One(slots[w].granted /\ slots[w].session)
        BY <3>2 DEF One
      <3>4. One(slots[w].granted) \in Nat /\ One(slots[w].granted /\ slots[w].session) \in Nat
        BY SMTT(60) DEF One
      <3>5. LeaseSound(leases'[k], sizing'[k], watch'[k], aged'[k])
        BY <1>8, <3>1, Zenon
      <3>6. leases[l] = leases[k]
        BY <2>3
      <3>7. /\ leases[k].used.m - One(slots[w].granted) = leases[k].used.m + 0 - One(slots[w].granted)
            /\ leases[k].used.s - One(slots[w].granted /\ slots[w].session)
                   = leases[k].used.s + 0 - One(slots[w].granted /\ slots[w].session)
            /\ leases[k].live - 1 = leases[k].live + 0 - 1
        <4>1. leases[k].live - 1 = leases[k].live + 0 - 1
          BY <2>1
        <4>2. Nat \subseteq Int
          OBVIOUS
        <4> QED
          BY <2>1, <3>4, <4>1, <4>2, Sums, Zenon
      <3>8. leases'[k].used = lease.used /\ leases'[k].live = lease.live
        BY <1>7, <3>1, Zenon
      <3>9. /\ leases'[k].used.m = leases[k].used.m - One(slots[w].granted)
            /\ leases'[k].used.s = leases[k].used.s - One(slots[w].granted /\ slots[w].session)
            /\ leases'[k].live = leases[k].live - 1
        BY <1>3, <3>6, <3>8, Zenon
      <3> QED
        BY <2>2, <3>3, <3>5, <3>7, <3>9, Zenon
    <2>4. CASE k # l
      <3>1. leases'[k] = leases[k] /\ sizing'[k] = sizing[k] /\ watch'[k] = watch[k] /\ aged'[k] = aged[k]
        BY <1>4, <1>5, <2>4, SMTT(60) DEF LeaseInv, Types
      <3>2. ~LiveAt(slots[w], k)
        BY <2>4 DEF LiveAt, l
      <3>3. /\ One(LiveAt(slots[w], k)) = 0 /\ One(GrantedAt(slots[w], k)) = 0
            /\ One(GrantedAt(slots[w], k) /\ slots[w].session) = 0
        BY <3>2, SMTT(60) DEF GrantedAt, One
      <3>4. /\ leases[k].used.m = leases[k].used.m + 0 - 0 /\ leases[k].used.s = leases[k].used.s + 0 - 0
            /\ leases[k].live = leases[k].live + 0 - 0
        BY <2>1
      <3> QED
        BY <2>1, <2>2, <3>1, <3>3, <3>4, Zenon
    <2> QED
      BY <2>3, <2>4, ZenonT(60)
  <1> QED
    BY <1>6, <1>9, <1>10, WorkKeeps, Zenon

LEMMA InitLease == Init => LeaseInv
  <1> SUFFICES ASSUME Init PROVE LeaseInv
    BY SMTT(60)
  <1>1. Types
    BY FreeSlot, Zenon DEF Init, Types, Lease, Size, Counts, Zero, Idle
  <1>2. \A w \in Work : SlotSound(slots[w])
    BY FreeSlot, SMTT(60) DEF Init
  <1>3. ASSUME NEW l \in Leases PROVE LeaseSound(leases[l], sizing[l], watch[l], aged[l]) /\ WorkCounted(l, leases[l])
    <2>1. LeaseSound(leases[l], sizing[l], watch[l], aged[l])
      BY DEF Init, LeaseSound, Idle, Zero, Wanted, Max
    <2>2. LiveOf(l) = {} /\ GrantedOf(l) = {} /\ {w \in GrantedOf(l) : slots[w].session} = {}
      BY FreeSlot, SMTT(60) DEF Init, LiveOf, GrantedOf
    <2>3. leases[l].used.m = 0 /\ leases[l].used.s = 0 /\ leases[l].live = 0
      BY DEF Init, Zero
    <2> QED
      BY <2>1, <2>2, <2>3, FS_EmptySet, Zenon DEF WorkCounted
  <1> QED
    BY <1>1, <1>2, <1>3 DEF LeaseInv

LEMMA NextLease == LeaseInv /\ [Next]_vars => LeaseInv'
  <1> SUFFICES ASSUME LeaseInv, [Next]_vars PROVE LeaseInv'
    OBVIOUS
  <1>1. ASSUME NEW l \in Leases, NEW asked \in Asked, Create(l, asked) \/ Resize(l, asked) PROVE LeaseInv'
    BY <1>1, CreateKeeps, ResizeKeeps
  <1>2. ASSUME NEW l \in Leases, Raise(l) \/ Refuse(l) \/ Resized(l) \/ Cancel(l) \/ End(l) \/ Arm(l) \/ Check(l) \/ Wake(l)
        PROVE  LeaseInv'
    BY <1>2, RaiseKeeps, RefuseKeeps, ResizedKeeps, CancelKeeps, EndKeeps, TaskKeeps, SMTT(60)
  <1>3. ASSUME NEW w \in Work, NEW session \in BOOLEAN,
               \/ \E l \in Leases : Find(w, l, session)
               \/ \E c \in Clients : AdmitUnleased(w, c, session)
        PROVE  LeaseInv'
    BY <1>3, ApartActionsKeep
  <1>4. ASSUME NEW w \in Work, Admit(w) \/ RefuseWork(w) \/ Drop(w) \/ Release(w) \/ ReleaseLinked(w) PROVE LeaseInv'
    <2>1. TRUE \in BOOLEAN
      OBVIOUS
    <2> QED
      BY <1>4, <2>1, AdmitKeeps, DropKeeps, ApartActionsKeep, Zenon
  <1>5. CASE Tick
    BY <1>5, TickKeeps, Zenon
  <1>6. CASE UNCHANGED vars
    <2>1. Types' /\ slots' = slots
      BY <1>6 DEF vars, LeaseInv, Types
    <2> QED
      BY <1>6, <2>1, LeaseKeeps DEF vars, LeaseInv
  <1> QED
    BY <1>1, <1>2, <1>3, <1>4, <1>5, <1>6, SMTT(60) DEF Next

LEMMA LeaseInvariant == Spec => []LeaseInv
  BY InitLease, NextLease, PTL DEF Spec

(***************************************************************************)
(* The promises about leases.                                              *)
(***************************************************************************)
\* For any leases, requests and interleaving of resizes, ends and drops: a
\* lease's holds are what its grant and its live work need, its counters are
\* the work that is live, and an ended one has no grant (admission.rs).
THEOREM LeasesCover == Spec => []LeaseCovered
  <1>1. LeaseInv => LeaseCovered
    BY DEF LeaseInv, LeaseSound, WorkCounted, LeaseCovered
  <1> QED
    BY <1>1, LeaseInvariant, PTL

\* For any leases and requests, a lease falls due in a step only when it has no
\* live work and had none for UNUSED_BOUND (unused() in admission.rs).
THEOREM DueWhenUnused == Spec => DueOnlyUnused
  <1> DEFINE Falls == \A l \in Leases : watch'[l] = "Due" /\ watch[l] # "Due" => leases[l].live = 0 /\ aged[l]
  <1>1. LeaseInv /\ [Next]_vars => [Falls]_vars
    <2> SUFFICES ASSUME LeaseInv, Next, NEW l \in Leases, watch'[l] = "Due", watch[l] # "Due"
                 PROVE  leases[l].live = 0 /\ aged[l]
      OBVIOUS
    <2>1. watch \in [Leases -> {"Off", "Top", "Armed", "Wait", "Sleep", "Slept", "Due", "Done"}]
      BY DEF LeaseInv, Types
    <2>2. leases[l] \in Lease /\ LeaseSound(leases[l], sizing[l], watch[l], aged[l])
      BY SMTT(60) DEF LeaseInv, Types
    <2>3. CASE \E k \in Leases, asked \in Asked : Create(k, asked) \/ Resize(k, asked)
      BY <2>1, <2>3 DEF Create, Resize
    <2>4. CASE \E k \in Leases : Raise(k) \/ Refuse(k) \/ Resized(k) \/ Cancel(k) \/ End(k) \/ Arm(k) \/ Wake(k)
      BY <2>1, <2>4, SMTT(60) DEF Raise, Refuse, Resized, Cancel, End, Arm, Wake
    <2>5. CASE \E k \in Leases : Check(k)
      <3>1. PICK k \in Leases : Check(k)
        BY <2>5
      <3>2. k = l /\ leases[l].live = 0 /\ leases[l].since = "Old"
        BY <2>1, <2>2, <3>1, SMTT(60) DEF Check, Lease
      <3> QED
        BY <2>2, <3>2 DEF LeaseSound
    <2>6. CASE \E w \in Work, session \in BOOLEAN :
                  \/ \E k \in Leases : Find(w, k, session)
                  \/ \E c \in Clients : AdmitUnleased(w, c, session)
      BY <2>6 DEF Find, AdmitUnleased
    <2>7. CASE \E w \in Work : Admit(w) \/ RefuseWork(w) \/ Drop(w) \/ Release(w) \/ ReleaseLinked(w)
      BY <2>7 DEF Admit, RefuseWork, Drop, Release, ReleaseLinked
    <2>8. CASE Tick
      BY <2>1, <2>8, SMTT(60) DEF Tick
    <2> QED
      BY <2>3, <2>4, <2>5, <2>6, <2>7, <2>8, Zenon DEF Next
  <1> QED
    BY <1>1, LeaseInvariant, PTL DEF Spec, DueOnlyUnused

(***************************************************************************)
(* The quotas, given what the leases and their work agree on.              *)
(***************************************************************************)
LEMMA HoldTypes ==
    ASSUME LeaseInv
    PROVE  /\ Measurements \in [Leases -> Nat] /\ Sessions \in [Leases -> Nat]
           /\ PastOf(FALSE) \in [Clients -> SUBSET Work] /\ PastOf(TRUE) \in [Clients -> SUBSET Work]
           /\ Handlers \in SUBSET Work
  BY SMTT(60) DEF LeaseInv, Types, Lease, Size, Counts, Measurements, Sessions, PastOf, PastHolds, Handlers

\* The work is where it was, and so is what it holds.
LEMMA WorkStays ==
    ASSUME slots' = slots
    PROVE  PastOf(FALSE)' = PastOf(FALSE) /\ PastOf(TRUE)' = PastOf(TRUE) /\ Handlers' = Handlers
  BY SMTT(60) DEF PastOf, PastHolds, Handlers

LEMMA QuotaKeeps ==
    ASSUME QuotaInv, UNCHANGED <<ops, sess>>, Measurements' = Measurements, Sessions' = Sessions,
           PastOf(FALSE)' = PastOf(FALSE), PastOf(TRUE)' = PastOf(TRUE), Handlers' = Handlers
    PROVE  QuotaInv'
  <1>1. Counted(ops', Measurements', PastOf(FALSE)', Handlers')
    BY Zenon DEF QuotaInv
  <1>2. Counted(sess', Sessions', PastOf(TRUE)', {})
    BY ZenonT(60) DEF QuotaInv
  <1> QED
    BY <1>1, <1>2, Zenon DEF QuotaInv

\* Steps of a lease that leave its holds alone.
LEMMA HoldsStay ==
    ASSUME LeaseInv, NEW l \in Leases,
           (\E asked \in Asked : Create(l, asked) \/ Resize(l, asked)) \/ Cancel(l) \/ Arm(l) \/ Check(l) \/ Wake(l)
    PROVE  Measurements' = Measurements /\ Sessions' = Sessions /\ UNCHANGED <<ops, sess, slots>>
  <1>1. CASE \E asked \in Asked : Create(l, asked) \/ Resize(l, asked)
    <2>1. sizing[l].raised = Zero /\ leases' = leases /\ UNCHANGED <<ops, sess, slots>>
      BY <1>1, Zenon DEF LeaseInv, LeaseSound, Create, Resize, Unlocked
    <2>2. sizing'[l].raised = Zero /\ \A k \in Leases \ {l} : sizing'[k] = sizing[k]
      BY <1>1, SMTT(60) DEF LeaseInv, Types, Create, Resize
    <2>3. \A k \in Leases : sizing'[k].raised = sizing[k].raised
      BY <2>1, <2>2, Zenon
    <2> QED
      BY <2>1, <2>3 DEF Measurements, Sessions
  <1>2. CASE Cancel(l) \/ Arm(l) \/ Check(l) \/ Wake(l)
    <2>1. sizing' = sizing /\ UNCHANGED <<ops, sess, slots>>
      BY <1>2 DEF Cancel, Arm, Check, Wake
    <2>2. \A k \in Leases : leases'[k].holds = leases[k].holds
      BY <1>2 DEF Cancel, Arm, Check, Wake, LeaseInv, Types, Lease
    <2> QED
      BY <2>1, <2>2, Zenon DEF Measurements, Sessions
  <1> QED
    BY <1>1, <1>2

LEMMA TickStays ==
    ASSUME LeaseInv, Tick
    PROVE  Measurements' = Measurements /\ Sessions' = Sessions /\ UNCHANGED <<ops, sess, slots>>
  <1>1. \A k \in Leases : leases'[k].holds = leases[k].holds
    BY SMTT(60) DEF Tick, LeaseInv, Types, Lease
  <1> QED
    BY <1>1 DEF Tick, Measurements, Sessions

LEMMA QuotaTypes ==
    ASSUME QuotaInv
    PROVE  /\ ops \in Quota /\ Counted(ops, Measurements, PastOf(FALSE), Handlers)
           /\ sess \in Quota /\ Counted(sess, Sessions, PastOf(TRUE), {})
           /\ Within(ops, Total.m, Share.m) /\ Within(sess, Total.s, Share.s)
           /\ Total.m \in Nat /\ Total.s \in Nat /\ Share.m \in Nat /\ Share.s \in Nat
  BY AdmissionAssumption, ZenonT(60) DEF QuotaInv, Counts

\* A step in which lease l's holds move by dm and ds, and the quotas with them.
LEMMA HoldsMove ==
    ASSUME LeaseInv, LeaseInv', QuotaInv, NEW l \in Leases, NEW dm \in Int, NEW ds \in Int,
           Measurements'[l] = Measurements[l] + dm, Sessions'[l] = Sessions[l] + ds,
           \A k \in Leases \ {l} : Measurements'[k] = Measurements[k] /\ Sessions'[k] = Sessions[k],
           Moved(ops, ops', Owner[l], dm), Moved(sess, sess', Owner[l], ds),
           dm <= 0 \/ (dm = 1 /\ FitsOperation(Owner[l])),
           ds <= 0 \/ (ds = 1 /\ FitsSession(Owner[l])),
           PastOf(FALSE)' = PastOf(FALSE), PastOf(TRUE)' = PastOf(TRUE), Handlers' = Handlers
    PROVE  QuotaInv'
  <1>1. Owner[l] \in Clients /\ {} \in SUBSET Work
    BY AdmissionAssumption, ZenonT(60)
  <1>2. Measurements' \in [Leases -> Nat] /\ Sessions' \in [Leases -> Nat]
    BY HoldTypes, SMTT(60) DEF LeaseInv, Types, Lease, Size, Counts, Measurements, Sessions
  <1>3. /\ Measurements \in [Leases -> Nat] /\ Sessions \in [Leases -> Nat]
        /\ PastOf(FALSE) \in [Clients -> SUBSET Work] /\ PastOf(TRUE) \in [Clients -> SUBSET Work]
        /\ Handlers \in SUBSET Work
    BY HoldTypes, ZenonT(60)
  <1>4. /\ ops \in Quota /\ Counted(ops, Measurements, PastOf(FALSE), Handlers)
        /\ sess \in Quota /\ Counted(sess, Sessions, PastOf(TRUE), {})
    BY QuotaTypes, Zenon
  <1>5. \A k \in Leases \ {l} : Measurements'[k] = Measurements[k]
    BY Zenon
  <1>6. \A k \in Leases \ {l} : Sessions'[k] = Sessions[k]
    BY Zenon
  <1>7. ops' \in Quota /\ Counted(ops', Measurements', PastOf(FALSE), Handlers)
    BY <1>2, <1>3, <1>4, <1>5, LeaseMoves, Zenon
  <1>8. sess' \in Quota /\ Counted(sess', Sessions', PastOf(TRUE), {})
    BY <1>1, <1>2, <1>3, <1>4, <1>6, LeaseMoves, ZenonT(60)
  <1>9. Within(ops', Total.m, Share.m)
    <2>1. MayMove(ops, Owner[l], dm, Total.m, Share.m)
      BY Zenon DEF MayMove, FitsOperation
    <2> QED
      BY <1>1, <2>1, QuotaTypes, MovedFits, Zenon
  <1>10. Within(sess', Total.s, Share.s)
    <2>1. MayMove(sess, Owner[l], ds, Total.s, Share.s)
      BY Zenon DEF MayMove, FitsSession
    <2> QED
      BY <1>1, <2>1, QuotaTypes, MovedFits, Zenon
  <1>11. Counted(ops', Measurements', PastOf(FALSE)', Handlers') /\ Counted(sess', Sessions', PastOf(TRUE)', {})
    BY <1>7, <1>8, ZenonT(60)
  <1> QED
    BY <1>7, <1>8, <1>9, <1>10, <1>11, Zenon DEF QuotaInv

LEMMA RaiseCounts == ASSUME LeaseInv, LeaseInv', QuotaInv, NEW l \in Leases, Raise(l) PROVE QuotaInv'
  <1>1. Owner[l] \in Clients /\ ops \in Quota /\ sess \in Quota
    BY AdmissionAssumption, QuotaTypes, SMTT(60)
  <1>2. leases' = leases /\ slots' = slots
    BY Zenon DEF Raise
  <1>3. PastOf(FALSE)' = PastOf(FALSE) /\ PastOf(TRUE)' = PastOf(TRUE) /\ Handlers' = Handlers
    BY <1>2, WorkStays, Zenon
  <1>4. /\ leases[l].holds.m \in Nat /\ leases[l].holds.s \in Nat
        /\ sizing[l].raised.m \in Nat /\ sizing[l].raised.s \in Nat
    BY DEF LeaseInv, Types, Lease, Size, Counts
  <1>5. ASSUME NEW more \in Counts, Took(l, more)
        PROVE  /\ Measurements'[l] = Measurements[l] + more.m /\ Sessions'[l] = Sessions[l] + more.s
               /\ \A k \in Leases \ {l} : Measurements'[k] = Measurements[k] /\ Sessions'[k] = Sessions[k]
    <2>1. sizing'[l].raised = Plus(sizing[l].raised, more) /\ \A k \in Leases \ {l} : sizing'[k] = sizing[k]
      BY <1>5, SMTT(60) DEF Took, LeaseInv, Types, Size
    <2>2. \A k \in Leases : /\ Measurements[k] = leases[k].holds.m + sizing[k].raised.m
                            /\ Sessions[k] = leases[k].holds.s + sizing[k].raised.s
                            /\ Measurements'[k] = leases[k].holds.m + sizing'[k].raised.m
                            /\ Sessions'[k] = leases[k].holds.s + sizing'[k].raised.s
      BY <1>2, Zenon DEF Measurements, Sessions
    <2>3. sizing'[l].raised.m = sizing[l].raised.m + more.m /\ sizing'[l].raised.s = sizing[l].raised.s + more.s
      BY <2>1, SMTT(60) DEF Plus
    <2>4. more.m \in Nat /\ more.s \in Nat
      BY Zenon DEF Counts
    <2>5. /\ leases[l].holds.m + sizing'[l].raised.m = (leases[l].holds.m + sizing[l].raised.m) + more.m
          /\ leases[l].holds.s + sizing'[l].raised.s = (leases[l].holds.s + sizing[l].raised.s) + more.s
      BY <1>4, <2>3, <2>4, SMTT(60)
    <2>6. Measurements'[l] = Measurements[l] + more.m /\ Sessions'[l] = Sessions[l] + more.s
      BY <2>2, <2>5, Zenon
    <2>7. ASSUME NEW k \in Leases \ {l} PROVE Measurements'[k] = Measurements[k] /\ Sessions'[k] = Sessions[k]
      <3>1. sizing'[k] = sizing[k]
        BY <2>1, Zenon
      <3> QED
        BY <2>2, <3>1, Zenon
    <2> QED
      BY <2>6, <2>7, Zenon
  <1>6. CASE FitsSession(Owner[l]) /\ sess' = Take(sess, Owner[l]) /\ Took(l, [m |-> 0, s |-> 1]) /\ UNCHANGED ops
    <2>1. Moved(ops, ops', Owner[l], 0) /\ Moved(sess, sess', Owner[l], 1)
      BY <1>1, <1>6, TakeMoves, StillMoves, SMTT(60)
    <2>2. /\ Measurements'[l] = Measurements[l] + 0 /\ Sessions'[l] = Sessions[l] + 1
          /\ \A k \in Leases \ {l} : Measurements'[k] = Measurements[k] /\ Sessions'[k] = Sessions[k]
      <3>1. PICK more : more = [m |-> 0, s |-> 1]
        BY Zenon
      <3>2. more \in Counts /\ more.m = 0 /\ more.s = 1
        BY <3>1 DEF Counts
      <3>3. Took(l, more)
        BY <1>6, <3>1, Zenon
      <3> QED
        BY <1>5, <3>2, <3>3, Zenon
    <2>3. PICK dm \in Int, ds \in Int : dm = 0 /\ ds = 1
      BY SMTT(60)
    <2>4. /\ Moved(ops, ops', Owner[l], dm) /\ Moved(sess, sess', Owner[l], ds)
          /\ Measurements'[l] = Measurements[l] + dm /\ Sessions'[l] = Sessions[l] + ds
      BY <2>1, <2>2, <2>3, Zenon
    <2>5. /\ dm <= 0 \/ (dm = 1 /\ FitsOperation(Owner[l]))
          /\ ds <= 0 \/ (ds = 1 /\ FitsSession(Owner[l]))
      BY <1>6, <2>3, SMTT(60)
    <2> QED
      BY <1>3, <2>2, <2>4, <2>5, HoldsMove, ZenonT(60)
  <1>7. CASE FitsOperation(Owner[l]) /\ ops' = Take(ops, Owner[l]) /\ Took(l, [m |-> 1, s |-> 0]) /\ UNCHANGED sess
    <2>1. Moved(ops, ops', Owner[l], 1) /\ Moved(sess, sess', Owner[l], 0)
      BY <1>1, <1>7, TakeMoves, StillMoves
    <2>2. /\ Measurements'[l] = Measurements[l] + 1 /\ Sessions'[l] = Sessions[l] + 0
          /\ \A k \in Leases \ {l} : Measurements'[k] = Measurements[k] /\ Sessions'[k] = Sessions[k]
      <3>1. PICK more : more = [m |-> 1, s |-> 0]
        BY Zenon
      <3>2. more \in Counts /\ more.m = 1 /\ more.s = 0
        BY <3>1 DEF Counts
      <3>3. Took(l, more)
        BY <1>7, <3>1, Zenon
      <3> QED
        BY <1>5, <3>2, <3>3, Zenon
    <2>3. PICK dm \in Int, ds \in Int : dm = 1 /\ ds = 0
      BY SMTT(60)
    <2>4. /\ Moved(ops, ops', Owner[l], dm) /\ Moved(sess, sess', Owner[l], ds)
          /\ Measurements'[l] = Measurements[l] + dm /\ Sessions'[l] = Sessions[l] + ds
      BY <2>1, <2>2, <2>3, Zenon
    <2>5. /\ dm <= 0 \/ (dm = 1 /\ FitsOperation(Owner[l]))
          /\ ds <= 0 \/ (ds = 1 /\ FitsSession(Owner[l]))
      BY <1>7, <2>3, SMTT(60)
    <2> QED
      BY <1>3, <2>2, <2>4, <2>5, HoldsMove, Zenon
  <1> QED
    BY <1>6, <1>7, Zenon DEF Raise

LEMMA RefuseCounts == ASSUME LeaseInv, LeaseInv', QuotaInv, NEW l \in Leases, Refuse(l) PROVE QuotaInv'
  <1> DEFINE dm == -sizing[l].raised.m
             ds == -sizing[l].raised.s
  <1>1. Owner[l] \in Clients /\ ops \in Quota /\ sess \in Quota
    BY AdmissionAssumption, QuotaTypes
  <1>2. PastOf(FALSE)' = PastOf(FALSE) /\ PastOf(TRUE)' = PastOf(TRUE) /\ Handlers' = Handlers
    BY WorkStays, ZenonT(60) DEF Refuse
  <1>3. /\ leases[l].holds.m \in Nat /\ leases[l].holds.s \in Nat
        /\ sizing[l].raised.m \in Nat /\ sizing[l].raised.s \in Nat
    BY DEF LeaseInv, Types, Lease, Size, Counts
  <1>4. Moved(ops, ops', Owner[l], dm) /\ Moved(sess, sess', Owner[l], ds)
    <2>1. ops' = Give(ops, Owner[l], sizing[l].raised.m) /\ sess' = Give(sess, Owner[l], sizing[l].raised.s)
      BY Zenon DEF Refuse
    <2>2. sizing[l].raised.m \in Int /\ sizing[l].raised.s \in Int
      BY <1>3, SMTT(60)
    <2> QED
      BY <1>1, <2>1, <2>2, GiveMoves, Zenon
  <1>5. /\ Measurements'[l] = Measurements[l] + dm /\ Sessions'[l] = Sessions[l] + ds
        /\ \A k \in Leases \ {l} : Measurements'[k] = Measurements[k] /\ Sessions'[k] = Sessions[k]
    <2>1. leases' = leases /\ sizing'[l].raised = Zero /\ \A k \in Leases \ {l} : sizing'[k] = sizing[k]
      BY Zenon DEF Refuse, Idle, LeaseInv, Types
    <2> QED
      BY <1>3, <2>1, SMTT(60) DEF Measurements, Sessions, Zero
  <1>6. dm \in Int /\ ds \in Int /\ dm <= 0 /\ ds <= 0
    BY <1>3, SMTT(60)
  <1> HIDE DEF dm, ds
  <1> QED
    BY <1>2, <1>4, <1>5, <1>6, HoldsMove, Zenon

\* A lease is refitted: what it holds falls to what it needs.
LEMMA RefitCounts ==
    ASSUME LeaseInv, LeaseInv', QuotaInv, NEW l \in Leases, NEW lease \in Lease, Refit(l, lease),
           lease.holds.m = Measurements[l], lease.holds.s = Sessions[l], sizing'[l].raised = Zero,
           \A k \in Leases \ {l} : sizing'[k] = sizing[k],
           PastOf(FALSE)' = PastOf(FALSE), PastOf(TRUE)' = PastOf(TRUE), Handlers' = Handlers
    PROVE  QuotaInv'
  <1> DEFINE kept == Fit(lease.holds, lease.grant, lease.used)
             dm == kept.m - lease.holds.m
             ds == kept.s - lease.holds.s
  <1>1. Owner[l] \in Clients /\ ops \in Quota /\ sess \in Quota
    BY AdmissionAssumption, QuotaTypes, Zenon
  <1>2. /\ kept.m \in Nat /\ kept.s \in Nat /\ kept.m <= lease.holds.m /\ kept.s <= lease.holds.s
        /\ lease.holds.m \in Nat /\ lease.holds.s \in Nat
    <2>1. lease.holds \in Counts /\ lease.grant \in Counts /\ lease.used \in Counts
      BY DEF Lease
    <2> QED
      BY <2>1, FitLowers, Zenon
  <1>3. /\ leases' = [leases EXCEPT ![l] = [lease EXCEPT !.holds = kept]]
        /\ ops' = Give(ops, Owner[l], lease.holds.m - kept.m)
        /\ sess' = Give(sess, Owner[l], lease.holds.s - kept.s)
    BY DEF Refit
  <1> HIDE DEF kept
  <1>4. lease.holds.m - kept.m \in Int /\ lease.holds.s - kept.s \in Int
        /\ -(lease.holds.m - kept.m) = dm /\ -(lease.holds.s - kept.s) = ds
        /\ dm \in Int /\ ds \in Int /\ dm <= 0 /\ ds <= 0
    BY <1>2
  <1>5. Moved(ops, ops', Owner[l], dm) /\ Moved(sess, sess', Owner[l], ds)
    <2>1. /\ Moved(ops, ops', Owner[l], -(lease.holds.m - kept.m))
          /\ Moved(sess, sess', Owner[l], -(lease.holds.s - kept.s))
      BY <1>1, <1>3, <1>4, GiveMoves
    <2> QED
      BY <1>4, <2>1
  <1>6. /\ Measurements'[l] = Measurements[l] + dm /\ Sessions'[l] = Sessions[l] + ds
        /\ \A k \in Leases \ {l} : Measurements'[k] = Measurements[k] /\ Sessions'[k] = Sessions[k]
    <2>1. leases'[l].holds = kept /\ \A k \in Leases \ {l} : leases'[k] = leases[k]
      BY <1>3 DEF LeaseInv, Types, Lease
    <2>2. /\ Measurements'[l] = leases'[l].holds.m + sizing'[l].raised.m
          /\ Sessions'[l] = leases'[l].holds.s + sizing'[l].raised.s
          /\ \A k \in Leases \ {l} : /\ Measurements'[k] = leases'[k].holds.m + sizing'[k].raised.m
                                     /\ Sessions'[k] = leases'[k].holds.s + sizing'[k].raised.s
      BY Zenon DEF Measurements, Sessions
    <2>3. /\ \A k \in Leases \ {l} : /\ Measurements[k] = leases[k].holds.m + sizing[k].raised.m
                                     /\ Sessions[k] = leases[k].holds.s + sizing[k].raised.s
      BY Zenon DEF Measurements, Sessions
    <2>4. sizing'[l].raised.m = 0 /\ sizing'[l].raised.s = 0
      BY DEF Zero
    <2>5. Measurements'[l] = kept.m + 0 /\ Sessions'[l] = kept.s + 0
      BY <2>1, <2>2, <2>4, Zenon
    <2>6. kept.m + 0 = lease.holds.m + dm /\ kept.s + 0 = lease.holds.s + ds
      BY <1>2
    <2>7. Measurements'[l] = Measurements[l] + dm /\ Sessions'[l] = Sessions[l] + ds
      BY <2>5, <2>6, Zenon
    <2>8. \A k \in Leases \ {l} : Measurements'[k] = Measurements[k] /\ Sessions'[k] = Sessions[k]
      BY <2>1, <2>2, <2>3, ZenonT(60)
    <2> QED
      BY <2>7, <2>8, Zenon
  <1> HIDE DEF dm, ds
  <1> QED
    BY <1>4, <1>5, <1>6, HoldsMove, ZenonT(60)

LEMMA ResizedCounts == ASSUME LeaseInv, LeaseInv', QuotaInv, NEW l \in Leases, Resized(l) PROVE QuotaInv'
  <1> DEFINE lease == [leases[l] EXCEPT !.grant = sizing[l].grant, !.holds = Plus(leases[l].holds, sizing[l].raised),
                                        !.st = IF sizing[l].new THEN "Live" ELSE leases[l].st]
  <1>1. leases[l] \in Lease /\ sizing[l] \in Size
    BY SMTT(60) DEF LeaseInv, Types
  <1>2. Plus(leases[l].holds, sizing[l].raised) \in Counts
    BY <1>1 DEF Lease, Size, Counts, Plus
  <1>3. lease \in Lease /\ lease.holds = Plus(leases[l].holds, sizing[l].raised)
    BY <1>1, <1>2, ZenonT(60) DEF Lease, Size
  <1>4. lease.holds.m = Measurements[l] /\ lease.holds.s = Sessions[l]
    BY <1>3 DEF Plus, Measurements, Sessions
  <1>5. Refit(l, lease) /\ slots' = slots /\ sizing' = [sizing EXCEPT ![l] = Idle]
    BY DEF Resized
  <1> HIDE DEF lease
  <1>6. sizing'[l].raised = Zero /\ \A k \in Leases \ {l} : sizing'[k] = sizing[k]
    BY <1>5, Zenon DEF Idle, LeaseInv, Types
  <1> QED
    BY <1>3, <1>4, <1>5, <1>6, WorkStays, RefitCounts, Zenon

LEMMA EndCounts == ASSUME LeaseInv, LeaseInv', QuotaInv, NEW l \in Leases, End(l) PROVE QuotaInv'
  <1> DEFINE lease == [leases[l] EXCEPT !.st = "Ended", !.grant = Zero]
  <1>1. leases[l] \in Lease /\ sizing[l].raised = Zero
    BY DEF LeaseInv, LeaseSound, Types, End, Unlocked
  <1>2. lease \in Lease /\ lease.holds = leases[l].holds
    BY <1>1, ZenonT(60) DEF Lease, Counts, Zero
  <1>3. lease.holds.m = Measurements[l] /\ lease.holds.s = Sessions[l]
    BY <1>1, <1>2 DEF Measurements, Sessions, Zero, Lease, Counts
  <1>4. Refit(l, lease) /\ slots' = slots /\ sizing' = sizing
    BY DEF End
  <1> HIDE DEF lease
  <1> QED
    BY <1>1, <1>2, <1>3, <1>4, WorkStays, RefitCounts, Zenon

(***************************************************************************)
(* What a request w holds past a grant, in its place before and after.     *)
(***************************************************************************)
PastAt(slot, c, session) ==
    /\ slot.client = c /\ slot.session = session
    /\ slot.pc = "Past" \/ (slot.pc = "Live" /\ ~slot.granted)
HandlerAt(slot) == slot.session /\ ~slot.granted /\ slot.pc \in {"Live", "Past", "Linked"}

LEMMA PastFollows ==
    ASSUME NEW w \in Work, \A v \in Work \ {w} : slots'[v] = slots[v], NEW c \in Clients, NEW session \in BOOLEAN
    PROVE  /\ PastHolds(c, session) \in SUBSET Work /\ PastHolds(c, session)' \in SUBSET Work
           /\ Cardinality(PastHolds(c, session)') = Cardinality(PastHolds(c, session))
                  + One(PastAt(slots'[w], c, session)) - One(PastAt(slots[w], c, session))
           /\ (PastAt(slots'[w], c, session) <=> PastAt(slots[w], c, session)) => PastHolds(c, session)' = PastHolds(c, session)
  <1>1. PastHolds(c, session) \in SUBSET Work /\ PastHolds(c, session)' \in SUBSET Work
    BY SMTT(60) DEF PastHolds
  <1>2. \A v \in Work \ {w} : v \in PastHolds(c, session) <=> v \in PastHolds(c, session)'
    BY Zenon DEF PastHolds
  <1>3. w \in PastHolds(c, session) <=> PastAt(slots[w], c, session)
    BY SMTT(60) DEF PastHolds, PastAt
  <1>4. w \in PastHolds(c, session)' <=> PastAt(slots'[w], c, session)
    BY SMTT(60) DEF PastHolds, PastAt
  <1>5. Cardinality(PastHolds(c, session)') = Cardinality(PastHolds(c, session))
            + One(w \in PastHolds(c, session)') - One(w \in PastHolds(c, session))
    BY <1>1, <1>2, OneMoves, Zenon
  <1> QED
    BY <1>1, <1>2, <1>3, <1>4, <1>5 DEF One

LEMMA HandlersFollow ==
    ASSUME NEW w \in Work, \A v \in Work \ {w} : slots'[v] = slots[v]
    PROVE  /\ Handlers \in SUBSET Work /\ Handlers' \in SUBSET Work
           /\ Cardinality(Handlers') = Cardinality(Handlers) + One(HandlerAt(slots'[w])) - One(HandlerAt(slots[w]))
           /\ (HandlerAt(slots'[w]) <=> HandlerAt(slots[w])) => Handlers' = Handlers
  <1>1. Handlers \in SUBSET Work /\ Handlers' \in SUBSET Work
    BY SMTT(60) DEF Handlers
  <1>2. \A v \in Work \ {w} : v \in Handlers <=> v \in Handlers'
    BY DEF Handlers
  <1>3. w \in Handlers <=> HandlerAt(slots[w])
    BY DEF Handlers, HandlerAt
  <1>4. w \in Handlers' <=> HandlerAt(slots'[w])
    BY SMTT(60) DEF Handlers, HandlerAt
  <1>5. Cardinality(Handlers') = Cardinality(Handlers) + One(w \in Handlers') - One(w \in Handlers)
    BY <1>1, <1>2, OneMoves, SMTT(60)
  <1> QED
    BY <1>1, <1>2, <1>3, <1>4, <1>5, SMTT(60) DEF One

\* A step of w that keeps what it holds past a grant.
LEMMA PastStays ==
    ASSUME NEW w \in Work, \A v \in Work \ {w} : slots'[v] = slots[v],
           \A c \in Clients, session \in BOOLEAN : PastAt(slots'[w], c, session) <=> PastAt(slots[w], c, session),
           HandlerAt(slots'[w]) <=> HandlerAt(slots[w])
    PROVE  PastOf(FALSE)' = PastOf(FALSE) /\ PastOf(TRUE)' = PastOf(TRUE) /\ Handlers' = Handlers
  <1>1. \A c \in Clients, session \in BOOLEAN : PastHolds(c, session)' = PastHolds(c, session)
    BY PastFollows
  <1>2. Handlers' = Handlers
    BY HandlersFollow
  <1> QED
    BY <1>1, <1>2, ZenonT(60) DEF PastOf

LEMMA DropCounts == ASSUME LeaseInv, LeaseInv', QuotaInv, NEW w \in Work, Drop(w) PROVE QuotaInv'
  <1> DEFINE l == slots[w].lease
             lease == Dropped(leases[l], slots[w])
             slot == IF slots[w].granted THEN Free ELSE [slots[w] EXCEPT !.pc = "Past"]
  <1>1. slots[w].pc = "Live" /\ slots[w] \in Slot /\ slots[w].granted \in BOOLEAN
    BY SlotTypes DEF Drop
  <1>0. l = slots[w].lease /\ lease = Dropped(leases[l], slots[w])
    BY Zenon
  <1>2. l \in Leases /\ leases[l] \in Lease /\ lease \in Lease
    <2> HIDE DEF l, lease
    <2> QED
      BY <1>0, <1>1, DropFits, ZenonT(60)
  <1>3. lease.holds = leases[l].holds
    <2> HIDE DEF l, lease
    <2> QED
      BY <1>0, <1>1, DropFits, ZenonT(60)
  <1>4. sizing[l].raised = Zero
    BY <1>2, SMTT(60) DEF Drop, Unlocked, LeaseInv, LeaseSound
  <1>6. Refit(l, lease) /\ sizing' = sizing /\ slots' = [slots EXCEPT ![w] = slot]
    BY DEF Drop
  <1>7. /\ \A c \in Clients, session \in BOOLEAN : PastAt(slot, c, session) <=> PastAt(slots[w], c, session)
        /\ HandlerAt(slot) <=> HandlerAt(slots[w])
    BY <1>1, FreeSlot DEF PastAt, HandlerAt, Slot, Free
  <1> HIDE DEF l, lease, slot
  <1>5. lease.holds.m = Measurements[l] /\ lease.holds.s = Sessions[l]
    <2>1. leases[l].holds.m \in Nat /\ leases[l].holds.s \in Nat /\ sizing[l].raised.m = 0 /\ sizing[l].raised.s = 0
      BY <1>2, <1>4, SMTT(60) DEF Lease, Counts, Zero
    <2>2. Measurements[l] = leases[l].holds.m + 0 /\ Sessions[l] = leases[l].holds.s + 0
      BY <1>2, <2>1, Zenon DEF Measurements, Sessions
    <2>3. leases[l].holds.m + 0 = leases[l].holds.m /\ leases[l].holds.s + 0 = leases[l].holds.s
      BY <2>1
    <2> QED
      BY <1>3, <2>2, <2>3, Zenon
  <1>8. slots'[w] = slot /\ \A v \in Work \ {w} : slots'[v] = slots[v]
    BY <1>6 DEF LeaseInv, Types
  <1>9. PastOf(FALSE)' = PastOf(FALSE) /\ PastOf(TRUE)' = PastOf(TRUE) /\ Handlers' = Handlers
    BY <1>7, <1>8, PastStays, ZenonT(60)
  <1> QED
    BY <1>2, <1>4, <1>5, <1>6, <1>9, RefitCounts, ZenonT(60)

LEMMA FindCounts ==
    ASSUME LeaseInv, QuotaInv, NEW w \in Work, NEW session \in BOOLEAN,
           (\E l \in Leases : Find(w, l, session)) \/ RefuseWork(w)
    PROVE  QuotaInv'
  <1>1. UNCHANGED <<ops, sess, leases, sizing>>
    BY Zenon DEF Find, RefuseWork
  <1>2. Measurements' = Measurements /\ Sessions' = Sessions
    BY <1>1, Zenon DEF Measurements, Sessions
  <1>3. \A v \in Work \ {w} : slots'[v] = slots[v]
    BY Zenon DEF Find, RefuseWork, LeaseInv, Types
  <1>4. slots[w].pc \notin {"Live", "Past", "Linked"} /\ slots'[w].pc \notin {"Live", "Past", "Linked"}
    BY FreeSlot, SMTT(60) DEF Find, RefuseWork, LeaseInv, Types
  <1>5. PastOf(FALSE)' = PastOf(FALSE) /\ PastOf(TRUE)' = PastOf(TRUE) /\ Handlers' = Handlers
    BY <1>3, <1>4, PastStays, ZenonT(60) DEF PastAt, HandlerAt
  <1> QED
    BY <1>1, <1>2, <1>5, QuotaKeeps

\* A request w of client c starts or stops holding an operation past a grant.
LEMMA OperationMoves ==
    ASSUME LeaseInv, LeaseInv', QuotaInv, NEW w \in Work, \A v \in Work \ {w} : slots'[v] = slots[v],
           NEW c \in Clients, NEW d \in Int, Moved(ops, ops', c, d), sess' = sess,
           Measurements' = Measurements, Sessions' = Sessions,
           d <= 0 \/ (d = 1 /\ FitsOperation(c)),
           One(PastAt(slots'[w], c, FALSE)) - One(PastAt(slots[w], c, FALSE)) = d,
           \A b \in Clients \ {c} : PastAt(slots'[w], b, FALSE) <=> PastAt(slots[w], b, FALSE),
           \A b \in Clients : PastAt(slots'[w], b, TRUE) <=> PastAt(slots[w], b, TRUE),
           HandlerAt(slots'[w]) <=> HandlerAt(slots[w])
    PROVE  QuotaInv'
  <1>1. Measurements' = Measurements /\ Sessions' = Sessions
    BY ZenonT(60)
  <1>2. Handlers' = Handlers
    BY HandlersFollow, ZenonT(60)
  <1>3. \A b \in Clients : PastHolds(b, TRUE)' = PastHolds(b, TRUE)
    BY PastFollows, ZenonT(60)
  <1>4. PastOf(TRUE)' = PastOf(TRUE)
    BY <1>3, ZenonT(60) DEF PastOf
  <1>5. \A b \in Clients \ {c} : PastHolds(b, FALSE)' = PastHolds(b, FALSE)
    BY PastFollows, ZenonT(60)
  <1>6. Cardinality(PastHolds(c, FALSE)') = Cardinality(PastHolds(c, FALSE)) + d
    <2>1. Cardinality(PastHolds(c, FALSE)) \in Nat
      BY PastFollows, WorkNumbers, ZenonT(60)
    <2>2. Cardinality(PastHolds(c, FALSE)') = Cardinality(PastHolds(c, FALSE))
              + One(PastAt(slots'[w], c, FALSE)) - One(PastAt(slots[w], c, FALSE))
      BY PastFollows, ZenonT(60)
    <2>3. One(PastAt(slots'[w], c, FALSE)) \in Int /\ One(PastAt(slots[w], c, FALSE)) \in Int
      BY Bits, Zenon DEF One
    <2> QED
      BY <2>1, <2>2, <2>3, ZenonT(60)
  <1>7. /\ PastOf(FALSE)' \in [Clients -> SUBSET Work]
        /\ \A b \in Clients \ {c} : PastOf(FALSE)'[b] = PastOf(FALSE)[b]
        /\ Cardinality(PastOf(FALSE)'[c]) = Cardinality(PastOf(FALSE)[c]) + d
    BY <1>5, <1>6, ZenonT(60) DEF PastOf, PastHolds
  <1>8. /\ Measurements \in [Leases -> Nat] /\ PastOf(FALSE) \in [Clients -> SUBSET Work] /\ Handlers \in SUBSET Work
        /\ ops \in Quota /\ Counted(ops, Measurements, PastOf(FALSE), Handlers)
    BY HoldTypes, QuotaTypes, ZenonT(60)
  <1>9. ops' \in Quota /\ Counted(ops', Measurements, PastOf(FALSE)', Handlers)
    BY <1>7, <1>8, WorkMoves, ZenonT(60)
  <1>10. Within(ops', Total.m, Share.m)
    <2>1. MayMove(ops, c, d, Total.m, Share.m)
      BY Zenon DEF MayMove, FitsOperation
    <2> QED
      BY <2>1, QuotaTypes, MovedFits, Zenon
  <1>11. Counted(ops', Measurements', PastOf(FALSE)', Handlers')
    BY <1>1, <1>2, <1>9, Zenon
  <1>12. Counted(sess', Sessions', PastOf(TRUE)', {})
    BY <1>1, <1>4, QuotaTypes, ZenonT(60)
  <1> QED
    BY <1>9, <1>10, <1>11, <1>12, QuotaTypes, Zenon DEF QuotaInv

\* A session w of client c, or its handler, starts or stops being held.
LEMMA SessionMoves ==
    ASSUME LeaseInv, LeaseInv', QuotaInv, NEW w \in Work, \A v \in Work \ {w} : slots'[v] = slots[v],
           NEW c \in Clients, NEW d \in Int, NEW e \in Int, Moved(sess, sess', c, d), Exempted(ops, ops', e),
           Measurements' = Measurements, Sessions' = Sessions,
           d <= 0 \/ (d = 1 /\ FitsSession(c)), e <= 0 \/ (e = 1 /\ ops.used < Total.m),
           One(PastAt(slots'[w], c, TRUE)) - One(PastAt(slots[w], c, TRUE)) = d,
           \A b \in Clients \ {c} : PastAt(slots'[w], b, TRUE) <=> PastAt(slots[w], b, TRUE),
           \A b \in Clients : PastAt(slots'[w], b, FALSE) <=> PastAt(slots[w], b, FALSE),
           One(HandlerAt(slots'[w])) - One(HandlerAt(slots[w])) = e
    PROVE  QuotaInv'
  <1>1. Measurements' = Measurements /\ Sessions' = Sessions
    BY ZenonT(60)
  <1>2. \A b \in Clients : PastHolds(b, FALSE)' = PastHolds(b, FALSE)
    BY PastFollows, ZenonT(60)
  <1>3. PastOf(FALSE)' = PastOf(FALSE)
    BY <1>2, ZenonT(60) DEF PastOf
  <1>4. \A b \in Clients \ {c} : PastHolds(b, TRUE)' = PastHolds(b, TRUE)
    BY PastFollows, Zenon
  <1>5. Cardinality(PastHolds(c, TRUE)') = Cardinality(PastHolds(c, TRUE)) + d
    <2>1. Cardinality(PastHolds(c, TRUE)) \in Nat
      BY PastFollows, WorkNumbers, ZenonT(60)
    <2>2. Cardinality(PastHolds(c, TRUE)') = Cardinality(PastHolds(c, TRUE))
              + One(PastAt(slots'[w], c, TRUE)) - One(PastAt(slots[w], c, TRUE))
      BY PastFollows, ZenonT(60)
    <2>3. One(PastAt(slots'[w], c, TRUE)) \in Int /\ One(PastAt(slots[w], c, TRUE)) \in Int
      BY Bits, Zenon DEF One
    <2> QED
      BY <2>1, <2>2, <2>3, ZenonT(60)
  <1>6. Cardinality(Handlers') = Cardinality(Handlers) + e /\ Handlers \in SUBSET Work /\ Handlers' \in SUBSET Work
    <2>1. Cardinality(Handlers) \in Nat /\ Handlers \in SUBSET Work /\ Handlers' \in SUBSET Work
      BY HandlersFollow, WorkNumbers, ZenonT(60)
    <2>2. Cardinality(Handlers') = Cardinality(Handlers) + One(HandlerAt(slots'[w])) - One(HandlerAt(slots[w]))
      BY HandlersFollow, ZenonT(60)
    <2>3. One(HandlerAt(slots'[w])) \in Int /\ One(HandlerAt(slots[w])) \in Int
      BY Bits, Zenon DEF One
    <2> QED
      BY <2>1, <2>2, <2>3, ZenonT(60)
  <1>7. /\ PastOf(TRUE)' \in [Clients -> SUBSET Work]
        /\ \A b \in Clients \ {c} : PastOf(TRUE)'[b] = PastOf(TRUE)[b]
        /\ Cardinality(PastOf(TRUE)'[c]) = Cardinality(PastOf(TRUE)[c]) + d
    BY <1>4, <1>5, ZenonT(60) DEF PastOf, PastHolds
  <1>8. /\ Measurements \in [Leases -> Nat] /\ PastOf(FALSE) \in [Clients -> SUBSET Work]
        /\ Sessions \in [Leases -> Nat] /\ PastOf(TRUE) \in [Clients -> SUBSET Work] /\ {} \in SUBSET Work
        /\ ops \in Quota /\ Counted(ops, Measurements, PastOf(FALSE), Handlers)
        /\ sess \in Quota /\ Counted(sess, Sessions, PastOf(TRUE), {})
    BY HoldTypes, QuotaTypes, ZenonT(60)
  <1>9. sess' \in Quota /\ Counted(sess', Sessions, PastOf(TRUE)', {})
    BY <1>7, <1>8, WorkMoves, ZenonT(60)
  <1>10. ops' \in Quota /\ Counted(ops', Measurements, PastOf(FALSE), Handlers')
    BY <1>6, <1>8, ExemptMoves, ZenonT(60)
  <1>11. Within(sess', Total.s, Share.s)
    <2>1. MayMove(sess, c, d, Total.s, Share.s)
      BY Zenon DEF MayMove, FitsSession
    <2> QED
      BY <2>1, QuotaTypes, MovedFits, Zenon
  <1>12. Within(ops', Total.m, Share.m)
    <2>1. MayExempt(ops, e, Total.m)
      BY Zenon DEF MayExempt
    <2> QED
      BY <2>1, QuotaTypes, ExemptedFits, Zenon
  <1>13. Counted(ops', Measurements', PastOf(FALSE)', Handlers')
    BY <1>1, <1>3, <1>10, ZenonT(60)
  <1>14. Counted(sess', Sessions', PastOf(TRUE)', {})
    BY <1>1, <1>9, Zenon
  <1> QED
    BY <1>9, <1>10, <1>11, <1>12, <1>13, <1>14, ZenonT(60) DEF QuotaInv

\* A request is admitted past a grant, or without a lease.
LEMMA TakePastCounts ==
    ASSUME LeaseInv, LeaseInv', QuotaInv, NEW w \in Work, \A v \in Work \ {w} : slots'[v] = slots[v],
           NEW c \in Clients, NEW session \in BOOLEAN, TakePast(c, session), FitsPast(c, session),
           Measurements' = Measurements, Sessions' = Sessions,
           slots[w].pc \in {"Free", "Found"}, slots'[w].pc \in {"Live", "Past"},
           slots'[w].client = c, slots'[w].session = session, ~slots'[w].granted
    PROVE  QuotaInv'
  <1>1. ops \in Quota /\ sess \in Quota
    BY QuotaTypes, Zenon
  <1>2. \A b \in Clients, s \in BOOLEAN : ~PastAt(slots[w], b, s) /\ (PastAt(slots'[w], b, s) <=> b = c /\ s = session)
    BY Zenon DEF PastAt
  <1>3. ~HandlerAt(slots[w]) /\ (HandlerAt(slots'[w]) <=> session)
    BY Zenon DEF HandlerAt
  <1>4. CASE session
    <2>1. PICK d \in Int : d = 1
      BY SMTT(60)
    <2>2. sess' = Take(sess, c) /\ ops' = TakeExempt(ops) /\ FitsSession(c) /\ ops.used < Total.m
      BY <1>4, ZenonT(60) DEF TakePast, FitsPast
    <2>3. Moved(sess, sess', c, d) /\ Exempted(ops, ops', d)
      BY <1>1, <2>1, <2>2, TakeMoves, ExemptTypes, Zenon
    <2>4. /\ One(PastAt(slots'[w], c, TRUE)) - One(PastAt(slots[w], c, TRUE)) = d
          /\ One(HandlerAt(slots'[w])) - One(HandlerAt(slots[w])) = d
      <3>1. PastAt(slots'[w], c, TRUE) /\ ~PastAt(slots[w], c, TRUE) /\ HandlerAt(slots'[w]) /\ ~HandlerAt(slots[w])
        BY <1>2, <1>3, <1>4, Zenon
      <3> QED
        <4>1. One(PastAt(slots'[w], c, TRUE)) = 1 /\ One(PastAt(slots[w], c, TRUE)) = 0
              /\ One(HandlerAt(slots'[w])) = 1 /\ One(HandlerAt(slots[w])) = 0
          BY <3>1, Zenon DEF One
        <4>2. 1 - 0 = 1
          OBVIOUS
        <4> QED
          BY <2>1, <4>1, <4>2, Zenon
    <2>5. /\ \A b \in Clients \ {c} : PastAt(slots'[w], b, TRUE) <=> PastAt(slots[w], b, TRUE)
          /\ \A b \in Clients : PastAt(slots'[w], b, FALSE) <=> PastAt(slots[w], b, FALSE)
      BY <1>2, <1>4, ZenonT(60)
    <2> QED
      BY <2>1, <2>2, <2>3, <2>4, <2>5, SessionMoves, ZenonT(60)
  <1>5. CASE ~session
    <2>1. PICK d \in Int : d = 1
      OBVIOUS
    <2>2. ops' = Take(ops, c) /\ sess' = sess /\ FitsOperation(c)
      BY <1>5, ZenonT(60) DEF TakePast, FitsPast
    <2>3. Moved(ops, ops', c, d)
      BY <1>1, <2>1, <2>2, TakeMoves, ZenonT(60)
    <2>4. One(PastAt(slots'[w], c, FALSE)) - One(PastAt(slots[w], c, FALSE)) = d
      <3>1. PastAt(slots'[w], c, FALSE) /\ ~PastAt(slots[w], c, FALSE)
        BY <1>2, <1>5, Zenon
      <3> QED
        <4>1. One(PastAt(slots'[w], c, FALSE)) = 1 /\ One(PastAt(slots[w], c, FALSE)) = 0
          BY <3>1, Zenon DEF One
        <4>2. 1 - 0 = 1
          OBVIOUS
        <4> QED
          BY <2>1, <4>1, <4>2, Zenon
    <2>5. /\ \A b \in Clients \ {c} : PastAt(slots'[w], b, FALSE) <=> PastAt(slots[w], b, FALSE)
          /\ \A b \in Clients : PastAt(slots'[w], b, TRUE) <=> PastAt(slots[w], b, TRUE)
          /\ HandlerAt(slots'[w]) <=> HandlerAt(slots[w])
      BY <1>2, <1>3, <1>5, Zenon
    <2> QED
      BY <2>1, <2>2, <2>3, <2>4, <2>5, OperationMoves, Zenon
  <1> QED
    BY <1>4, <1>5, SMTT(60)

LEMMA AdmitCounts == ASSUME LeaseInv, LeaseInv', QuotaInv, NEW w \in Work, Admit(w) PROVE QuotaInv'
  <1> DEFINE l == slots[w].lease
             session == slots[w].session
             granted == Granted(l, session)
  <1>1. /\ l \in Leases /\ leases[l] \in Lease /\ slots[w] \in Slot /\ session \in BOOLEAN /\ granted \in BOOLEAN
        /\ slots[w].client = Owner[l] /\ Owner[l] \in Clients /\ ~slots[w].granted
    BY SlotTypes, Zenon DEF Admit, LeaseInv, Types, Granted, SlotSound
  <1>2. /\ leases' = [leases EXCEPT ![l] = Admitted(leases[l], granted, session)] /\ sizing' = sizing
        /\ slots' = [slots EXCEPT ![w] = [slots[w] EXCEPT !.pc = "Live", !.granted = granted]] /\ slots[w].pc = "Found"
        /\ IF granted THEN UNCHANGED <<ops, sess>> ELSE FitsPast(Owner[l], session) /\ TakePast(Owner[l], session)
    BY DEF Admit
  <1>3. /\ slots'[w].pc = "Live" /\ slots'[w].granted = granted /\ slots'[w].client = Owner[l]
        /\ slots'[w].session = session /\ \A v \in Work \ {w} : slots'[v] = slots[v]
    BY <1>1, <1>2, SMTT(60) DEF LeaseInv, Types, Slot
  <1>4. Admitted(leases[l], granted, session).holds = leases[l].holds
    <2> HIDE DEF l, session, granted
    <2> QED
      BY <1>1, AdmittedLease, SMTT(60)
  <1> HIDE DEF l, session, granted
  <1>5. \A k \in Leases : leases'[k].holds = leases[k].holds
    BY <1>1, <1>2, <1>4, SMTT(60) DEF LeaseInv, Types
  <1>6. Measurements' = Measurements /\ Sessions' = Sessions
    BY <1>2, <1>5, SMTT(60) DEF Measurements, Sessions
  <1>7. CASE granted
    <2>1. /\ \A c \in Clients, s \in BOOLEAN : PastAt(slots'[w], c, s) <=> PastAt(slots[w], c, s)
          /\ HandlerAt(slots'[w]) <=> HandlerAt(slots[w])
      BY <1>2, <1>3, <1>7, SMTT(60) DEF PastAt, HandlerAt
    <2>2. PastOf(FALSE)' = PastOf(FALSE) /\ PastOf(TRUE)' = PastOf(TRUE) /\ Handlers' = Handlers
      BY <1>3, <2>1, PastStays, Zenon
    <2> QED
      BY <1>2, <1>6, <1>7, <2>2, QuotaKeeps, SMTT(60)
  <1>8. CASE ~granted
    <2>1. FitsPast(Owner[l], session) /\ TakePast(Owner[l], session) /\ ~slots'[w].granted
      BY <1>2, <1>3, <1>8, SMTT(60)
    <2> QED
      BY <1>1, <1>2, <1>3, <1>6, <2>1, TakePastCounts, SMTT(60)
  <1> QED
    BY <1>1, <1>7, <1>8

LEMMA AdmitUnleasedCounts ==
    ASSUME LeaseInv, LeaseInv', QuotaInv, NEW w \in Work, NEW session \in BOOLEAN, NEW c \in Clients,
           AdmitUnleased(w, c, session)
    PROVE  QuotaInv'
  <1>1. FitsPast(c, session) /\ TakePast(c, session) /\ UNCHANGED <<leases, sizing>> /\ slots[w].pc = "Free"
    BY Zenon DEF AdmitUnleased
  <1>2. Measurements' = Measurements /\ Sessions' = Sessions
    BY <1>1, Zenon DEF Measurements, Sessions
  <1>3. /\ slots'[w].pc = "Past" /\ slots'[w].client = c /\ slots'[w].session = session /\ ~slots'[w].granted
        /\ \A v \in Work \ {w} : slots'[v] = slots[v]
    BY Zenon DEF AdmitUnleased, LeaseInv, Types
  <1> QED
    BY <1>1, <1>2, <1>3, TakePastCounts, Zenon

LEMMA ReleaseCounts == ASSUME LeaseInv, LeaseInv', QuotaInv, NEW w \in Work, Release(w) PROVE QuotaInv'
  <1> DEFINE c == slots[w].client
  <1>1. ops \in Quota /\ sess \in Quota /\ c \in Clients /\ slots[w] \in Slot /\ slots[w].session \in BOOLEAN
    BY QuotaTypes, SlotTypes, Zenon
  <1>2. slots[w].pc = "Past" /\ ~slots[w].granted /\ UNCHANGED <<leases, sizing>>
    BY SlotTypes, SMTT(60) DEF Release, SlotSound
  <1>3. Measurements' = Measurements /\ Sessions' = Sessions
    BY <1>2 DEF Measurements, Sessions
  <1>4. \A v \in Work \ {w} : slots'[v] = slots[v]
    BY DEF Release, LeaseInv, Types
  <1>5. PICK d \in Int, e \in Int : d = -1 /\ e = 0
    BY SMTT(60)
  <1>6. CASE slots[w].session
    <2>1. /\ sess' = Give(sess, c, 1) /\ ops' = ops
          /\ slots'[w] = [slots[w] EXCEPT !.pc = "Linked"]
      BY <1>6 DEF Release, LeaseInv, Types
    <2>2. slots'[w].pc = "Linked" /\ slots'[w].session /\ ~slots'[w].granted
      BY <1>1, <1>2, <1>6, <2>1, SMTT(60) DEF Slot
    <2>3. Moved(sess, sess', c, d) /\ Exempted(ops, ops', e)
      <3>1. 1 \in Int /\ -1 = d /\ 0 = e
        BY <1>5
      <3> QED
        BY <1>1, <2>1, <3>1, GiveMoves, ExemptTypes, Zenon
    <2>4. /\ ~PastAt(slots'[w], c, TRUE) /\ PastAt(slots[w], c, TRUE) /\ HandlerAt(slots'[w]) /\ HandlerAt(slots[w])
          /\ \A b \in Clients \ {c} : PastAt(slots'[w], b, TRUE) <=> PastAt(slots[w], b, TRUE)
          /\ \A b \in Clients : PastAt(slots'[w], b, FALSE) <=> PastAt(slots[w], b, FALSE)
      BY <1>1, <1>2, <1>6, <2>2, Zenon DEF PastAt, HandlerAt
    <2>5. /\ One(PastAt(slots'[w], c, TRUE)) - One(PastAt(slots[w], c, TRUE)) = d
          /\ One(HandlerAt(slots'[w])) - One(HandlerAt(slots[w])) = e
      <3>1. /\ One(PastAt(slots'[w], c, TRUE)) = 0 /\ One(PastAt(slots[w], c, TRUE)) = 1
            /\ One(HandlerAt(slots'[w])) = 1 /\ One(HandlerAt(slots[w])) = 1
        BY <2>4, Zenon DEF One
      <3>2. 0 - 1 = d /\ 1 - 1 = e
        BY <1>5
      <3> QED
        BY <3>1, <3>2, Zenon
    <2>6. d <= 0 /\ e <= 0
      BY <1>5, SMTT(60)
    <2> HIDE DEF c
    <2> QED
      BY <1>1, <1>3, <1>4, <2>3, <2>4, <2>5, <2>6, SessionMoves, ZenonT(60)
  <1>7. CASE ~slots[w].session
    <2>1. ops' = Give(ops, c, 1) /\ sess' = sess /\ slots'[w] = Free
      BY <1>7, SMTT(60) DEF Release, LeaseInv, Types
    <2>2. Moved(ops, ops', c, d)
      <3>1. 1 \in Int /\ -1 = d
        BY <1>5
      <3> QED
        BY <1>1, <2>1, <3>1, GiveMoves, Zenon
    <2>3. slots'[w].pc = "Free"
      BY <2>1, FreeSlot, ZenonT(60)
    <2>4. /\ ~PastAt(slots'[w], c, FALSE) /\ PastAt(slots[w], c, FALSE)
          /\ \A b \in Clients \ {c} : PastAt(slots'[w], b, FALSE) <=> PastAt(slots[w], b, FALSE)
          /\ \A b \in Clients : PastAt(slots'[w], b, TRUE) <=> PastAt(slots[w], b, TRUE)
          /\ HandlerAt(slots'[w]) <=> HandlerAt(slots[w])
      BY <1>1, <1>2, <1>7, <2>3, Zenon DEF PastAt, HandlerAt
    <2>5. One(PastAt(slots'[w], c, FALSE)) - One(PastAt(slots[w], c, FALSE)) = d /\ d <= 0
      <3>1. One(PastAt(slots'[w], c, FALSE)) = 0 /\ One(PastAt(slots[w], c, FALSE)) = 1
        BY <2>4, Zenon DEF One
      <3>2. 0 - 1 = d /\ d <= 0
        BY <1>5
      <3> QED
        BY <3>1, <3>2, Zenon
    <2> HIDE DEF c
    <2> QED
      BY <1>1, <1>3, <1>4, <2>1, <2>2, <2>4, <2>5, OperationMoves, ZenonT(60)
  <1> QED
    BY <1>1, <1>6, <1>7, SMTT(60)

LEMMA ReleaseLinkedCounts == ASSUME LeaseInv, LeaseInv', QuotaInv, NEW w \in Work, ReleaseLinked(w) PROVE QuotaInv'
  <1>1. ops \in Quota /\ sess \in Quota /\ slots[w].pc = "Linked" /\ ops' = GiveExempt(ops) /\ sess' = sess
    BY QuotaTypes, ZenonT(60) DEF ReleaseLinked
  <1>2. Measurements' = Measurements /\ Sessions' = Sessions
    BY Zenon DEF ReleaseLinked, Measurements, Sessions
  <1>3. slots'[w] = Free /\ \A v \in Work \ {w} : slots'[v] = slots[v]
    BY Zenon DEF ReleaseLinked, LeaseInv, Types
  <1>4. \A b \in Clients, s \in BOOLEAN : ~PastAt(slots'[w], b, s) /\ ~PastAt(slots[w], b, s)
    BY <1>1, <1>3, FreeSlot, Zenon DEF PastAt
  <1>5. HandlerAt(slots[w]) /\ ~HandlerAt(slots'[w])
    BY <1>1, <1>3, FreeSlot, SlotTypes, Zenon DEF HandlerAt, SlotSound
  <1>6. PICK c \in Clients : TRUE
    BY AdmissionAssumption
  <1>7. PICK d \in Int, e \in Int : d = 0 /\ e = -1
    BY SMTT(60)
  <1>8. Moved(sess, sess', c, d) /\ Exempted(ops, ops', e) /\ d <= 0 /\ e <= 0
    BY <1>1, <1>7, StillMoves, ExemptTypes, SMTT(60)
  <1>9. /\ One(PastAt(slots'[w], c, TRUE)) - One(PastAt(slots[w], c, TRUE)) = d
        /\ One(HandlerAt(slots'[w])) - One(HandlerAt(slots[w])) = e
    <2>1. ~PastAt(slots'[w], c, TRUE) /\ ~PastAt(slots[w], c, TRUE)
      BY <1>4, Zenon
    <2> QED
      <3>1. /\ One(PastAt(slots'[w], c, TRUE)) = 0 /\ One(PastAt(slots[w], c, TRUE)) = 0
            /\ One(HandlerAt(slots'[w])) = 0 /\ One(HandlerAt(slots[w])) = 1
        BY <1>5, <2>1, Zenon DEF One
      <3>2. 0 - 0 = d /\ 0 - 1 = e
        BY <1>7
      <3> QED
        BY <3>1, <3>2, Zenon
  <1>10. \A b \in Clients : /\ PastAt(slots'[w], b, TRUE) <=> PastAt(slots[w], b, TRUE)
                            /\ PastAt(slots'[w], b, FALSE) <=> PastAt(slots[w], b, FALSE)
    BY <1>4, Zenon
  <1> QED
    BY <1>2, <1>3, <1>8, <1>9, <1>10, SessionMoves, ZenonT(60)

LEMMA InitQuota == Init => QuotaInv
  <1> SUFFICES ASSUME Init PROVE QuotaInv
    OBVIOUS
  <1>1. ops \in Quota /\ sess \in Quota /\ ops.used = 0 /\ sess.used = 0
        /\ \A c \in Clients : ops.held[c] = 0 /\ sess.held[c] = 0
    BY DEF Init, Quota
  <1>2. Tally(Clients, ops.held) = 0 /\ Tally(Clients, sess.held) = 0
    BY <1>1, TallyZero, AdmissionAssumption, Zenon
  <1>3. \A l \in Leases : Measurements[l] = 0 /\ Sessions[l] = 0
    BY SMTT(60) DEF Init, Measurements, Sessions, Zero, Idle
  <1>4. \A c \in Clients : Tally(Of(c), Measurements) = 0 /\ Tally(Of(c), Sessions) = 0
    BY <1>3, OfFinite, TallyZero, Zenon
  <1>5. \A c \in Clients : PastHolds(c, FALSE) = {} /\ PastHolds(c, TRUE) = {}
    BY FreeSlot, Zenon DEF Init, PastHolds
  <1>6. Handlers = {}
    BY FreeSlot DEF Init, Handlers
  <1>7. Cardinality({}) = 0
    BY FS_EmptySet, SMTT(60)
  <1>8. \A c \in Clients : Cardinality(PastOf(FALSE)[c]) = 0 /\ Cardinality(PastOf(TRUE)[c]) = 0
    BY <1>5, <1>7, Zenon DEF PastOf
  <1>9. Counted(ops, Measurements, PastOf(FALSE), Handlers)
    <2>1. ASSUME NEW c \in Clients PROVE ops.held[c] = Tally(Of(c), Measurements) + Cardinality(PastOf(FALSE)[c])
      <3>1. ops.held[c] = 0
        BY <1>1, SMTT(60)
      <3>2. Tally(Of(c), Measurements) = 0
        BY <1>4, SMTT(60)
      <3>3. Cardinality(PastOf(FALSE)[c]) = 0
        BY <1>8, Zenon
      <3>4. 0 = 0 + 0
        OBVIOUS
      <3> QED
        BY <3>1, <3>2, <3>3, <3>4, Zenon
    <2>2. ops.used = Tally(Clients, ops.held) + Cardinality(Handlers)
      BY <1>1, <1>2, <1>6, <1>7
    <2> QED
      BY <2>1, <2>2, ZenonT(60) DEF Counted
  <1>10. Counted(sess, Sessions, PastOf(TRUE), {})
    <2>1. ASSUME NEW c \in Clients PROVE sess.held[c] = Tally(Of(c), Sessions) + Cardinality(PastOf(TRUE)[c])
      <3>1. sess.held[c] = 0
        BY <1>1
      <3>2. Tally(Of(c), Sessions) = 0
        BY <1>4
      <3>3. Cardinality(PastOf(TRUE)[c]) = 0
        BY <1>8, ZenonT(60)
      <3>4. 0 = 0 + 0
        OBVIOUS
      <3> QED
        BY <3>1, <3>2, <3>3, <3>4, Zenon
    <2>2. sess.used = Tally(Clients, sess.held) + Cardinality({})
      BY <1>1, <1>2, <1>7
    <2> QED
      BY <2>1, <2>2, Zenon DEF Counted
  <1>11. Total.m \in Nat /\ Total.s \in Nat /\ Share.m \in Nat /\ Share.s \in Nat
    BY AdmissionAssumption DEF Counts
  <1>12. Within(ops, Total.m, Share.m) /\ Within(sess, Total.s, Share.s)
    BY <1>1, <1>11, SMTT(60) DEF Within
  <1> QED
    BY <1>1, <1>9, <1>10, <1>12, ZenonT(60) DEF QuotaInv

LEMMA NextQuota == LeaseInv /\ LeaseInv' /\ QuotaInv /\ [Next]_vars => QuotaInv'
  <1> SUFFICES ASSUME LeaseInv, LeaseInv', QuotaInv, [Next]_vars PROVE QuotaInv'
    BY SMTT(60)
  <1>1. ASSUME NEW l \in Leases,
               (\E asked \in Asked : Create(l, asked) \/ Resize(l, asked)) \/ Cancel(l) \/ Arm(l) \/ Check(l) \/ Wake(l)
        PROVE  QuotaInv'
    BY <1>1, HoldsStay, WorkStays, QuotaKeeps, Zenon
  <1>2. ASSUME NEW l \in Leases, Raise(l) \/ Refuse(l) \/ Resized(l) \/ End(l) PROVE QuotaInv'
    BY <1>2, RaiseCounts, RefuseCounts, ResizedCounts, EndCounts
  <1>3. ASSUME NEW w \in Work, NEW session \in BOOLEAN,
               \/ \E l \in Leases : Find(w, l, session)
               \/ \E c \in Clients : AdmitUnleased(w, c, session)
        PROVE  QuotaInv'
    BY <1>3, FindCounts, AdmitUnleasedCounts, SMTT(60)
  <1>4. ASSUME NEW w \in Work, Admit(w) \/ RefuseWork(w) \/ Drop(w) \/ Release(w) \/ ReleaseLinked(w) PROVE QuotaInv'
    <2>1. TRUE \in BOOLEAN
      OBVIOUS
    <2> QED
      BY <1>4, <2>1, AdmitCounts, FindCounts, DropCounts, ReleaseCounts, ReleaseLinkedCounts, ZenonT(60)
  <1>5. CASE Tick
    BY <1>5, TickStays, WorkStays, QuotaKeeps
  <1>6. CASE UNCHANGED vars
    <2>1. Measurements' = Measurements /\ Sessions' = Sessions /\ slots' = slots /\ UNCHANGED <<ops, sess>>
      BY <1>6 DEF vars, Measurements, Sessions
    <2> QED
      BY <2>1, WorkStays, QuotaKeeps, SMTT(60)
  <1> QED
    BY <1>1, <1>2, <1>3, <1>4, <1>5, <1>6, Zenon DEF Next

\* For any clients, leases, requests and limits: however resizes, refusals,
\* ends and drops interleave, the two quotas count exactly the holds that exist
\* and no total and no client's share is passed (limits/quota.rs, admission.rs).
THEOREM QuotasAreExact == Spec => []QuotasExact
  <1>1. QuotaInv => QuotasExact
    <2>1. Cardinality({}) = 0
      BY FS_EmptySet
    <2> SUFFICES ASSUME QuotaInv PROVE QuotasExact
      BY SMTT(60)
    <2>2. Tally(Clients, sess.held) \in Nat
      <3>1. \A c \in Clients : sess.held[c] \in Nat
        BY Zenon DEF QuotaInv, Quota
      <3> QED
        BY <3>1, TallyType, AdmissionAssumption, SMTT(60)
    <2>3. \A c \in Clients : ops.held[c] = Tally(Of(c), Measurements) + Cardinality(PastHolds(c, FALSE))
      BY Zenon DEF QuotaInv, Counted, PastOf
    <2>4. \A c \in Clients : sess.held[c] = Tally(Of(c), Sessions) + Cardinality(PastHolds(c, TRUE))
      BY Zenon DEF QuotaInv, Counted, PastOf
    <2>5. ops.used = Tally(Clients, ops.held) + Cardinality(Handlers) /\ sess.used = Tally(Clients, sess.held)
      BY <2>1, <2>2 DEF QuotaInv, Counted
    <2> QED
      BY <2>3, <2>4, <2>5, ZenonT(60) DEF QuotaInv, Within, QuotasExact
  <1> QED
    BY <1>1, InitQuota, NextQuota, LeaseInvariant, PTL DEF Spec
==============================================================================
