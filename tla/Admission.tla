------------------------------ MODULE Admission ------------------------------
(***************************************************************************)
(* Admission of measurement work (rust/server/src/admission.rs, limits/    *)
(* quota.rs, limits/mod.rs and the lease handler of app/control.rs).  A    *)
(* client takes a lease that holds part of the operations and sessions     *)
(* quotas; the requests that present it use its grant, or go past it on    *)
(* the client's share.  A resize takes its holds one by one with the       *)
(* lease's state locked while other clients use the quotas; an ended lease *)
(* gives back what its live work does not use.                             *)
(***************************************************************************)
EXTENDS Integers, FiniteSets, Counting

CONSTANTS
    Leases,     \* leases that may be created
    NoLease,    \* work that presents none
    Clients,    \* client keys
    Owner,      \* Owner[l]: the key whose share lease l charges
    Work,       \* requests that may be admitted at once
    Asked,      \* grants a client asks for: [m, s]
    Total,      \* Total.m, Total.s: GM_MAX_OPERATIONS and GM_MAX_SESSIONS
    Share       \* Share.m, Share.s: the limits per client

Counts == [m : Nat, s : Nat]

ASSUME AdmissionAssumption ==
    /\ NoLease \notin Leases /\ Clients # {}
    /\ Owner \in [Leases -> Clients]
    /\ Asked \subseteq Counts /\ Total \in Counts /\ Share \in Counts
    /\ IsFiniteSet(Leases) /\ IsFiniteSet(Clients) /\ IsFiniteSet(Work)

VARIABLES
    ops,        \* the operations quota: [used, held], held by client
    sess,       \* the sessions quota
    leases,     \* leases[l]: [st, grant, used, holds, live, since]
    sizing,     \* sizing[l]: the resize that has l's state locked, if any
    watch,      \* watch[l]: where the task that ends an unused l is
    woken,      \* woken[l]: `changed` was notified since that task armed
    aged,       \* aged[l]: UNUSED_BOUND passed since l last had live work
    slots       \* slots[w]: [pc, lease, client, session, granted]

vars == <<ops, sess, leases, sizing, watch, woken, aged, slots>>

Zero == [m |-> 0, s |-> 0]
Idle == [grant |-> Zero, raised |-> Zero, new |-> FALSE, on |-> FALSE]
Free == [pc |-> "Free", lease |-> NoLease, client |-> CHOOSE c \in Clients : TRUE,
         session |-> FALSE, granted |-> FALSE]
Plus(a, b) == [m |-> a.m + b.m, s |-> a.s + b.s]
Minus(a, b) == [m |-> a.m - b.m, s |-> a.s - b.s]
Max(a, b) == IF a > b THEN a ELSE b
Min(a, b) == IF a < b THEN a ELSE b
Unlocked(l) == ~sizing[l].on

(***************************************************************************)
(* The quotas: a client's share is checked before the total.               *)
(***************************************************************************)
Fits(q, c, total, share) == q.held[c] < share /\ q.used < total

Take(q, c) == [used |-> q.used + 1, held |-> [q.held EXCEPT ![c] = @ + 1]]

Give(q, c, n) == [used |-> q.used - n, held |-> [q.held EXCEPT ![c] = @ - n]]

\* A session past a grant also takes a handler, which no client's share counts.
TakeExempt(q) == [used |-> q.used + 1, held |-> q.held]

GiveExempt(q) == [used |-> q.used - 1, held |-> q.held]

FitsOperation(c) == Fits(ops, c, Total.m, Share.m)

FitsSession(c) == Fits(sess, c, Total.s, Share.s)

FitsPast(c, session) ==
    IF session THEN FitsSession(c) /\ ops.used < Total.m ELSE FitsOperation(c)

(***************************************************************************)
(* A lease's holds: those of its grant and of the slots in use.  `Fitted`  *)
(* is the lease with grant g and used u after `fit`; what it drops goes    *)
(* back to the quotas.                                                     *)
(***************************************************************************)
Wanted(g, u) == [m |-> Max(g.m, u.m), s |-> Max(g.s, u.s)]

Fit(h, g, u) == [m |-> Min(h.m, Wanted(g, u).m), s |-> Min(h.s, Wanted(g, u).s)]

Refit(l, lease) ==
    LET kept == Fit(lease.holds, lease.grant, lease.used)
    IN /\ leases' = [leases EXCEPT ![l] = [lease EXCEPT !.holds = kept]]
       /\ ops' = Give(ops, Owner[l], lease.holds.m - kept.m)
       /\ sess' = Give(sess, Owner[l], lease.holds.s - kept.s)

Init ==
    /\ ops = [used |-> 0, held |-> [c \in Clients |-> 0]]
    /\ sess = [used |-> 0, held |-> [c \in Clients |-> 0]]
    /\ leases = [l \in Leases |-> [st |-> "None", grant |-> Zero, used |-> Zero,
                                   holds |-> Zero, live |-> 0, since |-> "None"]]
    /\ sizing = [l \in Leases |-> Idle]
    /\ watch = [l \in Leases |-> "Off"]
    /\ woken = [l \in Leases |-> FALSE]
    /\ aged = [l \in Leases |-> TRUE]
    /\ slots = [w \in Work |-> Free]

(***************************************************************************)
(* The lease request: POST creates or resizes.                             *)
(***************************************************************************)
Clamped(asked) ==
    LET m == Min(asked.m, Share.m)
    IN [m |-> m, s |-> Min(Min(asked.s, Share.s), m)]

Create(l, asked) ==
    /\ leases[l].st = "None" /\ Unlocked(l)
    /\ sizing' = [sizing EXCEPT ![l] = [grant |-> Clamped(asked), raised |-> Zero,
                                        new |-> TRUE, on |-> TRUE]]
    /\ UNCHANGED <<ops, sess, leases, watch, woken, aged, slots>>

ResizeEnded(l, asked) ==
    /\ leases[l].st \in {"Live", "Cancelled", "Ended"} /\ Unlocked(l)
    /\ sizing' = [sizing EXCEPT ![l] = [grant |-> Clamped(asked), raised |-> Zero,
                                        new |-> FALSE, on |-> TRUE]]
    /\ UNCHANGED <<ops, sess, leases, watch, woken, aged, slots>>

\* A request may have found the lease before it ended; resize then does nothing.
Resize(l, asked) ==
    /\ leases[l].st = "Live" /\ Unlocked(l)
    /\ sizing' = [sizing EXCEPT ![l] = [grant |-> Clamped(asked), raised |-> Zero,
                                        new |-> FALSE, on |-> TRUE]]
    /\ UNCHANGED <<ops, sess, leases, watch, woken, aged, slots>>

Lacks(l) ==
    LET want == Wanted(sizing[l].grant, leases[l].used)
        have == leases[l].holds
        more == sizing[l].raised
    IN [s |-> have.s + more.s < want.s, m |-> have.m + more.m < want.m]

Took(l, more) ==
    sizing' = [sizing EXCEPT ![l] = [sizing[l] EXCEPT !.raised = Plus(sizing[l].raised, more)]]

\* The sessions first, then the measurements, one hold at a time.
Raise(l) ==
    /\ sizing[l].on
    /\ \/ /\ Lacks(l).s /\ FitsSession(Owner[l])
          /\ sess' = Take(sess, Owner[l])
          /\ Took(l, [m |-> 0, s |-> 1])
          /\ UNCHANGED ops
       \/ /\ ~Lacks(l).s /\ Lacks(l).m /\ FitsOperation(Owner[l])
          /\ ops' = Take(ops, Owner[l])
          /\ Took(l, [m |-> 1, s |-> 0])
          /\ UNCHANGED sess
    /\ UNCHANGED <<leases, watch, woken, aged, slots>>

RefuseKeeping(l) ==
    /\ sizing[l].on
    /\ \/ Lacks(l).s /\ ~FitsSession(Owner[l])
       \/ ~Lacks(l).s /\ Lacks(l).m /\ ~FitsOperation(Owner[l])
    /\ sizing' = [sizing EXCEPT ![l] = Idle]
    /\ UNCHANGED <<ops, sess, leases, watch, woken, aged, slots>>

\* A raise that does not fit drops what it took and changes nothing.
Refuse(l) ==
    /\ sizing[l].on
    /\ \/ Lacks(l).s /\ ~FitsSession(Owner[l])
       \/ ~Lacks(l).s /\ Lacks(l).m /\ ~FitsOperation(Owner[l])
    /\ ops' = Give(ops, Owner[l], sizing[l].raised.m)
    /\ sess' = Give(sess, Owner[l], sizing[l].raised.s)
    /\ sizing' = [sizing EXCEPT ![l] = Idle]
    /\ UNCHANGED <<leases, watch, woken, aged, slots>>

\* It fits: the holds are the lease's, lowered to the new grant if it shrank; a
\* new lease enters the map and its task starts.
Resized(l) ==
    /\ sizing[l].on /\ ~Lacks(l).s /\ ~Lacks(l).m
    /\ LET size == sizing[l]
       IN /\ Refit(l, [leases[l] EXCEPT !.grant = size.grant, !.holds = Plus(leases[l].holds, size.raised),
                           !.st = IF size.new THEN "Live" ELSE leases[l].st])
          /\ watch' = [watch EXCEPT ![l] = IF size.new THEN "Top" ELSE watch[l]]
    /\ sizing' = [sizing EXCEPT ![l] = Idle]
    /\ aged' = [aged EXCEPT ![l] = aged[l] /\ ~sizing[l].new]
    /\ UNCHANGED <<woken, slots>>

(***************************************************************************)
(* Work.  A request finds its lease in the map and is admitted later, when *)
(* the lease may have ended; one without a lease charges its client.       *)
(***************************************************************************)
Find(w, l, session) ==
    /\ slots[w].pc = "Free" /\ leases[l].st = "Live"
    /\ slots' = [slots EXCEPT ![w] = [pc |-> "Found", lease |-> l, client |-> Owner[l],
                                      session |-> session, granted |-> FALSE]]
    /\ UNCHANGED <<ops, sess, leases, sizing, watch, woken, aged>>

Granted(l, session) ==
    /\ leases[l].used.m < leases[l].grant.m
    /\ session => leases[l].used.s < leases[l].grant.s

TakePast(c, session) ==
    IF session THEN sess' = Take(sess, c) /\ ops' = TakeExempt(ops)
               ELSE ops' = Take(ops, c) /\ UNCHANGED sess

Uses(granted, session) == [m |-> IF granted THEN 1 ELSE 0, s |-> IF granted /\ session THEN 1 ELSE 0]

AdmittedKeepingAge(lease, granted, session) ==
    [lease EXCEPT !.used = Plus(lease.used, Uses(granted, session)), !.live = lease.live + 1]

Admitted(lease, granted, session) ==
    [lease EXCEPT !.used = Plus(lease.used, Uses(granted, session)), !.live = lease.live + 1, !.since = "None"]

Admit(w) ==
    LET l == slots[w].lease
        session == slots[w].session
    IN /\ slots[w].pc = "Found" /\ Unlocked(l)
       /\ IF Granted(l, session) THEN UNCHANGED <<ops, sess>>
          ELSE FitsPast(Owner[l], session) /\ TakePast(Owner[l], session)
       /\ leases' = [leases EXCEPT ![l] = Admitted(leases[l], Granted(l, session), session)]
       /\ slots' = [slots EXCEPT ![w] = [slots[w] EXCEPT !.pc = "Live", !.granted = Granted(l, session)]]
       /\ aged' = [aged EXCEPT ![l] = FALSE]
       /\ UNCHANGED <<sizing, watch, woken>>

\* Past the grant the client's share or a total may be used up.
RefuseWork(w) ==
    LET l == slots[w].lease
        session == slots[w].session
    IN /\ slots[w].pc = "Found" /\ Unlocked(l)
       /\ ~Granted(l, session) /\ ~FitsPast(Owner[l], session)
       /\ slots' = [slots EXCEPT ![w] = Free]
       /\ UNCHANGED <<ops, sess, leases, sizing, watch, woken, aged>>

AdmitUnleased(w, c, session) ==
    /\ slots[w].pc = "Free" /\ FitsPast(c, session)
    /\ TakePast(c, session)
    /\ slots' = [slots EXCEPT ![w] = [pc |-> "Past", lease |-> NoLease, client |-> c,
                                      session |-> session, granted |-> FALSE]]
    /\ UNCHANGED <<leases, sizing, watch, woken, aged>>

Dropped(lease, slot) ==
    [lease EXCEPT !.used = Minus(lease.used, Uses(slot.granted, slot.session)), !.live = lease.live - 1]

DropUntold(w) ==
    LET l == slots[w].lease
    IN /\ slots[w].pc = "Live" /\ Unlocked(l)
       /\ Refit(l, Dropped(leases[l], slots[w]))
       /\ slots' = [slots EXCEPT ![w] =
              IF slots[w].granted THEN Free ELSE [slots[w] EXCEPT !.pc = "Past"]]
       /\ UNCHANGED <<sizing, watch, woken, aged>>

\* The slot drops: it leaves the lease and wakes its task; a hold past the
\* grant is dropped after it.
Drop(w) ==
    LET l == slots[w].lease
    IN /\ slots[w].pc = "Live" /\ Unlocked(l)
       /\ Refit(l, Dropped(leases[l], slots[w]))
       /\ woken' = [woken EXCEPT ![l] = woken[l] \/ watch[l] \in {"Armed", "Wait", "Sleep"}]
       /\ slots' = [slots EXCEPT ![w] =
              IF slots[w].granted THEN Free ELSE [slots[w] EXCEPT !.pc = "Past"]]
       /\ UNCHANGED <<sizing, watch, aged>>

Release(w) ==
    LET c == slots[w].client
    IN /\ slots[w].pc = "Past"
       /\ IF slots[w].session
          THEN /\ sess' = Give(sess, c, 1) /\ UNCHANGED ops
               /\ slots' = [slots EXCEPT ![w] = [slots[w] EXCEPT !.pc = "Linked"]]
          ELSE /\ ops' = Give(ops, c, 1) /\ UNCHANGED sess
               /\ slots' = [slots EXCEPT ![w] = Free]
       /\ UNCHANGED <<leases, sizing, watch, woken, aged>>

\* A session's hold drops its handler last.
ReleaseLinked(w) ==
    /\ slots[w].pc = "Linked"
    /\ ops' = GiveExempt(ops)
    /\ slots' = [slots EXCEPT ![w] = Free]
    /\ UNCHANGED <<sess, leases, sizing, watch, woken, aged>>

(***************************************************************************)
(* Ending.  `end` takes the lease out of the map and cancels it, then      *)
(* locks its state.  A DELETE, a sign-out, a shutdown or the task's own    *)
(* bound may bring it; a second `end` changes nothing.                     *)
(***************************************************************************)
Cancel(l) ==
    /\ leases[l].st = "Live"
    /\ leases' = [leases EXCEPT ![l] = [leases[l] EXCEPT !.st = "Cancelled"]]
    /\ watch' = [watch EXCEPT ![l] = "Done"]
    /\ UNCHANGED <<ops, sess, sizing, woken, aged, slots>>

End(l) ==
    /\ leases[l].st = "Cancelled" /\ Unlocked(l)
    /\ Refit(l, [leases[l] EXCEPT !.st = "Ended", !.grant = Zero])
    /\ UNCHANGED <<sizing, watch, woken, aged, slots>>

\* unused(): the waiter is made before the state is read.
Arm(l) ==
    /\ watch[l] = "Top"
    /\ watch' = [watch EXCEPT ![l] = "Armed"]
    /\ woken' = [woken EXCEPT ![l] = FALSE]
    /\ UNCHANGED <<ops, sess, leases, sizing, aged, slots>>

Check(l) ==
    /\ watch[l] = "Armed" /\ Unlocked(l)
    /\ LET since == IF leases[l].live > 0 THEN leases[l].since
                    ELSE IF leases[l].since = "None" THEN "Recent" ELSE leases[l].since
       IN /\ leases' = [leases EXCEPT ![l] = [leases[l] EXCEPT !.since = since]]
          /\ watch' = [watch EXCEPT ![l] = CASE leases[l].live > 0 -> "Wait"
                                             [] leases[l].live = 0 /\ since = "Old" -> "Due"
                                             [] OTHER -> "Sleep"]
    /\ UNCHANGED <<ops, sess, sizing, woken, aged, slots>>

\* The bound's sleep was set from the `since` read at the check.
Wake(l) ==
    /\ \/ watch[l] \in {"Wait", "Sleep"} /\ woken[l]
       \/ watch[l] = "Slept"
    /\ watch' = [watch EXCEPT ![l] = "Top"]
    /\ UNCHANGED <<ops, sess, leases, sizing, woken, aged, slots>>

\* UNUSED_BOUND passes: what was recent is old, and sleeps of the bound end.
Tick ==
    /\ leases' = [l \in Leases |-> [leases[l] EXCEPT !.since = IF leases[l].since = "Recent" THEN "Old" ELSE leases[l].since]]
    /\ aged' = [l \in Leases |-> leases[l].live = 0]
    /\ watch' = [l \in Leases |-> IF watch[l] = "Sleep" THEN "Slept" ELSE watch[l]]
    /\ UNCHANGED <<ops, sess, sizing, woken, slots>>

Next ==
    \/ \E l \in Leases, asked \in Asked : Create(l, asked) \/ Resize(l, asked)
    \/ \E l \in Leases : \/ Raise(l) \/ Refuse(l) \/ Resized(l) \/ Cancel(l) \/ End(l)
                         \/ Arm(l) \/ Check(l) \/ Wake(l)
    \/ \E w \in Work, session \in BOOLEAN :
          \/ \E l \in Leases : Find(w, l, session)
          \/ \E c \in Clients : AdmitUnleased(w, c, session)
    \/ \E w \in Work : Admit(w) \/ RefuseWork(w) \/ Drop(w) \/ Release(w) \/ ReleaseLinked(w)
    \/ Tick

Spec == Init /\ [][Next]_vars

(***************************************************************************)
(* Fairness: a resize runs to its end, a lease's task runs and time        *)
(* passes.  Once due, the task ends the lease.                             *)
(***************************************************************************)
Fairness ==
    /\ WF_vars(Tick)
    /\ \A l \in Leases :
          /\ WF_vars(Raise(l) \/ Refuse(l) \/ Resized(l)) /\ SF_vars(End(l))
          /\ SF_vars(Arm(l) \/ Check(l) \/ Wake(l) \/ (watch[l] = "Due" /\ Cancel(l)))

(***************************************************************************)
(* Properties.                                                             *)
(***************************************************************************)
Of(c) == {l \in Leases : Owner[l] = c}

\* What the leases hold and what unfinished resizes took.
Measurements == [l \in Leases |-> leases[l].holds.m + sizing[l].raised.m]
Sessions == [l \in Leases |-> leases[l].holds.s + sizing[l].raised.s]

\* What work past a grant or without a lease holds, and the handlers of its sessions.
PastHolds(c, session) ==
    {w \in Work : /\ slots[w].client = c /\ slots[w].session = session
                  /\ \/ slots[w].pc = "Past"
                     \/ slots[w].pc = "Live" /\ ~slots[w].granted}
Handlers ==
    {w \in Work : slots[w].session /\ ~slots[w].granted /\ slots[w].pc \in {"Live", "Past", "Linked"}}

\* Both quotas count exactly the holds that exist: those of the leases, those
\* an unfinished resize took, and those of work past a grant or without a
\* lease.  Neither a total nor a client's share is ever passed, whatever
\* resizes, ends and drops race.
QuotasExact ==
    /\ \A c \in Clients :
         /\ ops.held[c] = Tally(Of(c), Measurements) + Cardinality(PastHolds(c, FALSE)) /\ ops.held[c] <= Share.m
         /\ sess.held[c] = Tally(Of(c), Sessions) + Cardinality(PastHolds(c, TRUE)) /\ sess.held[c] <= Share.s
    /\ ops.used = Tally(Clients, ops.held) + Cardinality(Handlers) /\ ops.used <= Total.m
    /\ sess.used = Tally(Clients, sess.held) /\ sess.used <= Total.s

\* The live work within l's grant.
LiveOf(l) == {w \in Work : slots[w].lease = l /\ slots[w].pc = "Live"}
GrantedOf(l) == {w \in LiveOf(l) : slots[w].granted}

\* A lease holds what it granted and what its live work uses, never less: work
\* admitted within the grant keeps its hold when the grant is lowered or ends.
\* An ended lease has no grant, even when a resize was running as it ended.
LeaseCovered ==
    \A l \in Leases :
        /\ leases[l].used.m = Cardinality(GrantedOf(l))
        /\ leases[l].used.s = Cardinality({w \in GrantedOf(l) : slots[w].session})
        /\ leases[l].holds = Wanted(leases[l].grant, leases[l].used)
        /\ leases[l].st = "Ended" => leases[l].grant = Zero

\* A lease falls due only when nothing presenting it has been live for
\* UNUSED_BOUND, counted anew from its last work.
DueOnlyUnused ==
    [][\A l \in Leases : watch'[l] = "Due" /\ watch[l] # "Due" =>
        leases[l].live = 0 /\ aged[l]]_vars

\* A lease does not outlive its use: an unused one ends, since its task misses
\* neither the end of the last work nor the bound, and a cancelled one gives its
\* grant back however its end and a resize interleave.
LeasesEnd ==
    \A l \in Leases :
        /\ (leases[l].st = "Live" /\ leases[l].live = 0) ~>
              (leases[l].st # "Live" \/ leases[l].live > 0)
        /\ leases[l].st = "Cancelled" ~> leases[l].st = "Ended"
==============================================================================
