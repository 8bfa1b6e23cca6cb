------------------------------ MODULE MCUploads ------------------------------
(***************************************************************************)
(* Uploads for TLC: the store with three IDs and two clients, whose leases *)
(* are charged to their creators, so both owners share the wide key; and   *)
(* one receiver with a stream lane, a datagram lane, a feed, a checkpoint  *)
(* and a finish, whose counters saturate at one.  Each is explored on its  *)
(* own: the store rests while the receiver moves, whose variables hold     *)
(* Nothing while the store does.                                           *)
(***************************************************************************)
EXTENDS UploadStore, TLC

CONSTANTS i1, i2, i3, o1, o2, k1, k2, wide, s1, c1, d1, f1, Nobody

VARIABLES
    focus,
    received, bytes, first, life, holder, observing, pending, lanes, feeds, got, checks, finishes, seen

MCIds == {i1, i2, i3}
MCOwners == {o1, o2}
Symmetry == Permutations(MCIds)
MCKeys == {k1, k2, wide}
MCCharged == o1 :> {k1, wide} @@ o2 :> {k2, wide}
MCShare == k1 :> 1 @@ k2 :> 2 @@ wide :> 3

R == INSTANCE UploadAggregate WITH
    Streams <- {s1}, Datagrams <- {d1}, Feeds <- {f1}, Checks <- {k1}, Finishes <- {c1},
    MaxCounter <- 1, MaxBytes <- 2, MaxTime <- 1, now <- received, sinks <- lanes

\* What the receiver's theorems ask of its constants.
ASSUME ReceiverFits == R!ReceiverAssumption

receiver == <<received, bytes, first, life, holder, observing, pending, lanes, feeds, got, checks, finishes, seen>>

NoReceiver ==
    /\ received = "Nothing" /\ bytes = "Nothing" /\ first = "Nothing" /\ life = "Nothing" /\ holder = "Nothing"
    /\ observing = "Nothing" /\ pending = "Nothing" /\ lanes = "Nothing" /\ feeds = "Nothing" /\ got = "Nothing"
    /\ checks = "Nothing" /\ finishes = "Nothing" /\ seen = "Nothing"

MCInit ==
    /\ Init
    /\ \/ focus = "store" /\ NoReceiver
       \/ focus = "receiver" /\ R!Init

MCNext ==
    \/ focus = "store" /\ Next /\ UNCHANGED <<focus, receiver>>
    \/ focus = "receiver" /\ R!Next /\ UNCHANGED <<focus, vars>>

MCvars == <<focus, vars, receiver>>

MCSpec == MCInit /\ [][MCNext]_MCvars

\* A receiver's total is told complete once every lane counted, and no byte is seen
\* without its time: see CompleteIsExact and BytesAreTimed of UploadAggregate.
TotalsExact == focus = "receiver" => R!TotalsExact

\* Observations follow one another, whoever makes them: see ObservationsFollow of
\* UploadAggregate.
ObservationsFollow == [][focus = "receiver" => R!ObservationsFollow]_MCvars
==============================================================================
