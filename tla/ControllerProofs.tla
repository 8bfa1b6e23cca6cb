-------------------------- MODULE ControllerProofs ---------------------------
(***************************************************************************)
(* No lease of the terminal client is left behind, and its controller      *)
(* implements Operations, for any number of clients and operations and any *)
(* bounds.                                                                 *)
(*                                                                         *)
(* NoLeaseOrphaned is not inductive alone.  What it rests on: a client     *)
(* that prepares, runs or is kept is not being ended, a client whose end   *)
(* was waited for has no lease once it is over, and a stop never leaves a  *)
(* preparation with a lease until its grace is out (it is cut at once).    *)
(***************************************************************************)
EXTENDS Controller, TLAPS

Timer == Nat \cup {Off}
Ending == {"EndKept", "EndAsked", "EndStopped", "EndRun"}
Pcs == {"Waiting", "Preparing", "SigningIn", "Running"} \cup Ending
Op == [kind : {"Check", "Run"}, stop : BOOLEAN, replaced : BOOLEAN, done : BOOLEAN]
Work == [pc : Pcs, client : Clients \cup {None}, left : Timer, approved : Nat, finished : Nat]
Client == [asked : Timer, held : BOOLEAN, ending : {"No", "Waiting", "Deleting"}, deleting : Timer]

Types ==
    /\ ops \in Seq(Op) /\ work \in Work /\ kept \in Clients \cup {None}
    /\ clients \in [Clients -> Client]

\* The operation under way is the chain's first, and keeps no check while it is.
Chained ==
    /\ work.pc \in {"Waiting", "SigningIn"} <=> work.client = None
    /\ work.pc = "Waiting" => work.left = Off
    /\ work.pc # "Waiting" => /\ ops # <<>> /\ ~Head1.done /\ kept = None
                              /\ work.left # Off => Head1.stop

Kept ==
    /\ \A k \in Clients : clients[k].ending = "Deleting" => clients[k].asked = Off
    /\ \A k \in Clients : kept = k => clients[k].ending = "No"
    /\ \A k \in Clients : work.client = k /\ work.pc \in {"Preparing", "Running"} => clients[k].ending = "No"
    /\ \A k \in Clients : work.client = k /\ work.pc \in Ending /\ Leased(k) => clients[k].ending # "No"
    /\ \A k \in Clients : work.client = k /\ work.pc = "Preparing" /\ Leased(k) /\ work.left # Off
                             => work.left = Grace

LeaseInv == Types /\ Chained /\ Kept /\ NoLeaseOrphaned

LEMMA LeaseInit ==
    ASSUME Init
    PROVE  LeaseInv
  <1>1. Types
    BY Sized DEF Init, Types, Waiting, Unleased, Off, Timer, Op, Work, Client, Pcs
  <1>2. Chained /\ Kept /\ NoLeaseOrphaned
    BY Sized DEF Init, Chained, Kept, NoLeaseOrphaned, Waiting, Unleased, Off, None, Leased, Ending
  <1> QED BY <1>1, <1>2 DEF LeaseInv

\* What a change of one client's record leaves.
LEMMA EndsAsEffect ==
    ASSUME Types, NEW k \in Clients, NEW ending \in {"No", "Waiting", "Deleting"},
           NEW deleting \in Timer, NEW held \in BOOLEAN, EndsAs(k, ending, deleting, held)
    PROVE  /\ clients' \in [Clients -> Client]
           /\ clients'[k].asked = clients[k].asked
           /\ clients'[k].ending = ending
           /\ clients'[k].held = held
           /\ \A j \in Clients : j # k => clients'[j] = clients[j]
  <1>1. [clients[k] EXCEPT !.ending = ending, !.deleting = deleting, !.held = held] \in Client
    BY Zenon DEF Types, Client
  <1>2. clients' \in [Clients -> Client]
    BY <1>1 DEF EndsAs, Types
  <1>3. clients'[k] = [clients[k] EXCEPT !.ending = ending, !.deleting = deleting, !.held = held]
    BY DEF EndsAs, Types
  <1>4. \A j \in Clients : j # k => clients'[j] = clients[j]
    BY DEF EndsAs, Types
  <1>5. /\ clients'[k].asked = clients[k].asked
        /\ clients'[k].ending = ending
        /\ clients'[k].held = held
    BY <1>3 DEF Types, Client
  <1> QED BY <1>2, <1>4, <1>5

\* A lease's request is answered, or its end goes on.
LEMMA AnswerStep ==
    ASSUME LeaseInv, NEW k \in Clients, Answer(k) \/ EndLeases(k)
    PROVE  LeaseInv'
  <1>1. UNCHANGED <<ops, work, kept>>
    BY Zenon DEF Answer, EndLeases
  <1>2. CASE Answer(k)
    <2>1. PICK held \in {clients[k].held, TRUE} :
              clients' = [clients EXCEPT ![k] = [clients[k] EXCEPT !.asked = Off, !.held = held]]
      BY <1>2, Zenon DEF Answer
    <2>2. clients[k].asked # Off
      BY <1>2 DEF Answer
    <2>a. held \in BOOLEAN
      BY Zenon DEF LeaseInv, Types, Client
    <2>3. clients' \in [Clients -> Client]
      <3>1. [clients[k] EXCEPT !.asked = Off, !.held = held] \in Client
        BY <2>a, Zenon DEF LeaseInv, Types, Client, Timer
      <3> QED BY <2>1, <3>1 DEF LeaseInv, Types
    <2>4. Types'
      BY <1>1, <2>3 DEF LeaseInv, Types, Work, Op
    <2>5. \A j \in Clients : /\ clients'[j].ending = clients[j].ending
                             /\ clients'[j].asked \in {clients[j].asked, Off}
                             /\ j # k => clients'[j] = clients[j]
      BY <2>1 DEF LeaseInv, Types, Client
    <2>6. Leased(k)
      BY <2>2 DEF Leased
    <2>7. \A j \in Clients : Leased(j)' => Leased(j)
      BY <2>5, <2>6 DEF Leased
    <2>8. (Chained /\ Kept /\ NoLeaseOrphaned)'
      BY <1>1, <2>5, <2>7 DEF LeaseInv, Chained, Kept, NoLeaseOrphaned, Head1
    <2> QED BY <2>4, <2>8 DEF LeaseInv
  <1>3. CASE EndLeases(k)
    <2>1. clients[k].ending # "No" /\ clients[k].asked = Off
      BY <1>3, Zenon DEF EndLeases, Snapshot, LeaseInv, Kept
    <2>2. \/ EndsAs(k, "Deleting", DeleteTimeout, TRUE)
          \/ EndsAs(k, "No", Off, FALSE)
      BY <1>3, Zenon DEF EndLeases
    <2>3. Types /\ Off \in Timer /\ DeleteTimeout \in Timer
      BY Sized DEF LeaseInv, Timer
    <2>4. clients' \in [Clients -> Client]
      BY <2>2, <2>3, EndsAsEffect, Zenon
    <2>5. \A j \in Clients : j # k => clients'[j] = clients[j]
      BY <2>2, <2>3, EndsAsEffect, Zenon
    <2>6. clients'[k].asked = Off
      BY <2>1, <2>2, <2>3, EndsAsEffect, Zenon
    <2>7. clients'[k].ending = "No" => ~clients'[k].held
      <3>1. CASE EndsAs(k, "Deleting", DeleteTimeout, TRUE)
        BY <3>1, <2>3, EndsAsEffect, Zenon
      <3>2. CASE EndsAs(k, "No", Off, FALSE)
        BY <3>2, <2>3, EndsAsEffect, Zenon
      <3> QED BY <2>2, <3>1, <3>2, Zenon
    <2>9. Types'
      BY <1>1, <2>4 DEF LeaseInv, Types, Work, Op
    <2>8. (Chained /\ Kept /\ NoLeaseOrphaned)'
      BY <1>1, <2>1, <2>5, <2>6, <2>7 DEF LeaseInv, Chained, Kept, NoLeaseOrphaned, Head1, Leased
    <2> QED BY <2>9, <2>8 DEF LeaseInv
  <1> QED BY <1>2, <1>3

\* What Ends and Dropped leave of the clients.
LEMMA EndsEffect ==
    ASSUME Types, NEW k \in Clients
    PROVE  /\ Ends(clients, k) \in [Clients -> Client]
           /\ Ends(clients, k)[k].asked = clients[k].asked
           /\ Ends(clients, k)[k].held = clients[k].held
           /\ Ends(clients, k)[k].ending = "Waiting"
           /\ \A j \in Clients : j # k => Ends(clients, k)[j] = clients[j]
  <1> DEFINE r == [clients[k] EXCEPT !.ending = "Waiting", !.deleting = Off]
  <1>1. r \in Client
    BY Zenon DEF Types, Client, Timer
  <1>2. Ends(clients, k) \in [Clients -> Client]
    BY <1>1 DEF Ends, Types
  <1>3. Ends(clients, k)[k] = r
    BY DEF Ends, Types
  <1>4. r.asked = clients[k].asked /\ r.ending = "Waiting"
    BY DEF Types, Client
  <1>5. r.held = clients[k].held
    BY DEF Types, Client
  <1>6. \A j \in Clients : j # k => Ends(clients, k)[j] = clients[j]
    BY DEF Ends, Types
  <1> HIDE DEF r
  <1> QED BY <1>2, <1>3, <1>4, <1>5, <1>6

\* An operation that ends leaves LeaseInv, if every lease is kept or ending.
LEMMA DoneStep ==
    ASSUME Types, ops # <<>>, Done,
           kept' \in Clients \cup {None}, clients' \in [Clients -> Client],
           \A k \in Clients : clients'[k].ending = "Deleting" => clients'[k].asked = Off,
           \A k \in Clients : kept' = k => clients'[k].ending = "No",
           \A k \in Clients : Leased(k)' => kept' = k \/ clients'[k].ending # "No"
    PROVE  LeaseInv'
  <1>1. Head1 \in Op
    BY DEF Types, Head1
  <1>2. [Head1 EXCEPT !.done = TRUE] \in Op
    BY <1>1, Zenon DEF Op
  <1>3. ops' \in Seq(Op)
    BY <1>2 DEF Done, Types
  <1>4. work' = Waiting
    BY DEF Done
  <1>5. Waiting \in Work
    BY DEF Work, Waiting, Pcs, Timer
  <1>6. Types'
    BY <1>3, <1>4, <1>5 DEF Types
  <1>7. (Chained /\ Kept /\ NoLeaseOrphaned)'
    BY <1>4, Sized DEF Chained, Kept, NoLeaseOrphaned, Waiting, Ending
  <1> QED BY <1>6, <1>7 DEF LeaseInv

\* An operation that waits for its client's leases to end keeps LeaseInv.
LEMMA EndingStep ==
    ASSUME LeaseInv, NEW k \in Clients, clients' = Ends(clients, k),
           UNCHANGED ops, ops # <<>>, ~Head1.done,
           work' \in Work, work'.client = k, work'.pc \in Ending, work'.left # Off => Head1.stop,
           kept' = None, work.client \in {k, None}, kept \in {k, None}
    PROVE  LeaseInv'
  <1>1. /\ clients' \in [Clients -> Client]
        /\ clients'[k].asked = clients[k].asked
        /\ clients'[k].ending = "Waiting"
        /\ \A j \in Clients : j # k => clients'[j] = clients[j]
    BY EndsEffect DEF LeaseInv
  <1>2. Types'
    BY <1>1 DEF LeaseInv, Types
  <1>3. Chained'
    BY Sized DEF LeaseInv, Chained, Head1, Ending
  <1>4. \A j \in Clients : j # k => (Leased(j)' <=> Leased(j))
    BY <1>1 DEF Leased
  <1>5. Kept' /\ NoLeaseOrphaned'
    BY <1>1, <1>4, Sized DEF LeaseInv, Kept, NoLeaseOrphaned, Ending
  <1> QED BY <1>2, <1>3, <1>5 DEF LeaseInv

\* An operation that goes on and leaves the clients alone keeps LeaseInv.
LEMMA GoingStep ==
    ASSUME LeaseInv, UNCHANGED <<ops, clients>>, ops # <<>>, ~Head1.done,
           work' \in Work, work'.left # Off => Head1.stop, kept' = None,
           \/ work'.pc = "SigningIn" /\ work'.client = None
           \/ /\ work'.pc \in {"Preparing", "Running"}
              /\ work'.client # None /\ clients[work'.client].ending = "No",
           work'.pc = "Preparing" => ~Leased(work'.client),
           \A k \in Clients : Leased(k) => work'.client = k \/ clients[k].ending # "No"
    PROVE  LeaseInv'
  <1>1. Types'
    BY DEF LeaseInv, Types
  <1>2. Chained'
    BY DEF LeaseInv, Chained, Head1
  <1>3. \A j \in Clients : Leased(j)' <=> Leased(j)
    BY DEF Leased
  <1>4. Kept' /\ NoLeaseOrphaned'
    BY <1>3, Sized DEF LeaseInv, Kept, NoLeaseOrphaned, Ending
  <1> QED BY <1>1, <1>2, <1>4 DEF LeaseInv

\* A run that took prepared paths.
LEMMA RunsStep ==
    ASSUME LeaseInv, NEW k \in Clients, NEW from \in Work, NEW sent, Runs(from, k, sent),
           ops # <<>>, ~Head1.done, from.left # Off => Head1.stop,
           kept' = None, work.client \in {k, None}, kept \in {k, None},
           clients[k].ending = "No"
    PROVE  LeaseInv'
  <1>1. \A j \in Clients : Leased(j) => j = k \/ clients[j].ending # "No"
    BY Sized DEF LeaseInv, NoLeaseOrphaned
  <1>2. CASE work' = [from EXCEPT !.pc = "Running", !.client = k] /\ UNCHANGED <<ops, clients>>
    <2>1. work' \in Work /\ work'.pc = "Running" /\ work'.client = k /\ work'.left = from.left
      BY <1>2, Zenon DEF Work, Pcs
    <2> QED BY <1>1, <1>2, <2>1, GoingStep, Sized
  <1>3. CASE /\ work' = [from EXCEPT !.pc = "EndRun", !.client = k, !.finished = 1]
             /\ clients' = Ends(clients, k) /\ UNCHANGED ops
    <2>1. work' \in Work /\ work'.pc = "EndRun" /\ work'.client = k /\ work'.left = from.left
      BY <1>3, ZenonT(60) DEF Work, Pcs, Ending
    <2> QED BY <1>3, <2>1, EndingStep DEF Ending
  <1> QED BY <1>2, <1>3 DEF Runs

LEMMA BeginStep ==
    ASSUME LeaseInv, Begin
    PROVE  LeaseInv'
  <1> DEFINE begun == [work EXCEPT !.left = IF Head1.stop THEN Grace ELSE Off]
             checking == Event(IF Is("Run") THEN "CheckingRun" ELSE "CheckingCheck")
  <1>1. ops # <<>> /\ ~Head1.done /\ work.client = None /\ Types
    BY Zenon DEF Begin, At, LeaseInv, Chained
  <1>2. (IF Head1.stop THEN Grace ELSE Off) \in Timer
    BY Sized DEF Timer
  <1>3. begun \in Work
    BY <1>1, <1>2 DEF Types, Work
  <1>4. begun.left # Off => Head1.stop
    BY <1>1 DEF Types, Work
  <1>5. CASE /\ kept = None
             /\ \E k \in Clients : Unused(k) /\ work' = [begun EXCEPT !.pc = "Preparing", !.client = k]
             /\ UNCHANGED <<ops, kept, clients>>
    <2>1. PICK k \in Clients : Unused(k) /\ work' = [begun EXCEPT !.pc = "Preparing", !.client = k]
      BY <1>5, Zenon
    <2>2. work' \in Work /\ work'.pc = "Preparing" /\ work'.client = k /\ work'.left = begun.left
      BY <1>3, <2>1, Zenon DEF Work, Pcs
    <2>3. clients[k].ending = "No" /\ ~Leased(k)
      BY <2>1 DEF Unused, Unleased, Leased
    <2>4. \A j \in Clients : Leased(j) => clients[j].ending # "No"
      BY <1>1, <1>5, Sized DEF LeaseInv, NoLeaseOrphaned
    <2> QED BY <1>1, <1>4, <1>5, <2>2, <2>3, <2>4, GoingStep, Sized
  <1>6. CASE /\ kept # None /\ kept' = None /\ work' = [begun EXCEPT !.pc = "EndKept", !.client = kept]
             /\ clients' = Ends(clients, kept) /\ UNCHANGED ops
    <2>1. work' \in Work /\ work'.pc = "EndKept" /\ work'.client = kept /\ work'.left = begun.left
      BY <1>1, <1>3, <1>6, Zenon DEF Work, Pcs, Ending, Types
    <2>2. kept \in Clients
      BY <1>1, <1>6 DEF Types
    <2> QED BY <1>1, <1>4, <1>6, <2>1, <2>2, EndingStep DEF Ending
  <1>7. CASE kept # None /\ kept' = None /\ Runs(begun, kept, <<checking>>)
    <2>1. kept \in Clients /\ clients[kept].ending = "No"
      BY <1>1, <1>7 DEF LeaseInv, Types, Kept
    <2> QED BY <1>1, <1>3, <1>4, <1>7, <2>1, RunsStep, Zenon
  <1>8. CASE kept # None /\ kept' = None /\ clients' = Dropped(kept) /\ Done
    <2>1. kept \in Clients /\ clients[kept].ending = "No"
      BY <1>1, <1>8 DEF LeaseInv, Types, Kept
    <2>2. \A j \in Clients : Leased(j) => j = kept \/ clients[j].ending # "No"
      BY <1>1, Sized DEF LeaseInv, NoLeaseOrphaned
    <2>3. CASE Leased(kept)
      <3>1. clients' = Ends(clients, kept)
        BY <1>8, <2>3 DEF Dropped
      <3>2. /\ clients' \in [Clients -> Client]
            /\ clients'[kept].ending = "Waiting"
            /\ \A j \in Clients : j # kept => clients'[j] = clients[j]
        BY <1>1, <2>1, <3>1, EndsEffect
      <3>3. \A j \in Clients : j # kept => (Leased(j)' <=> Leased(j))
        BY <3>2 DEF Leased
      <3> QED BY <1>1, <1>8, <2>1, <2>2, <3>2, <3>3, DoneStep, Sized DEF LeaseInv, Kept
    <2>4. CASE ~Leased(kept)
      <3>1. clients' = clients
        BY <1>8, <2>4 DEF Dropped
      <3>2. \A j \in Clients : Leased(j)' <=> Leased(j)
        BY <3>1 DEF Leased
      <3> QED BY <1>1, <1>8, <2>1, <2>2, <2>4, <3>1, <3>2, DoneStep, Sized DEF LeaseInv, Types, Kept
    <2> QED BY <2>3, <2>4
  <1> HIDE DEF begun, checking
  <1> QED BY <1>5, <1>6, <1>7, <1>8, Zenon DEF Begin, begun, checking

\* A lease or a receiver is asked for.
LEMMA AskStep ==
    ASSUME LeaseInv, Ask \/ Mint
    PROVE  LeaseInv'
  <1> DEFINE k == work.client
  <1>1. /\ clients' = [clients EXCEPT ![k].asked = ControlTimeout] /\ UNCHANGED <<ops, work, kept>>
        /\ work.pc \in {"Preparing", "Running"} /\ ~Head1.stop
    BY DEF Ask, Mint, At
  <1>2. k \in Clients /\ work.left = Off /\ clients[k].ending = "No"
    BY <1>1 DEF LeaseInv, Types, Work, Chained, Kept
  <1>3. clients' \in [Clients -> Client]
    <2>1. [clients[k] EXCEPT !.asked = ControlTimeout] \in Client
      BY <1>2, Sized, SMTT(60) DEF LeaseInv, Types, Client, Timer
    <2>2. clients' = [clients EXCEPT ![k] = [clients[k] EXCEPT !.asked = ControlTimeout]]
      BY <1>1
    <2> QED BY <2>1, <2>2, Zenon DEF LeaseInv, Types
  <1>4. clients'[k].ending = "No" /\ \A j \in Clients : j # k => clients'[j] = clients[j]
    BY <1>1, <1>2 DEF LeaseInv, Types, Client
  <1>5. Types'
    BY <1>1, <1>3 DEF LeaseInv, Types
  <1>6. Chained'
    BY <1>1 DEF LeaseInv, Chained, Head1
  <1>7. \A j \in Clients : j # k => (Leased(j)' <=> Leased(j))
    BY <1>4 DEF Leased
  <1> HIDE DEF k
  <1>8. Kept' /\ NoLeaseOrphaned'
    BY <1>1, <1>2, <1>4, <1>7 DEF LeaseInv, Kept, NoLeaseOrphaned, Ending, k
  <1> QED BY <1>5, <1>6, <1>8 DEF LeaseInv

LEMMA PreparedStep ==
    ASSUME LeaseInv, PreparedPaths
    PROVE  LeaseInv'
  <1>1. /\ ops # <<>> /\ ~Head1.done /\ work.pc = "Preparing" /\ work.client \in Clients
        /\ kept = None /\ clients[work.client].ending = "No" /\ Types
    BY DEF PreparedPaths, At, LeaseInv, Types, Work, Chained, Kept
  <1>2. work \in Work /\ (work.left # Off => Head1.stop)
    BY <1>1 DEF LeaseInv, Chained, Types
  <1>3. CASE Runs(work, work.client, <<>>) /\ UNCHANGED kept
    BY <1>1, <1>2, <1>3, RunsStep DEF Types, LeaseInv, Chained
  <1>4. CASE kept' = work.client /\ Done /\ UNCHANGED clients
    <2>1. \A j \in Clients : Leased(j)' <=> Leased(j)
      BY <1>4 DEF Leased
    <2>2. \A j \in Clients : Leased(j) => work.client = j \/ clients[j].ending # "No"
      BY <1>1, Sized DEF LeaseInv, NoLeaseOrphaned
    <2> QED BY <1>1, <1>4, <2>1, <2>2, DoneStep DEF LeaseInv, Types, Kept
  <1> QED BY <1>3, <1>4 DEF PreparedPaths

\* An operation that ends where nothing is leased but what is ending.
LEMMA EndStep ==
    ASSUME LeaseInv, ops # <<>>, Done, UNCHANGED <<kept, clients>>,
           \A k \in Clients : work.client = k /\ Leased(k) => clients[k].ending # "No"
    PROVE  LeaseInv'
  <1>1. \A j \in Clients : Leased(j)' <=> Leased(j)
    BY DEF Leased
  <1> QED BY <1>1, DoneStep DEF LeaseInv, Types, Kept, NoLeaseOrphaned

LEMMA PreparationStep ==
    ASSUME LeaseInv, PreparationFailed \/ Unapproved
    PROVE  LeaseInv'
  <1>1. ops # <<>> /\ Done /\ UNCHANGED <<kept, clients>>
    BY DEF PreparationFailed, Unapproved, At
  <1>2. \A k \in Clients : work.client = k => ~Leased(k)
    BY Sized DEF PreparationFailed, Unapproved, At, LeaseInv, Chained
  <1> QED BY <1>1, <1>2, EndStep

LEMMA SignInStep ==
    ASSUME LeaseInv, AsksSignIn \/ Approved
    PROVE  LeaseInv'
  <1>1. /\ ops # <<>> /\ ~Head1.done /\ ~Head1.stop /\ work.pc \in {"Preparing", "SigningIn"}
        /\ kept = None /\ UNCHANGED <<ops, kept>> /\ Types /\ work \in Work /\ work.left = Off
    BY Zenon DEF AsksSignIn, Approved, At, LeaseInv, Types, Chained, Goes
  <1>2. CASE AsksSignIn /\ Leased(work.client)
    <2>1. clients' = Ends(clients, work.client) /\ work' = [work EXCEPT !.pc = "EndAsked", !.client = work.client]
      BY <1>2 DEF AsksSignIn, Goes
    <2>2. work.client \in Clients
      BY <1>1, <1>2 DEF AsksSignIn, At, LeaseInv, Chained, Work
    <2>3. work' \in Work /\ work'.pc = "EndAsked" /\ work'.client = work.client /\ work'.left = Off
      BY <1>1, <2>1, Zenon DEF Work, Pcs, Ending
    <2> QED BY <1>1, <2>1, <2>2, <2>3, EndingStep DEF Ending
  <1>3. CASE AsksSignIn /\ ~Leased(work.client)
    <2>1. UNCHANGED clients /\ work' = [work EXCEPT !.pc = "SigningIn", !.client = None]
      BY <1>3 DEF AsksSignIn, Goes
    <2>2. work' \in Work /\ work'.pc = "SigningIn" /\ work'.client = None /\ work'.left = Off
      BY <1>1, <2>1, Zenon DEF Work, Pcs
    <2>3. \A j \in Clients : Leased(j) => clients[j].ending # "No"
      BY <1>1, <1>3, Sized DEF LeaseInv, NoLeaseOrphaned
    <2> QED BY <1>1, <2>1, <2>2, <2>3, GoingStep
  <1>4. CASE Approved
    <2>1. PICK k \in Clients, n \in Nat :
              Unused(k) /\ work' = [work EXCEPT !.pc = "Preparing", !.client = k, !.approved = n]
      <3>1. work.approved + 1 \in Nat
        BY <1>1 DEF Work
      <3> QED BY <1>4, <3>1, Zenon DEF Approved
    <2>2. UNCHANGED clients /\ work.client = None
      BY <1>4, Zenon DEF Approved, At, LeaseInv, Chained
    <2>3. work' \in Work /\ work'.pc = "Preparing" /\ work'.client = k /\ work'.left = Off
      BY <1>1, <2>1, Zenon DEF Work, Pcs
    <2>4. clients[k].ending = "No" /\ ~Leased(k)
      BY <2>1 DEF Unused, Unleased, Leased
    <2>5. \A j \in Clients : Leased(j) => clients[j].ending # "No"
      BY <1>1, <2>2, Sized DEF LeaseInv, NoLeaseOrphaned
    <2> QED BY <1>1, <2>2, <2>3, <2>4, <2>5, GoingStep, Sized
  <1> QED BY <1>2, <1>3, <1>4, SMTT(60)

\* A stop cuts the preparation or the sign-in.
LEMMA CutStep ==
    ASSUME LeaseInv, Cut
    PROVE  LeaseInv'
  <1>1. ops # <<>> /\ Head1.stop /\ ~Head1.done /\ UNCHANGED kept /\ kept = None /\ Types /\ work \in Work
    BY DEF Cut, At, LeaseInv, Types, Chained
  <1>2. CASE At("Preparing") /\ clients' = Ends(clients, work.client) /\ Goes("EndStopped", work.client)
    <2>1. work.client \in Clients
      BY <1>1, <1>2 DEF At, LeaseInv, Chained, Work
    <2>2. work' \in Work /\ work'.pc = "EndStopped" /\ work'.client = work.client
      BY <1>1, <1>2, Zenon DEF Goes, Work, Pcs, Ending
    <2> QED BY <1>1, <1>2, <2>1, <2>2, EndingStep DEF Goes, Ending
  <1>3. CASE At("SigningIn") /\ UNCHANGED clients /\ Done
    <2>1. work.client = None
      BY <1>3 DEF At, LeaseInv, Chained
    <2> QED BY <1>1, <1>3, <2>1, EndStep, Sized
  <1> QED BY <1>2, <1>3 DEF Cut

LEMMA LeasesEndedStep ==
    ASSUME LeaseInv, LeasesEnded
    PROVE  LeaseInv'
  <1>1. /\ ops # <<>> /\ ~Head1.done /\ work.pc \in Ending /\ work.client \in Clients
        /\ UNCHANGED <<kept, clients>> /\ kept = None /\ Types /\ work \in Work
    BY DEF LeasesEnded, At, LeaseInv, Types, Work, Chained, Ending
  <1>2. ~Leased(work.client) /\ (work.left # Off => Head1.stop)
    BY <1>1 DEF LeasesEnded, LeaseInv, Kept, Chained, Ending
  <1>3. \A j \in Clients : Leased(j) => clients[j].ending # "No"
    BY <1>1, <1>2, Sized DEF LeaseInv, NoLeaseOrphaned
  <1>4. CASE \E k \in Clients : Unused(k) /\ Goes("Preparing", k)
    <2>1. PICK k \in Clients : Unused(k) /\ Goes("Preparing", k)
      BY <1>4
    <2>2. work' \in Work /\ work'.pc = "Preparing" /\ work'.client = k /\ work'.left = work.left
      BY <1>1, <2>1, Zenon DEF Goes, Work, Pcs
    <2>3. clients[k].ending = "No" /\ ~Leased(k)
      BY <2>1 DEF Unused, Unleased, Leased
    <2> QED BY <1>1, <1>2, <1>3, <2>1, <2>2, <2>3, GoingStep, Sized DEF Goes
  <1>5. CASE Goes("SigningIn", None)
    <2>1. work' \in Work /\ work'.pc = "SigningIn" /\ work'.client = None /\ work'.left = work.left
      BY <1>1, <1>5, Zenon DEF Goes, Work, Pcs
    <2> QED BY <1>1, <1>2, <1>3, <1>5, <2>1, GoingStep DEF Goes
  <1>6. CASE Done
    BY <1>1, <1>3, <1>6, EndStep
  <1> QED BY <1>4, <1>5, <1>6 DEF LeasesEnded

LEMMA RunEndsStep ==
    ASSUME LeaseInv, RunEnds
    PROVE  LeaseInv'
  <1>1. /\ ops # <<>> /\ ~Head1.done /\ work.client \in Clients /\ UNCHANGED <<ops, kept>> /\ kept = None
        /\ clients' = Ends(clients, work.client)
    BY DEF RunEnds, At, LeaseInv, Types, Work, Chained
  <1>2. work.finished + 1 \in Nat
    BY DEF LeaseInv, Types, Work
  <1>3. work' = [work EXCEPT !.pc = "EndRun", !.finished = work.finished + 1]
    BY DEF RunEnds
  <1>4. work \in Work
    BY DEF LeaseInv, Types
  <1>5. work' \in Work /\ work'.pc = "EndRun" /\ work'.client = work.client /\ work'.left = work.left
    BY <1>2, <1>3, <1>4, Zenon DEF Work, Pcs, Ending
  <1>6. work.left # Off => Head1.stop
    BY DEF RunEnds, At, LeaseInv, Chained
  <1> QED BY <1>1, <1>5, <1>6, EndingStep DEF Ending

\* Past its grace an operation is dropped: what it holds is ended, and a
\* preparation that still stands then has nothing leased.
LEMMA OverdueStep ==
    ASSUME LeaseInv, Overdue
    PROVE  LeaseInv'
  <1>1. ops # <<>> /\ Done /\ work.left = 0 /\ work.pc # "Waiting" /\ UNCHANGED kept /\ kept = None /\ Types
    BY DEF Overdue, Executing, LeaseInv, Chained
  <1>2. work.left # Off /\ work.left # Grace
    BY <1>1, Sized DEF Off
  <1>3. CASE clients' = clients /\ work.pc \in {"Preparing", "SigningIn", "EndStopped"}
    <2>1. \A k \in Clients : work.client = k /\ Leased(k) => clients[k].ending # "No"
      BY <1>2, <1>3, Sized DEF LeaseInv, Kept, Chained, Ending
    <2> QED BY <1>1, <1>3, <2>1, EndStep
  <1>4. CASE clients' = Dropped(work.client) /\ work.pc \in {"Running", "EndKept", "EndAsked", "EndRun"}
    <2>1. work.client \in Clients
      BY <1>1, <1>4 DEF LeaseInv, Types, Work, Chained
    <2>2. CASE Leased(work.client)
      <3>1. clients' = Ends(clients, work.client)
        BY <1>4, <2>1, <2>2, Sized DEF Dropped
      <3>2. /\ clients' \in [Clients -> Client]
            /\ clients'[work.client].ending = "Waiting"
            /\ \A j \in Clients : j # work.client => clients'[j] = clients[j]
        BY <1>1, <2>1, <3>1, EndsEffect
      <3>3. \A j \in Clients : j # work.client => (Leased(j)' <=> Leased(j))
        BY <3>2 DEF Leased
      <3> QED BY <1>1, <3>2, <3>3, DoneStep, Sized DEF LeaseInv, Kept, NoLeaseOrphaned
    <2>3. CASE ~Leased(work.client)
      <3>1. clients' = clients
        BY <1>4, <2>3 DEF Dropped
      <3> QED BY <1>1, <2>1, <2>3, <3>1, EndStep
    <2> QED BY <2>2, <2>3
  <1>5. work.pc \in Pcs
    BY <1>1 DEF Types, Work
  <1> QED BY <1>1, <1>3, <1>4, <1>5 DEF Overdue, Pcs, Ending

\* What cancelling the last of the chain leaves of it.
LEMMA StoppedEffect ==
    ASSUME NEW chain \in Seq(Op), chain # <<>>
    PROVE  /\ Stopped(chain, Len(chain)) \in Seq(Op)
           /\ Len(Stopped(chain, Len(chain))) = Len(chain)
           /\ Stopped(chain, Len(chain))[1].done = chain[1].done
           /\ chain[1].stop => Stopped(chain, Len(chain))[1].stop
           /\ Len(chain) = 1 => Stopped(chain, Len(chain))[1].stop
  <1> DEFINE n == Len(chain)
             r == [chain[n] EXCEPT !.stop = TRUE]
             s == [chain EXCEPT ![n] = r]
  <1>1. n \in Nat \ {0} /\ chain[n] \in Op /\ chain[1] \in Op
    OBVIOUS
  <1>2. r \in Op /\ r.done = chain[n].done /\ r.stop
    BY <1>1, Zenon DEF Op
  <1>3. s \in Seq(Op) /\ Len(s) = n /\ s[1] = IF n = 1 THEN r ELSE chain[1]
    BY <1>1, <1>2
  <1>4. Stopped(chain, Len(chain)) = s
    BY DEF Stopped
  <1> HIDE DEF s, r
  <1> QED BY <1>1, <1>2, <1>3, <1>4

\* The chain after: its first is not done if it was not, and stopped if it was
\* or is also the last.
Follows(after, before) ==
    /\ after \in Seq(Op)
    /\ before # <<>> /\ ~before[1].done =>
          /\ after # <<>> /\ ~after[1].done
          /\ before[1].stop \/ Len(before) = 1 => after[1].stop

LEMMA LaunchedEffect ==
    ASSUME NEW chain \in Seq(Op), NEW kind \in {"Check", "Run"}
    PROVE  Follows(Launched(chain, kind), chain)
  <1> DEFINE n == Len(chain)
             again == kind = "Run" /\ n > 0 /\ chain[n].kind = "Check" /\ ~chain[n].done
             op == [kind |-> kind, stop |-> FALSE, done |-> FALSE, replaced |-> again]
  <1>1. again \in BOOLEAN
    OBVIOUS
  <1>2. op \in Op
    BY <1>1 DEF Op
  <1>3. Launched(chain, kind) =
            IF n = 0 \/ (n = 1 /\ chain[1].done) THEN <<op>> ELSE Append(Stopped(chain, n), op)
    BY Zenon DEF Launched
  <1> HIDE DEF op
  <1>4. CASE n = 0 \/ (n = 1 /\ chain[1].done)
    BY <1>2, <1>3, <1>4 DEF Follows
  <1>5. CASE ~(n = 0 \/ (n = 1 /\ chain[1].done))
    <2>1. chain # <<>>
      BY <1>5
    <2>2. /\ Stopped(chain, n) \in Seq(Op) /\ Len(Stopped(chain, n)) = n
          /\ Stopped(chain, n)[1].done = chain[1].done
          /\ chain[1].stop \/ n = 1 => Stopped(chain, n)[1].stop
      BY <2>1, StoppedEffect
    <2>3. Append(Stopped(chain, n), op) \in Seq(Op) /\ Append(Stopped(chain, n), op)[1] = Stopped(chain, n)[1]
      BY <1>2, <2>1, <2>2
    <2> QED BY <1>3, <1>5, <2>2, <2>3 DEF Follows
  <1> QED BY <1>4, <1>5

LEMMA CommandEffect ==
    ASSUME LeaseInv, Command
    PROVE  Follows(ops', ops) /\ (work' = work \/ (ops # <<>> /\ work' = GraceFrom(Len(ops))))
  <1>1. Types
    BY DEF LeaseInv
  <1>2. ASSUME NEW kind \in {"Check", "Run"}, Launch(kind)
        PROVE  Follows(ops', ops) /\ (work' = work \/ (ops # <<>> /\ work' = GraceFrom(Len(ops))))
    BY <1>1, <1>2, LaunchedEffect DEF Launch, Types
  <1>3. CASE StopCommand
    <2>1. CASE ops = <<>>
      BY <1>1, <1>3, <2>1 DEF StopCommand, Follows, Types
    <2>2. CASE ops # <<>>
      <3> DEFINE stopped == Stopped(ops, Len(ops))
      <3>1. Follows(stopped, ops) /\ Len(stopped) = Len(ops)
        BY <1>1, <2>2, StoppedEffect DEF Follows, Types
      <3> HIDE DEF stopped
      <3>2. Follows(Launched(stopped, "Check"), stopped)
        BY <3>1, LaunchedEffect, ZenonT(60) DEF Follows
      <3>3. Follows(ops', ops)
        BY <1>3, <2>2, <3>1, <3>2 DEF StopCommand, Follows, stopped
      <3> QED BY <1>3, <2>2, <3>3 DEF StopCommand
    <2> QED BY <2>1, <2>2
  <1> QED BY <1>2, <1>3 DEF Command

LEMMA CommandStep ==
    ASSUME LeaseInv, Command
    PROVE  LeaseInv'
  <1>1. UNCHANGED <<kept, clients>> /\ Types /\ work \in Work
    BY DEF Command, LeaseInv, Types
  <1>2. Follows(ops', ops) /\ (work' = work \/ (ops # <<>> /\ work' = GraceFrom(Len(ops))))
    BY CommandEffect
  <1>3. \A j \in Clients : Leased(j)' <=> Leased(j)
    BY <1>1 DEF Leased
  <1>4. CASE work' = work
    <2>1. Types'
      BY <1>1, <1>2, <1>4 DEF Types, Follows
    <2>2. Chained'
      BY <1>1, <1>2, <1>4 DEF LeaseInv, Chained, Follows, Head1
    <2>3. Kept' /\ NoLeaseOrphaned'
      BY <1>1, <1>3, <1>4 DEF LeaseInv, Kept, NoLeaseOrphaned
    <2> QED BY <2>1, <2>2, <2>3 DEF LeaseInv
  <1>5. CASE work' = [work EXCEPT !.left = Grace] /\ Len(ops) = 1 /\ ops # <<>> /\ work.pc # "Waiting"
    <2>1. work' \in Work /\ work'.pc = work.pc /\ work'.client = work.client /\ work'.left = Grace
      BY <1>1, <1>5, Sized DEF Work, Timer
    <2>2. Types'
      BY <1>1, <1>2, <2>1 DEF Types, Follows
    <2>3. Chained'
      BY <1>1, <1>2, <1>5, <2>1 DEF LeaseInv, Chained, Follows, Head1
    <2>4. Kept' /\ NoLeaseOrphaned'
      BY <1>1, <1>3, <2>1 DEF LeaseInv, Kept, NoLeaseOrphaned
    <2> QED BY <2>2, <2>3, <2>4 DEF LeaseInv
  <1>6. work' = work \/ (work' = [work EXCEPT !.left = Grace] /\ Len(ops) = 1 /\ ops # <<>> /\ work.pc # "Waiting")
    BY <1>2 DEF GraceFrom, Executing
  <1> QED BY <1>4, <1>5, <1>6

LEMMA TickStep ==
    ASSUME LeaseInv, Tick
    PROVE  LeaseInv'
  <1> DEFINE Later(k) == [clients[k] EXCEPT !.asked = Sooner(clients[k].asked),
                                            !.deleting = Sooner(clients[k].deleting)]
  <1>1. UNCHANGED <<ops, kept>> /\ Types /\ work \in Work /\ work' = [work EXCEPT !.left = Sooner(work.left)]
    BY Zenon DEF Tick, LeaseInv, Types
  <1>2. \A t \in Timer : Sooner(t) \in Timer /\ (Sooner(t) = Off <=> t = Off)
    BY DEF Timer, Sooner, Off
  <1>3. work.left \in Timer
    BY <1>1 DEF Work
  <1>4. /\ work' \in Work /\ work'.pc = work.pc /\ work'.client = work.client
        /\ work'.left = Sooner(work.left) /\ (work'.left = Off <=> work.left = Off)
    BY <1>1, <1>2, <1>3, SMTT(60) DEF Work
  <1>5. clients' = [k \in Clients |-> Later(k)]
    BY Zenon DEF Tick
  <1>6. ASSUME NEW k \in Clients
        PROVE  /\ Later(k) \in Client /\ Later(k).ending = clients[k].ending
               /\ Later(k).asked = Off <=> clients[k].asked = Off
               /\ Later(k).held = clients[k].held
    <2>1. clients[k] \in Client /\ clients[k].asked \in Timer /\ clients[k].deleting \in Timer
      BY <1>1 DEF Types, Client
    <2>2. Sooner(clients[k].asked) \in Timer /\ Sooner(clients[k].deleting) \in Timer
      BY <1>2, <2>1
    <2>3. Later(k) \in Client
      BY <2>1, <2>2, Zenon DEF Client
    <2>4. Later(k).ending = clients[k].ending /\ Later(k).asked = Sooner(clients[k].asked)
      BY <2>1 DEF Client
    <2>5. Later(k).held = clients[k].held
      BY <2>1 DEF Client
    <2> HIDE DEF Later
    <2> QED BY <1>2, <2>1, <2>3, <2>4, <2>5
  <1> HIDE DEF Later
  <1>7. clients' \in [Clients -> Client]
    BY <1>5, <1>6
  <1>8. \A k \in Clients : /\ clients'[k].ending = clients[k].ending
                           /\ clients'[k].asked = Off <=> clients[k].asked = Off
                           /\ Leased(k)' <=> Leased(k)
    BY <1>5, <1>6 DEF Leased
  <1>9. Types'
    BY <1>1, <1>4, <1>7 DEF Types
  <1>10. Chained'
    BY <1>1, <1>4 DEF LeaseInv, Chained, Head1
  <1>11. work.pc = "Preparing" => work.left = Off
    BY <1>1, Zenon DEF Tick, At, LeaseInv, Chained
  <1>12. Kept' /\ NoLeaseOrphaned'
    BY <1>1, <1>4, <1>8, <1>11 DEF LeaseInv, Kept, NoLeaseOrphaned
  <1> QED BY <1>9, <1>10, <1>12 DEF LeaseInv

LEMMA LeaseStep ==
    ASSUME LeaseInv, [Next]_vars
    PROVE  LeaseInv'
  <1>1. CASE TakeEvent \/ UNCHANGED vars
    <2>1. UNCHANGED <<ops, work, kept, clients>>
      BY <1>1 DEF TakeEvent, vars
    <2> QED BY <2>1 DEF LeaseInv, Types, Chained, Kept, NoLeaseOrphaned, Leased, Head1
  <1> QED BY <1>1, AnswerStep, BeginStep, AskStep, PreparedStep, PreparationStep, SignInStep, CutStep,
             LeasesEndedStep, RunEndsStep, OverdueStep, CommandStep, TickStep, SMTT(60) DEF Next

\* No lease is left behind (NoLeaseOrphaned of Controller), for any clients, any
\* length of the chain, any queue of events and any timeouts, if a stopped
\* operation has a grace at all: whatever stops, replaced checks, dropped runs and
\* late answers come, a lease asked for or held is the operation's under way or
\* the kept check's, or it is being ended.
THEOREM LeasesNotOrphaned ==
    Spec => []NoLeaseOrphaned
  <1>1. Init => LeaseInv
    BY LeaseInit
  <1>2. LeaseInv /\ [Next]_vars => LeaseInv'
    BY LeaseStep
  <1>3. LeaseInv => NoLeaseOrphaned
    BY DEF LeaseInv
  <1> QED BY <1>1, <1>2, <1>3, PTL DEF Spec

-----------------------------------------------------------------------------
(* The controller implements Operations.  Beside LeaseInv the argument needs *)
(* that a client's end after a stop is that of a stopped operation, that a   *)
(* sign-in stopped is cut before its grace runs, and how long the queue is.  *)

Names == {"CheckingCheck", "CheckingRun", "Prepared", "RunStarted", "RunFinished", "CheckFailed",
          "SignIn", "SignInApproved", "SignInExpired", "SignInFailed", "SignInCanceled"}
Sent == [name : Names, error : {"None", "Failed", "SignIn"}]

Cuts ==
    /\ work.pc = "EndStopped" => Head1.stop
    /\ work.pc = "SigningIn" /\ work.left # Off => work.left = Grace
Queued == events \in Seq(Sent) /\ Len(events) <= MaxEvents + 2

Any == [kind : {"Check", "Run"}, stop : BOOLEAN, done : BOOLEAN, config : {"Any"},
        replaced : {<<>>, <<"Any">>}]

LEMMA ToldType == \A op \in Op : Told(op) \in Any
BY DEF Told, Op, Any

\* The chain as it is told, element by element.
LEMMA ToldAllOf ==
    ASSUME NEW chain \in Seq(Op)
    PROVE  /\ ToldAll(chain) \in Seq(Any) /\ Len(ToldAll(chain)) = Len(chain)
           /\ DOMAIN ToldAll(chain) = 1..Len(chain)
           /\ \A i \in 1..Len(chain) : ToldAll(chain)[i] = Told(chain[i]) /\ chain[i] \in Op
           /\ ToldAll(chain) = <<>> <=> chain = <<>>
<1>1. \A i \in 1..Len(chain) : chain[i] \in Op
  OBVIOUS
<1>2. DOMAIN chain = 1..Len(chain) /\ Len(chain) \in Nat
  OBVIOUS
<1>3. ToldAll(chain) = [i \in 1..Len(chain) |-> Told(chain[i])]
  BY <1>2 DEF ToldAll
<1>4. ToldAll(chain) \in [1..Len(chain) -> Any]
  BY <1>1, <1>3, ToldType
<1>5. ToldAll(chain) \in Seq(Any) /\ Len(ToldAll(chain)) = Len(chain)
  BY <1>2, <1>3, <1>4
<1> QED BY <1>1, <1>2, <1>3, <1>5

\* A longer, a shorter and a stopped chain.
LEMMA ToldAppend ==
    ASSUME NEW chain \in Seq(Op), NEW op \in Op
    PROVE  ToldAll(Append(chain, op)) = Append(ToldAll(chain), Told(op))
<1> DEFINE longer == Append(chain, op)
           told == ToldAll(chain)
           A == ToldAll(longer)
           B == Append(told, Told(op))
<1>1. /\ longer \in Seq(Op) /\ Len(longer) = Len(chain) + 1 /\ Len(chain) \in Nat
      /\ longer[Len(chain) + 1] = op /\ \A i \in 1..Len(chain) : longer[i] = chain[i]
  OBVIOUS
<1>2. told \in Seq(Any) /\ Len(told) = Len(chain) /\ \A i \in 1..Len(chain) : told[i] = Told(chain[i])
  BY ToldAllOf
<1>3. Told(op) \in Any
  BY ToldType
<1> HIDE DEF longer, told
<1>4. /\ B \in Seq(Any) /\ Len(B) = Len(chain) + 1
      /\ B[Len(chain) + 1] = Told(op) /\ \A i \in 1..Len(chain) : B[i] = told[i]
  BY <1>1, <1>2, <1>3
<1>5. A \in Seq(Any) /\ Len(A) = Len(chain) + 1 /\ \A i \in 1..(Len(chain) + 1) : A[i] = Told(longer[i])
  BY <1>1, ToldAllOf
<1> HIDE DEF A, B
<1>6. \A i \in 1..(Len(chain) + 1) : i = Len(chain) + 1 \/ i \in 1..Len(chain)
  BY <1>1
<1>7. \A i \in 1..(Len(chain) + 1) : A[i] = B[i]
  BY <1>1, <1>2, <1>4, <1>5, <1>6
<1>8. A = B
  BY <1>1, <1>4, <1>5, <1>7
<1> QED BY <1>8 DEF A, B, longer, told

LEMMA ToldTail ==
    ASSUME NEW chain \in Seq(Op), chain # <<>>
    PROVE  ToldAll(Tail(chain)) = Tail(ToldAll(chain))
<1> DEFINE rest == Tail(chain)
           told == ToldAll(chain)
           n == Len(chain) - 1
           A == ToldAll(rest)
           B == Tail(told)
<1>1. /\ rest \in Seq(Op) /\ Len(rest) = n /\ n \in Nat /\ Len(chain) = n + 1
      /\ \A i \in 1..n : rest[i] = chain[i + 1]
  OBVIOUS
<1>2. /\ told \in Seq(Any) /\ Len(told) = Len(chain) /\ told # <<>>
      /\ \A i \in 1..Len(chain) : told[i] = Told(chain[i])
  BY ToldAllOf
<1> HIDE DEF rest, told, n
<1>3. B \in Seq(Any) /\ Len(B) = n /\ \A i \in 1..n : B[i] = told[i + 1]
  BY <1>1, <1>2
<1>4. A \in Seq(Any) /\ Len(A) = n /\ \A i \in 1..n : A[i] = Told(rest[i])
  BY <1>1, ToldAllOf, Zenon
<1> HIDE DEF A, B
<1>5. \A i \in 1..n : i + 1 \in 1..Len(chain)
  BY <1>1
<1>6. \A i \in 1..n : A[i] = B[i]
  BY <1>1, <1>2, <1>3, <1>4, <1>5
<1>7. A = B
  BY <1>1, <1>3, <1>4, <1>6
<1> QED BY <1>7 DEF A, B, rest, told

LEMMA ToldStop ==
    ASSUME NEW op \in Op
    PROVE  /\ [op EXCEPT !.stop = TRUE] \in Op
           /\ Told([op EXCEPT !.stop = TRUE]) = [Told(op) EXCEPT !.stop = TRUE]
<1> DEFINE r == [op EXCEPT !.stop = TRUE]
           again == IF op.replaced THEN <<"Any">> ELSE <<>>
<1>1. r \in Op /\ r.kind = op.kind /\ r.stop = TRUE /\ r.done = op.done /\ r.replaced = op.replaced
  BY Zenon DEF Op
<1> HIDE DEF r
<1>2. /\ Told(r) = [kind |-> op.kind, stop |-> TRUE, done |-> op.done, config |-> "Any", replaced |-> again]
      /\ Told(op) = [kind |-> op.kind, stop |-> op.stop, done |-> op.done, config |-> "Any", replaced |-> again]
  BY <1>1, Zenon DEF Told
<1> DEFINE on == TRUE
<1> HIDE DEF again, on
<1>3. [Told(op) EXCEPT !.stop = on]
          = [kind |-> op.kind, stop |-> on, done |-> op.done, config |-> "Any", replaced |-> again]
  BY <1>2
<1> QED BY <1>1, <1>2, <1>3 DEF r, on

LEMMA ToldStopped ==
    ASSUME NEW chain \in Seq(Op), NEW n \in 1..Len(chain)
    PROVE  /\ Stopped(chain, n) \in Seq(Op) /\ Len(Stopped(chain, n)) = Len(chain)
           /\ Stopped(chain, n)[n] = [chain[n] EXCEPT !.stop = TRUE]
           /\ \A i \in 1..Len(chain) : i # n => Stopped(chain, n)[i] = chain[i]
           /\ ToldAll(Stopped(chain, n)) = [ToldAll(chain) EXCEPT ![n].stop = TRUE]
<1> DEFINE s == Stopped(chain, n)
           r == [chain[n] EXCEPT !.stop = TRUE]
           told == ToldAll(chain)
           q == [told[n] EXCEPT !.stop = TRUE]
           A == ToldAll(s)
           B == [told EXCEPT ![n].stop = TRUE]
<1>1. chain[n] \in Op
  OBVIOUS
<1>2. r \in Op /\ Told(r) = [Told(chain[n]) EXCEPT !.stop = TRUE]
  BY <1>1, ToldStop
<1>3. s = [chain EXCEPT ![n] = r]
  BY DEF Stopped
<1>4. told \in Seq(Any) /\ Len(told) = Len(chain) /\ \A i \in 1..Len(chain) : told[i] = Told(chain[i])
  BY ToldAllOf
<1>5. B = [told EXCEPT ![n] = q] /\ q = Told(r)
  BY <1>2, <1>4, Zenon
<1>6. q \in Any
  BY <1>2, <1>5, ToldType
<1> HIDE DEF r, q, told, A, B
<1>7. s \in Seq(Op) /\ Len(s) = Len(chain) /\ s[n] = r /\ \A i \in 1..Len(chain) : i # n => s[i] = chain[i]
  BY <1>2, <1>3
<1>8. B \in Seq(Any) /\ Len(B) = Len(chain) /\ B[n] = q /\ \A i \in 1..Len(chain) : i # n => B[i] = told[i]
  BY <1>4, <1>5, <1>6
<1> HIDE DEF s
<1>9. A \in Seq(Any) /\ Len(A) = Len(chain) /\ \A i \in 1..Len(chain) : A[i] = Told(s[i])
  BY <1>7, ToldAllOf DEF A
<1>10. \A i \in 1..Len(chain) : A[i] = B[i]
  BY <1>4, <1>5, <1>7, <1>8, <1>9
<1>11. A = B
  BY <1>8, <1>9, <1>10
<1> QED BY <1>7, <1>11 DEF A, B, s, r, told

LEMMA ToldOne ==
    ASSUME NEW op \in Op
    PROVE  ToldAll(<<op>>) = <<Told(op)>>
<1> DEFINE one == <<op>>
           A == ToldAll(one)
<1>1. one \in Seq(Op) /\ Len(one) = 1 /\ one[1] = op
  OBVIOUS
<1> HIDE DEF one
<1>2. A \in Seq(Any) /\ Len(A) = 1 /\ A[1] = Told(op)
  BY <1>1, ToldAllOf
<1> HIDE DEF A
<1>3. A = <<Told(op)>>
  BY <1>2, ToldType
<1> QED BY <1>3 DEF A, one

\* The events as they are read, element by element; what is sent follows.
Withs == {"None", "Failed", "SignIn", "All", "Approved", "Expired", "Canceled"}
Heard == [of : {"Any"}, name : Names \cup {"SignInEnded"}, with : Withs]

LEMMA ReadType == \A event \in Sent : Read(event) \in Heard
<1> SUFFICES ASSUME NEW event \in Sent PROVE Read(event) \in Heard
  OBVIOUS
<1>1. event.name \in Names /\ event.error \in Withs
  BY DEF Sent, Withs
<1>2. \A name \in DOMAIN SignInEnds : SignInEnds[name] \in Withs
  <2>1. DOMAIN SignInEnds = {"SignInApproved", "SignInExpired", "SignInFailed", "SignInCanceled"}
    BY DEF SignInEnds
  <2>2. /\ SignInEnds["SignInApproved"] = "Approved" /\ SignInEnds["SignInExpired"] = "Expired"
        /\ SignInEnds["SignInFailed"] = "Failed" /\ SignInEnds["SignInCanceled"] = "Canceled"
    BY DEF SignInEnds
  <2> QED BY <2>1, <2>2 DEF Withs
<1> DEFINE name == IF event.name \in DOMAIN SignInEnds THEN "SignInEnded" ELSE event.name
           with == IF event.name \in DOMAIN SignInEnds THEN SignInEnds[event.name]
                   ELSE IF event.name = "Prepared" THEN "All" ELSE event.error
<1>3. name \in Names \cup {"SignInEnded"} /\ with \in Withs
  <2>1. "All" \in Withs
    BY DEF Withs
  <2> QED BY <1>1, <1>2, <2>1
<1>4. Read(event) = [of |-> "Any", name |-> name, with |-> with]
  BY DEF Read
<1> HIDE DEF name, with
<1> QED BY <1>3, <1>4 DEF Heard

LEMMA ReadAllOf ==
    ASSUME NEW sent \in Seq(Sent)
    PROVE  /\ ReadAll(sent) \in Seq(Heard) /\ Len(ReadAll(sent)) = Len(sent)
           /\ \A i \in 1..Len(sent) : ReadAll(sent)[i] = Read(sent[i])
           /\ ReadAll(sent) = <<>> <=> sent = <<>>
<1>1. \A i \in 1..Len(sent) : sent[i] \in Sent
  OBVIOUS
<1>2. DOMAIN sent = 1..Len(sent) /\ Len(sent) \in Nat
  OBVIOUS
<1>3. ReadAll(sent) = [i \in 1..Len(sent) |-> Read(sent[i])]
  BY <1>2 DEF ReadAll
<1>4. ReadAll(sent) \in [1..Len(sent) -> Heard]
  BY <1>1, <1>3, ReadType
<1>5. ReadAll(sent) \in Seq(Heard) /\ Len(ReadAll(sent)) = Len(sent)
  BY <1>2, <1>3, <1>4
<1> QED BY <1>1, <1>2, <1>3, <1>5

LEMMA ReadMore ==
    ASSUME NEW sent \in Seq(Sent), NEW more \in Seq(Sent)
    PROVE  ReadAll(sent \o more) = ReadAll(sent) \o ReadAll(more)
<1> DEFINE all == sent \o more
           a == ReadAll(sent)
           b == ReadAll(more)
           A == ReadAll(all)
           B == a \o b
           n == Len(sent)
           m == Len(more)
<1>1. /\ all \in Seq(Sent) /\ Len(all) = n + m /\ n \in Nat /\ m \in Nat
      /\ \A i \in 1..n : all[i] = sent[i]
      /\ \A i \in (n + 1)..(n + m) : all[i] = more[i - n]
  OBVIOUS
<1>2. a \in Seq(Heard) /\ Len(a) = n /\ \A i \in 1..n : a[i] = Read(sent[i])
  BY ReadAllOf
<1>3. b \in Seq(Heard) /\ Len(b) = m /\ \A i \in 1..m : b[i] = Read(more[i])
  BY ReadAllOf
<1> HIDE DEF all, a, b, n, m
<1>4. /\ B \in Seq(Heard) /\ Len(B) = n + m
      /\ \A i \in 1..n : B[i] = a[i]
      /\ \A i \in (n + 1)..(n + m) : B[i] = b[i - n]
  <2>0. a \in Seq(Heard) /\ b \in Seq(Heard)
    BY <1>2, <1>3
  <2>1. B \in Seq(Heard) /\ Len(B) = Len(a) + Len(b)
    BY <2>0
  <2>2. \A i \in 1..Len(a) : B[i] = a[i]
    BY <2>0
  <2>3. \A i \in (Len(a) + 1)..(Len(a) + Len(b)) : B[i] = b[i - Len(a)]
    BY <2>0
  <2> HIDE DEF B
  <2> QED BY <1>2, <1>3, <2>1, <2>2, <2>3
<1>5. A \in Seq(Heard) /\ Len(A) = n + m /\ \A i \in 1..(n + m) : A[i] = Read(all[i])
  BY <1>1, ReadAllOf, SMTT(60)
<1> HIDE DEF A, B
<1>6. \A i \in 1..(n + m) : i \in 1..n \/ (i \in (n + 1)..(n + m) /\ i - n \in 1..m)
  BY <1>1
<1>7. \A i \in 1..(n + m) : A[i] = B[i]
  BY <1>1, <1>2, <1>3, <1>4, <1>5, <1>6
<1>8. A = B
  BY <1>1, <1>4, <1>5, <1>7
<1> QED BY <1>8 DEF A, B, all, a, b

LEMMA ReadTail ==
    ASSUME NEW sent \in Seq(Sent), sent # <<>>
    PROVE  ReadAll(Tail(sent)) = Tail(ReadAll(sent))
<1> DEFINE rest == Tail(sent)
           read == ReadAll(sent)
           n == Len(sent) - 1
           A == ReadAll(rest)
           B == Tail(read)
<1>1. /\ rest \in Seq(Sent) /\ Len(rest) = n /\ n \in Nat /\ Len(sent) = n + 1
      /\ \A i \in 1..n : rest[i] = sent[i + 1]
  OBVIOUS
<1>2. /\ read \in Seq(Heard) /\ Len(read) = Len(sent) /\ read # <<>>
      /\ \A i \in 1..Len(sent) : read[i] = Read(sent[i])
  BY ReadAllOf
<1> HIDE DEF rest, read, n
<1>3. B \in Seq(Heard) /\ Len(B) = n /\ \A i \in 1..n : B[i] = read[i + 1]
  BY <1>1, <1>2
<1>4. A \in Seq(Heard) /\ Len(A) = n /\ \A i \in 1..n : A[i] = Read(rest[i])
  BY <1>1, ReadAllOf, Zenon
<1> HIDE DEF A, B
<1>5. \A i \in 1..n : i + 1 \in 1..Len(sent)
  BY <1>1
<1>6. \A i \in 1..n : A[i] = B[i]
  BY <1>1, <1>2, <1>3, <1>4, <1>5
<1>7. A = B
  BY <1>1, <1>3, <1>4, <1>6
<1> QED BY <1>7 DEF A, B, rest, read

\* One event, two and three.
LEMMA ReadFew ==
    ASSUME NEW x \in Sent, NEW y \in Sent, NEW z \in Sent
    PROVE  /\ ReadAll(<<>>) = <<>>
           /\ ReadAll(<<x>>) = <<Read(x)>>
           /\ ReadAll(<<x, y>>) = <<Read(x), Read(y)>>
           /\ ReadAll(<<x, y, z>>) = <<Read(x), Read(y), Read(z)>>
<1>1. Read(x) \in Heard /\ Read(y) \in Heard /\ Read(z) \in Heard
  BY ReadType
<1> DEFINE a == <<>>
           b == <<x>>
           c == <<x, y>>
           d == <<x, y, z>>
           A == ReadAll(a)
           B == ReadAll(b)
           C == ReadAll(c)
           D == ReadAll(d)
<1>2. /\ a \in Seq(Sent) /\ b \in Seq(Sent) /\ c \in Seq(Sent) /\ d \in Seq(Sent)
      /\ Len(b) = 1 /\ Len(c) = 2 /\ Len(d) = 3 /\ b[1] = x /\ c[1] = x /\ c[2] = y
      /\ d[1] = x /\ d[2] = y /\ d[3] = z /\ Len(a) = 0
  OBVIOUS
<1> HIDE DEF a, b, c, d
<1>3. B \in Seq(Heard) /\ Len(B) = 1 /\ B[1] = Read(x)
  BY <1>2, ReadAllOf
<1>9. A = <<>>
  BY <1>2, ReadAllOf, Zenon DEF a
<1>4. C \in Seq(Heard) /\ Len(C) = 2 /\ C[1] = Read(x) /\ C[2] = Read(y)
  BY <1>2, ReadAllOf
<1>5. D \in Seq(Heard) /\ Len(D) = 3 /\ D[1] = Read(x) /\ D[2] = Read(y) /\ D[3] = Read(z)
  BY <1>2, ReadAllOf, SMTT(60)
<1> HIDE DEF A, B, C, D
<1>6. B = <<Read(x)>>
  BY <1>1, <1>3
<1>7. C = <<Read(x), Read(y)>>
  BY <1>1, <1>4
<1>8. D = <<Read(x), Read(y), Read(z)>>
  BY <1>1, <1>5
<1> QED BY <1>6, <1>7, <1>8, <1>9 DEF A, B, C, D, a, b, c, d

\* What the mapping makes of the first operation, of its work and of the queue.
LEMMA ToldDone ==
    ASSUME NEW op \in Op
    PROVE  /\ [op EXCEPT !.done = TRUE] \in Op
           /\ Told([op EXCEPT !.done = TRUE]) = [Told(op) EXCEPT !.done = TRUE]
<1> DEFINE r == [op EXCEPT !.done = TRUE]
           again == IF op.replaced THEN <<"Any">> ELSE <<>>
<1>1. r \in Op /\ r.kind = op.kind /\ r.stop = op.stop /\ r.done = TRUE /\ r.replaced = op.replaced
  BY Zenon DEF Op
<1> HIDE DEF r
<1>2. /\ Told(r) = [kind |-> op.kind, stop |-> op.stop, done |-> TRUE, config |-> "Any", replaced |-> again]
      /\ Told(op) = [kind |-> op.kind, stop |-> op.stop, done |-> op.done, config |-> "Any", replaced |-> again]
  BY <1>1, Zenon DEF Told
<1> DEFINE on == TRUE
<1> HIDE DEF again, on
<1>3. [Told(op) EXCEPT !.done = on]
          = [kind |-> op.kind, stop |-> op.stop, done |-> on, config |-> "Any", replaced |-> again]
  BY <1>2
<1> QED BY <1>1, <1>2, <1>3 DEF r, on

LEMMA HeadMaps ==
    ASSUME Types
    PROVE  /\ ToldOps = <<>> <=> ops = <<>>
           /\ Len(ToldOps) = Len(ops)
           /\ ops # <<>> => /\ Promised!Op = Told(Head1) /\ Head1 \in Op
                            /\ Promised!Op.kind = Head1.kind /\ Promised!Op.config = "Any"
                            /\ Promised!Op.stop <=> Head1.stop
                            /\ Promised!Op.done <=> Head1.done
<1>1. ops \in Seq(Op)
  BY DEF Types
<1>2. (ToldOps = <<>> <=> ops = <<>>) /\ Len(ToldOps) = Len(ops)
  BY <1>1, ToldAllOf DEF ToldOps
<1>3. ASSUME ops # <<>> PROVE Promised!Op = Told(Head1) /\ Head1 \in Op
  BY <1>1, <1>3, ToldAllOf DEF ToldOps, Promised!Op, Head1
<1>4. ASSUME ops # <<>> PROVE /\ Promised!Op.kind = Head1.kind /\ Promised!Op.config = "Any"
                              /\ Promised!Op.stop <=> Head1.stop
                              /\ Promised!Op.done <=> Head1.done
  BY <1>3, <1>4 DEF Told, Op
<1> QED BY <1>2, <1>3, <1>4

LEMMA AtMaps ==
    ASSUME Types, ops # <<>>
    PROVE  /\ \A at : Promised!At(at) <=> ~Head1.done /\ ToldPc = at
           /\ \A kind : Promised!Is(kind) <=> Is(kind)
           /\ \A name, with : Promised!Event(name, with) = [name |-> name, with |-> with, of |-> "Any"]
<1>1. \A at : Promised!At(at) <=> ~Head1.done /\ ToldPc = at
  BY HeadMaps DEF Promised!At
<1>2. \A kind : Promised!Is(kind) <=> Is(kind)
  BY HeadMaps DEF Promised!Is, Is
<1>3. \A name, with : Promised!Event(name, with) = [name |-> name, with |-> with, of |-> "Any"]
  BY HeadMaps DEF Promised!Event
<1> QED BY <1>1, <1>2, <1>3

LEMMA PcMaps ==
    /\ work.pc \in {"Waiting", "Preparing", "SigningIn", "Running"} => ToldPc = work.pc
    /\ work.pc \in {"EndKept", "EndAsked", "EndStopped"} => ToldPc = "Preparing"
    /\ work.pc = "EndRun" => ToldPc = "Ending"
BY DEF ToldPc

LEMMA PcMapsNext ==
    /\ work'.pc \in {"Waiting", "Preparing", "SigningIn", "Running"} => ToldPc' = work'.pc
    /\ work'.pc \in {"EndKept", "EndAsked", "EndStopped"} => ToldPc' = "Preparing"
    /\ work'.pc = "EndRun" => ToldPc' = "Ending"
BY DEF ToldPc

LEMMA ReadEvent ==
    ASSUME Types, ops # <<>>
    PROVE  /\ \A name \in {"CheckingCheck", "CheckingRun", "RunStarted", "SignIn"} :
                  Event(name) \in Sent /\ Read(Event(name)) = Promised!Event(name, "None")
           /\ Event("Prepared") \in Sent /\ Read(Event("Prepared")) = Promised!Event("Prepared", "All")
           /\ Event("SignInApproved") \in Sent
           /\ Read(Event("SignInApproved")) = Promised!Event("SignInEnded", "Approved")
           /\ Event("SignInExpired") \in Sent
           /\ Read(Event("SignInExpired")) = Promised!Event("SignInEnded", "Expired")
           /\ Event("SignInFailed") \in Sent
           /\ Read(Event("SignInFailed")) = Promised!Event("SignInEnded", "Failed")
           /\ Event("SignInCanceled") \in Sent
           /\ Read(Event("SignInCanceled")) = Promised!Event("SignInEnded", "Canceled")
<1>1. DOMAIN SignInEnds = {"SignInApproved", "SignInExpired", "SignInFailed", "SignInCanceled"}
  BY DEF SignInEnds
<1>2. /\ SignInEnds["SignInApproved"] = "Approved" /\ SignInEnds["SignInExpired"] = "Expired"
      /\ SignInEnds["SignInFailed"] = "Failed" /\ SignInEnds["SignInCanceled"] = "Canceled"
  BY DEF SignInEnds
<1>3. \A name \in Names : Event(name) \in Sent /\ Event(name).name = name /\ Event(name).error = "None"
  BY DEF Event, Sent, None
<1>4. \A name, with : Promised!Event(name, with) = [name |-> name, with |-> with, of |-> "Any"]
  BY AtMaps
<1>5. ASSUME NEW name \in {"CheckingCheck", "CheckingRun", "RunStarted", "SignIn"}
      PROVE  Event(name) \in Sent /\ Read(Event(name)) = Promised!Event(name, "None")
  <2>1. name \in Names /\ name \notin DOMAIN SignInEnds /\ name # "Prepared"
    BY <1>1, <1>5 DEF Names
  <2> QED BY <1>3, <1>4, <2>1 DEF Read
<1>6. Event("Prepared") \in Sent /\ Read(Event("Prepared")) = Promised!Event("Prepared", "All")
  BY <1>1, <1>3, <1>4 DEF Read, Names
<1>7. /\ Event("SignInApproved") \in Sent
      /\ Read(Event("SignInApproved")) = Promised!Event("SignInEnded", "Approved")
      /\ Event("SignInExpired") \in Sent
      /\ Read(Event("SignInExpired")) = Promised!Event("SignInEnded", "Expired")
  BY <1>1, <1>2, <1>3, <1>4 DEF Read, Names
<1>8. /\ Event("SignInFailed") \in Sent
      /\ Read(Event("SignInFailed")) = Promised!Event("SignInEnded", "Failed")
      /\ Event("SignInCanceled") \in Sent
      /\ Read(Event("SignInCanceled")) = Promised!Event("SignInEnded", "Canceled")
  BY <1>1, <1>2, <1>3, <1>4 DEF Read, Names
<1> QED BY <1>5, <1>6, <1>7, <1>8

LEMMA ReadFinish ==
    ASSUME Types, ops # <<>>, NEW error \in {"None", "Failed", "SignIn"}
    PROVE  /\ Finish(error) \in Sent /\ Read(Finish(error)) = Promised!Finish(error)
           /\ Failed(error) \in Sent /\ Read(Failed(error)) = Promised!Failed(error)
<1>1. DOMAIN SignInEnds = {"SignInApproved", "SignInExpired", "SignInFailed", "SignInCanceled"}
  BY DEF SignInEnds
<1>2. \A name, with : Promised!Event(name, with) = [name |-> name, with |-> with, of |-> "Any"]
  BY AtMaps
<1>3. ASSUME NEW name \in {"RunFinished", "CheckFailed"}
      PROVE  /\ [name |-> name, error |-> error] \in Sent
             /\ Read([name |-> name, error |-> error]) = Promised!Event(name, error)
  <2> DEFINE event == [name |-> name, error |-> error]
  <2>1. event.name = name /\ event.error = error /\ event \in Sent
    BY <1>3 DEF Sent, Names
  <2> HIDE DEF event
  <2>2. Read(event) = Promised!Event(name, error)
    BY <1>1, <1>2, <1>3, <2>1 DEF Read
  <2> QED BY <2>1, <2>2 DEF event
<1>4. Promised!Is("Run") <=> Is("Run")
  BY AtMaps
<1> QED BY <1>3, <1>4 DEF Finish, Failed, Promised!Finish, Promised!Failed

LEMMA DoneMaps ==
    ASSUME Types, ops # <<>>, Done
    PROVE  Promised!Done
<1>1. ops \in Seq(Op) /\ Head1 \in Op /\ Promised!Op = Told(Head1) /\ Len(ToldOps) = Len(ops)
  BY HeadMaps DEF Types
<1>2. ToldPc' = "Waiting"
  BY PcMapsNext DEF Done, Waiting
<1>3. CASE Len(ops) = 1
  <2> DEFINE last == [Head1 EXCEPT !.done = TRUE]
  <2>1. last \in Op /\ Told(last) = [Promised!Op EXCEPT !.done = TRUE]
    BY <1>1, ToldDone
  <2>2. ops' = <<last>>
    BY <1>3 DEF Done
  <2> HIDE DEF last
  <2>3. ToldOps' = <<Told(last)>>
    BY <2>1, <2>2, ToldOne, Zenon DEF ToldOps
  <2> QED BY <1>1, <1>2, <1>3, <2>1, <2>3 DEF Promised!Done
<1>4. CASE Len(ops) # 1
  <2>1. ops' = Tail(ops)
    BY <1>4 DEF Done
  <2>2. ToldOps' = Tail(ToldOps)
    BY <1>1, <2>1, ToldTail DEF ToldOps
  <2> QED BY <1>1, <1>2, <1>4, <2>2 DEF Promised!Done
<1> QED BY <1>3, <1>4

LEMMA SendMaps ==
    ASSUME Queued, NEW more \in Seq(Sent), Len(more) <= 3, Send(more)
    PROVE  Promised!Send(ReadAll(more)) /\ Queued'
<1>1. Len(ReadEvents) = Len(events) /\ Len(events) \in Nat /\ Len(events) < MaxEvents
  BY ReadAllOf DEF ReadEvents, Queued, Send
<1>2. Len(ReadEvents) < MaxEvents + 3
  BY <1>1, Sized
<1>3. ReadEvents' = ReadEvents \o ReadAll(more)
  BY ReadMore DEF ReadEvents, Queued, Send
<1>4. Promised!Send(ReadAll(more))
  BY <1>2, <1>3 DEF Promised!Send
<1> DEFINE all == events \o more
<1>5. all \in Seq(Sent) /\ Len(all) = Len(events) + Len(more) /\ Len(more) \in Nat
  BY DEF Queued
<1> HIDE DEF all
<1>6. events' = all
  BY DEF Send, all
<1>7. Queued'
  BY <1>1, <1>5, <1>6, Sized DEF Queued
<1> QED BY <1>4, <1>7

\* A step that sends nothing: the abstract queue may take nothing too.
LEMMA SilentMaps ==
    ASSUME Queued, UNCHANGED events
    PROVE  Promised!Send(<<>>) /\ UNCHANGED ReadEvents /\ Queued'
<1>1. Len(ReadEvents) = Len(events) /\ Len(events) \in Nat /\ ReadEvents \in Seq(Heard)
  BY ReadAllOf DEF ReadEvents, Queued
<1>2. UNCHANGED ReadEvents /\ Queued'
  BY DEF ReadEvents, Queued
<1>3. ReadEvents \o <<>> = ReadEvents
  BY <1>1
<1> QED BY <1>1, <1>2, <1>3, Sized DEF Queued, Promised!Send

\* What is sent, one event to three.
LEMMA SendFew ==
    ASSUME Queued, NEW x \in Sent, NEW y \in Sent, NEW z \in Sent
    PROVE  /\ Send(<<x>>) => Promised!Send(<<Read(x)>>) /\ Queued'
           /\ Send(<<x, y>>) => Promised!Send(<<Read(x), Read(y)>>) /\ Queued'
           /\ Send(<<x, y, z>>) => Promised!Send(<<Read(x), Read(y), Read(z)>>) /\ Queued'
<1> DEFINE b == <<x>>
           c == <<x, y>>
           d == <<x, y, z>>
<1>1. /\ ReadAll(b) = <<Read(x)>> /\ ReadAll(c) = <<Read(x), Read(y)>>
      /\ ReadAll(d) = <<Read(x), Read(y), Read(z)>>
  BY ReadFew
<1>2. /\ b \in Seq(Sent) /\ c \in Seq(Sent) /\ d \in Seq(Sent) /\ Len(b) <= 3 /\ Len(c) <= 3 /\ Len(d) <= 3
  OBVIOUS
<1> HIDE DEF b, c, d
<1>3. ASSUME Send(b) PROVE Promised!Send(ReadAll(b)) /\ Queued'
  BY <1>2, <1>3, SendMaps, Zenon
<1>4. ASSUME Send(c) PROVE Promised!Send(ReadAll(c)) /\ Queued'
  BY <1>2, <1>4, SendMaps, Zenon
<1>5. ASSUME Send(d) PROVE Promised!Send(ReadAll(d)) /\ Queued'
  BY <1>2, <1>5, SendMaps, Zenon
<1> QED BY <1>1, <1>3, <1>4, <1>5 DEF b, c, d

\* The steps the abstract specification does not see.
LEMMA QuietMaps ==
    ASSUME Queued, UNCHANGED <<ops, events>>, ToldPc' = ToldPc
    PROVE  UNCHANGED Promised!vars /\ Queued'
BY DEF Promised!vars, ToldOps, ReadEvents, Queued

LEMMA HiddenSteps ==
    ASSUME LeaseInv, Queued,
           \/ \E k \in Clients : Answer(k) \/ EndLeases(k)
           \/ Ask \/ Mint \/ Tick
    PROVE  UNCHANGED Promised!vars /\ Queued'
<1>1. UNCHANGED <<ops, events>>
  BY ZenonT(60) DEF Answer, EndLeases, Ask, Mint, Tick
<1>2. work'.pc = work.pc
  BY Zenon DEF Answer, EndLeases, Ask, Mint, Tick, LeaseInv, Types, Work
<1>3. ToldPc' = ToldPc
  BY <1>2 DEF ToldPc
<1> QED BY <1>1, <1>3, QuietMaps, SMTT(60)

\* Short sequences put together.
LEMMA Joined ==
    ASSUME NEW a, NEW b, NEW c
    PROVE  /\ <<a>> \o <<b, c>> = <<a, b, c>>
           /\ <<a>> \o <<b>> = <<a, b>>
           /\ Append(<<a>>, b) = <<a, b>>
           /\ Append(<<a, b>>, c) = <<a, b, c>>
<1> DEFINE S == {a, b, c}
           p == <<a>>
           q == <<b, c>>
           u == <<b>>
           w == <<a, b>>
<1>1. /\ p \in Seq(S) /\ Len(p) = 1 /\ p[1] = a
      /\ q \in Seq(S) /\ Len(q) = 2 /\ q[1] = b /\ q[2] = c
      /\ u \in Seq(S) /\ Len(u) = 1 /\ u[1] = b
      /\ w \in Seq(S) /\ Len(w) = 2 /\ w[1] = a /\ w[2] = b
      /\ b \in S /\ c \in S
  OBVIOUS
<1> HIDE DEF S, p, q, u, w
<1> DEFINE A == p \o q
           B == p \o u
           C == Append(p, b)
           D == Append(w, c)
<1>a. A \in Seq(S) /\ Len(A) = Len(p) + Len(q)
      /\ (\A i \in 1..Len(p) : A[i] = p[i]) /\ (\A i \in 1..Len(q) : A[Len(p) + i] = q[i])
  <2>0. p \in Seq(S) /\ q \in Seq(S)
    BY <1>1
  <2>1. A \in Seq(S) /\ Len(A) = Len(p) + Len(q)
    BY <2>0
  <2>2. \A i \in 1..Len(p) : A[i] = p[i]
    BY <2>0
  <2>3. \A i \in 1..Len(q) : A[Len(p) + i] = q[i]
    BY <2>0
  <2> QED BY <2>1, <2>2, <2>3
<1>b. B \in Seq(S) /\ Len(B) = Len(p) + Len(u)
      /\ (\A i \in 1..Len(p) : B[i] = p[i]) /\ (\A i \in 1..Len(u) : B[Len(p) + i] = u[i])
  <2>0. p \in Seq(S) /\ u \in Seq(S)
    BY <1>1
  <2>1. B \in Seq(S) /\ Len(B) = Len(p) + Len(u)
    BY <2>0
  <2>2. \A i \in 1..Len(p) : B[i] = p[i]
    BY <2>0
  <2>3. \A i \in 1..Len(u) : B[Len(p) + i] = u[i]
    BY <2>0
  <2> QED BY <2>1, <2>2, <2>3
<1>4. C \in Seq(S) /\ Len(C) = 2 /\ C[1] = a /\ C[2] = b
  BY <1>1, SMTT(60)
<1>c. w \in Seq(S) /\ c \in S /\ 1 \in 1..2 /\ 2 \in 1..2 /\ 2 + 1 = 3
  BY <1>1
<1>d. D \in Seq(S) /\ Len(D) = Len(w) + 1 /\ D[Len(w) + 1] = c /\ \A i \in 1..Len(w) : D[i] = w[i]
  BY <1>c
<1> HIDE DEF A, B, C, D
<1>2. A \in Seq(S) /\ Len(A) = 3 /\ A[1] = a /\ A[2] = b /\ A[3] = c
  <2>1. 1 \in 1..Len(p) /\ 1 \in 1..Len(q) /\ 2 \in 1..Len(q) /\ Len(p) + 1 = 2 /\ Len(p) + 2 = 3 /\ Len(p) + Len(q) = 3
    BY <1>1
  <2> QED BY <1>a, <1>1, <2>1
<1>3. B \in Seq(S) /\ Len(B) = 2 /\ B[1] = a /\ B[2] = b
  <2>1. 1 \in 1..Len(p) /\ 1 \in 1..Len(u) /\ Len(p) + 1 = 2 /\ Len(p) + Len(u) = 2
    BY <1>1
  <2> QED BY <1>b, <1>1, <2>1
<1>5. D \in Seq(S) /\ Len(D) = 3 /\ D[1] = a /\ D[2] = b /\ D[3] = c
  BY <1>1, <1>c, <1>d
<1>6. A = <<a, b, c>> /\ D = <<a, b, c>>
  BY <1>2, <1>5
<1>7. B = <<a, b>> /\ C = <<a, b>>
  BY <1>3, <1>4
<1> QED BY <1>6, <1>7 DEF A, B, C, D, p, q, u, w

LEMMA JoinedEmpty ==
    ASSUME NEW a, NEW b
    PROVE  /\ <<>> \o <<a, b>> = <<a, b>>
           /\ <<a>> \o <<>> = <<a>>
           /\ Append(<<>>, a) = <<a>>
OBVIOUS

LEMMA GoesMaps ==
    ASSUME UNCHANGED ops, NEW pc \in {"Preparing", "SigningIn", "Running", "EndKept", "EndAsked", "EndStopped", "EndRun"},
           work'.pc = pc
    PROVE  /\ pc \in {"Preparing", "EndKept", "EndAsked", "EndStopped"} => Promised!Goes("Preparing")
           /\ pc = "SigningIn" => Promised!Goes("SigningIn")
           /\ pc = "Running" => Promised!Goes("Running")
           /\ pc = "EndRun" => Promised!Goes("Ending")
<1>1. UNCHANGED ToldOps
  BY DEF ToldOps
<1> QED BY <1>1, PcMapsNext DEF Promised!Goes

\* A run that starts, from its own preparation or from a kept check.
LEMMA StartsMaps ==
    ASSUME Types, Queued, ops # <<>>, NEW sent, NEW from \in Work, NEW k \in Clients, Runs(from, k, sent),
           sent = <<>> \/ \E c \in Sent : sent = <<c>>
    PROVE  /\ sent = <<>> => Promised!Starts(<<>>)
           /\ \A c \in Sent : sent = <<c>> => Promised!Starts(<<Read(c)>>)
           /\ Queued'
<1> DEFINE p == Event("Prepared")
           r == Event("RunStarted")
           f == Finish("Failed")
           P == Promised!Event("Prepared", "All")
           R == Promised!Event("RunStarted", "None")
           F == Promised!Finish("Failed")
<1>1. p \in Sent /\ r \in Sent /\ f \in Sent /\ Read(p) = P /\ Read(r) = R /\ Read(f) = F
  BY ReadEvent, ReadFinish
<1>2. \/ Send(sent \o <<p, r>>) /\ work'.pc = "Running" /\ UNCHANGED ops
      \/ Send(sent \o <<p, f>>) /\ work'.pc = "EndRun" /\ UNCHANGED ops
  BY Zenon DEF Runs, Work
<1>3. \/ Send(sent \o <<p, r>>) /\ Promised!Goes("Running")
      \/ Send(sent \o <<p, f>>) /\ Promised!Goes("Ending")
  BY <1>2, GoesMaps
<1>4. ASSUME NEW said,
             \/ Promised!Send(Append(Append(said, P), R)) /\ Promised!Goes("Running")
             \/ Promised!Send(Append(Append(said, P), F)) /\ Promised!Goes("Ending")
      PROVE  Promised!Starts(said)
  BY <1>4 DEF Promised!Starts, Promised!None
<1> HIDE DEF p, r, f, P, R, F
<1>5. ASSUME sent = <<>> PROVE Promised!Starts(<<>>) /\ Queued'
  <2>1. sent \o <<p, r>> = <<p, r>> /\ sent \o <<p, f>> = <<p, f>>
    BY <1>5, JoinedEmpty
  <2>2. Append(Append(<<>>, P), R) = <<P, R>> /\ Append(Append(<<>>, P), F) = <<P, F>>
    BY JoinedEmpty, Joined, Zenon
  <2>3. /\ Send(<<p, r>>) => Promised!Send(<<P, R>>) /\ Queued'
        /\ Send(<<p, f>>) => Promised!Send(<<P, F>>) /\ Queued'
    BY <1>1, SendFew, Zenon
  <2> QED BY <1>3, <1>4, <2>1, <2>2, <2>3, Zenon
<1>6. ASSUME NEW c \in Sent, sent = <<c>> PROVE Promised!Starts(<<Read(c)>>) /\ Queued'
  <2> DEFINE C == Read(c)
  <2>1. sent \o <<p, r>> = <<c, p, r>> /\ sent \o <<p, f>> = <<c, p, f>>
    BY <1>6, Joined, Zenon
  <2> HIDE DEF C
  <2>2. Append(Append(<<C>>, P), R) = <<C, P, R>> /\ Append(Append(<<C>>, P), F) = <<C, P, F>>
    BY Joined, ZenonT(60)
  <2>3. /\ Send(<<c, p, r>>) => Promised!Send(<<C, P, R>>) /\ Queued'
        /\ Send(<<c, p, f>>) => Promised!Send(<<C, P, F>>) /\ Queued'
    BY <1>1, SendFew, Zenon DEF C
  <2>4. Promised!Starts(<<C>>) /\ Queued'
    BY <1>3, <1>4, <2>1, <2>2, <2>3, Zenon
  <2> QED BY <2>4 DEF C
<1> QED BY <1>5, <1>6, Zenon

\* What a stop sends of the operation it ends.
LEMMA StoppedMaps ==
    ASSUME Types, Queued, ops # <<>>
    PROVE  /\ (IF Is("Run") THEN Send(<<Finish(None)>>) ELSE UNCHANGED events)
                  => Promised!Send(Promised!Stopped) /\ Queued'
           /\ Send(Canceled) => Promised!Send(<<Promised!Event("SignInEnded", "Canceled")>> \o Promised!Stopped) /\ Queued'
           /\ Send(<<Event("SignIn")>> \o Canceled)
                  => /\ Promised!Send(<<Promised!Event("SignIn", "None")>>
                            \o (<<Promised!Event("SignInEnded", "Canceled")>> \o Promised!Stopped))
                     /\ Queued'
<1> DEFINE s == Event("SignIn")
           c == Event("SignInCanceled")
           f == Finish(None)
           S == Promised!Event("SignIn", "None")
           C == Promised!Event("SignInEnded", "Canceled")
           F == Promised!Finish("None")
<1>1. s \in Sent /\ c \in Sent /\ f \in Sent /\ Read(s) = S /\ Read(c) = C /\ Read(f) = F
  BY ReadEvent, ReadFinish DEF None
<1>2. Promised!Stopped = (IF Is("Run") THEN <<F>> ELSE <<>>)
  BY AtMaps DEF Promised!Stopped, Promised!None
<1>3. Canceled = <<c>> \o (IF Is("Run") THEN <<f>> ELSE <<>>)
  BY DEF Canceled
<1> HIDE DEF s, c, f, S, C, F
<1>4. /\ Send(<<f>>) => Promised!Send(<<F>>) /\ Queued'
      /\ Send(<<c>>) => Promised!Send(<<C>>) /\ Queued'
      /\ Send(<<c, f>>) => Promised!Send(<<C, F>>) /\ Queued'
      /\ Send(<<s, c>>) => Promised!Send(<<S, C>>) /\ Queued'
      /\ Send(<<s, c, f>>) => Promised!Send(<<S, C, F>>) /\ Queued'
  BY <1>1, SendFew, Zenon
<1>5. /\ <<c>> \o <<f>> = <<c, f>> /\ <<c>> \o <<>> = <<c>> /\ <<s>> \o <<c, f>> = <<s, c, f>> /\ <<s>> \o <<c>> = <<s, c>>
      /\ <<C>> \o <<F>> = <<C, F>> /\ <<C>> \o <<>> = <<C>> /\ <<S>> \o <<C, F>> = <<S, C, F>> /\ <<S>> \o <<C>> = <<S, C>>
  BY Joined, JoinedEmpty, ZenonT(60)
<1>6. CASE Is("Run")
  <2>1. Promised!Stopped = <<F>> /\ Canceled = <<c, f>>
    BY <1>2, <1>3, <1>5, <1>6, Zenon
  <2>2. (IF Is("Run") THEN Send(<<f>>) ELSE UNCHANGED events) => Promised!Send(Promised!Stopped) /\ Queued'
    BY <1>4, <1>6, <2>1
  <2>3. Send(Canceled) => Promised!Send(<<C>> \o Promised!Stopped) /\ Queued'
    BY <1>4, <1>5, <2>1, Zenon
  <2>4. Send(<<s>> \o Canceled) => Promised!Send(<<S>> \o (<<C>> \o Promised!Stopped)) /\ Queued'
    BY <1>4, <1>5, <2>1, Zenon
  <2> QED BY <2>2, <2>3, <2>4 DEF s, f, S, C
<1>7. CASE ~Is("Run")
  <2>1. Promised!Stopped = <<>> /\ Canceled = <<c>>
    BY <1>2, <1>3, <1>5, <1>7
  <2>2. (IF Is("Run") THEN Send(<<f>>) ELSE UNCHANGED events) => Promised!Send(Promised!Stopped) /\ Queued'
    BY <1>7, <2>1, SilentMaps
  <2>3. Send(Canceled) => Promised!Send(<<C>> \o Promised!Stopped) /\ Queued'
    BY <1>4, <1>5, <2>1
  <2>4. Send(<<s>> \o Canceled) => Promised!Send(<<S>> \o (<<C>> \o Promised!Stopped)) /\ Queued'
    BY <1>4, <1>5, <2>1, Zenon
  <2> QED BY <2>2, <2>3, <2>4 DEF s, f, S, C
<1> QED BY <1>6, <1>7

LEMMA BeginMaps ==
    ASSUME LeaseInv, Queued, Begin
    PROVE  Promised!Begin /\ Queued'
<1> DEFINE c == Event(IF Is("Run") THEN "CheckingRun" ELSE "CheckingCheck")
           C == Promised!Event(IF Promised!Is("Run") THEN "CheckingRun" ELSE "CheckingCheck", Promised!None)
           begun == [work EXCEPT !.left = IF Head1.stop THEN Grace ELSE Off]
<1>1. Types /\ ops # <<>> /\ At("Waiting") /\ work \in Work
  BY Zenon DEF Begin, At, LeaseInv, Types
<1>2. Promised!At("Waiting") /\ (Promised!Is("Run") <=> Is("Run")) /\ (Promised!Op.stop <=> Head1.stop)
  BY <1>1, AtMaps, HeadMaps, PcMaps DEF At
<1>3. c \in Sent /\ Read(c) = C
  BY <1>1, <1>2, ReadEvent DEF Promised!None
<1>4. begun \in Work
  BY <1>1, Sized DEF Work, Timer
<1>5. Promised!At("Waiting") /\
         (\/ Promised!Send(<<C>>) /\ Promised!Goes("Preparing")
          \/ Promised!Is("Run") /\ ~Promised!Op.stop /\ Promised!Starts(<<C>>)
          \/ Promised!Is("Run") /\ Promised!Op.stop /\ Promised!Send(<<C>> \o Promised!Stopped) /\ Promised!Done)
      => Promised!Begin
  BY SMTT(60) DEF Promised!Begin
<1>6. \/ Send(<<c>>) /\ work'.pc \in {"Preparing", "EndKept"} /\ UNCHANGED ops
      \/ kept # None /\ Is("Run") /\ ~Head1.stop /\ Runs(begun, kept, <<c>>)
      \/ Is("Run") /\ Head1.stop /\ Send(<<c, Finish(None)>>) /\ Done
  BY <1>4, Zenon DEF Begin, Work
<1> HIDE DEF c, C, begun
<1>7. CASE Send(<<c>>) /\ work'.pc \in {"Preparing", "EndKept"} /\ UNCHANGED ops
  <2>1. Promised!Send(<<C>>) /\ Queued'
    BY <1>3, <1>7, SendFew, Zenon
  <2>2. Promised!Goes("Preparing")
    BY <1>7, GoesMaps
  <2> QED BY <1>2, <1>5, <2>1, <2>2
<1>8. CASE kept # None /\ Is("Run") /\ ~Head1.stop /\ Runs(begun, kept, <<c>>)
  <2>1. kept \in Clients
    BY <1>8 DEF LeaseInv, Types
  <2>2. Promised!Starts(<<C>>) /\ Queued'
    BY <1>1, <1>3, <1>4, <1>8, <2>1, StartsMaps
  <2> QED BY <1>2, <1>5, <1>8, <2>2
<1>9. CASE Is("Run") /\ Head1.stop /\ Send(<<c, Finish(None)>>) /\ Done
  <2>1. Finish(None) \in Sent /\ Read(Finish(None)) = Promised!Finish("None")
    BY <1>1, ReadFinish DEF None
  <2>2. Promised!Send(<<C, Promised!Finish("None")>>) /\ Queued'
    BY <1>3, <1>9, <2>1, SendFew, Zenon
  <2>3. <<C>> \o Promised!Stopped = <<C, Promised!Finish("None")>>
    BY <1>2, <1>9, Joined, ZenonT(60) DEF Promised!Stopped, Promised!None
  <2>4. Promised!Done
    BY <1>1, <1>9, DoneMaps
  <2> QED BY <1>2, <1>5, <1>9, <2>2, <2>3, <2>4, Zenon
<1> QED BY <1>6, <1>7, <1>8, <1>9

LEMMA PreparesMaps ==
    ASSUME LeaseInv, Queued, PreparedPaths \/ PreparationFailed \/ (AsksSignIn /\ ~Leased(work.client))
    PROVE  Promised!Prepares /\ Queued'
<1>1. Types /\ ops # <<>> /\ At("Preparing") /\ ~Head1.stop /\ work \in Work /\ work.client \in Clients
  BY DEF PreparedPaths, PreparationFailed, AsksSignIn, At, LeaseInv, Types, Chained, Work
<1>2. /\ Promised!At("Preparing") /\ (Promised!Is("Run") <=> Is("Run")) /\ (Promised!Is("Check") <=> Is("Check"))
      /\ ~Promised!Op.stop
  BY <1>1, AtMaps, HeadMaps, PcMaps DEF At
<1>3. CASE PreparedPaths /\ Is("Run") /\ Runs(work, work.client, <<>>)
  <2>1. Promised!Starts(<<>>) /\ Queued'
    BY <1>1, <1>3, StartsMaps
  <2> QED BY <1>2, <1>3, <2>1 DEF Promised!Prepares
<1>4. CASE Is("Check") /\ Send(<<Event("Prepared")>>) /\ Done
  <2>1. Promised!Send(<<Promised!Event("Prepared", "All")>>) /\ Queued'
    BY <1>1, <1>4, ReadEvent, SendFew, Zenon
  <2>2. Promised!Done
    BY <1>1, <1>4, DoneMaps
  <2> QED BY <1>2, <1>4, <2>1, <2>2, SMTT(60) DEF Promised!Prepares
<1>5. CASE PreparationFailed
  <2>1. PICK error \in {"Failed", "SignIn"} : Send(<<Failed(error)>>)
    BY <1>5 DEF PreparationFailed
  <2>2. Failed(error) \in Sent /\ Read(Failed(error)) = Promised!Failed(error)
    BY <1>1, ReadFinish
  <2>3. Promised!Send(<<Promised!Failed(error)>>) /\ Queued'
    BY <2>1, <2>2, SendFew, Zenon
  <2>4. Promised!Done
    BY <1>1, <1>5, DoneMaps DEF PreparationFailed
  <2> QED BY <1>2, <2>3, <2>4 DEF Promised!Prepares
<1>6. CASE Send(<<Event("SignIn")>>) /\ Goes("SigningIn", None)
  <2>1. Promised!Send(<<Promised!Event("SignIn", "None")>>) /\ Queued'
    BY <1>1, <1>6, ReadEvent, SendFew, Zenon
  <2>2. Promised!Goes("SigningIn")
    BY <1>1, <1>6, GoesMaps DEF Goes, Work
  <2> QED BY <1>2, <2>1, <2>2 DEF Promised!Prepares, Promised!None
<1> QED BY <1>3, <1>4, <1>5, <1>6 DEF PreparedPaths, AsksSignIn

LEMMA SignsMaps ==
    ASSUME LeaseInv, Queued, Approved \/ Unapproved
    PROVE  Promised!Signs /\ Queued'
<1>1. Types /\ ops # <<>> /\ At("SigningIn") /\ ~Head1.stop /\ work \in Work
  BY Zenon DEF Approved, Unapproved, At, LeaseInv, Types
<1>2. Promised!At("SigningIn") /\ ~Promised!Op.stop
  BY <1>1, AtMaps, HeadMaps, PcMaps DEF At
<1>3. CASE Approved
  <2>1. Promised!Send(<<Promised!Event("SignInEnded", "Approved")>>) /\ Queued'
    BY <1>1, <1>3, ReadEvent, SendFew, ZenonT(60) DEF Approved
  <2>2. Promised!Goes("Preparing")
    BY <1>1, <1>3, GoesMaps, Zenon DEF Approved, Work
  <2> QED BY <1>2, <2>1, <2>2, SMTT(60) DEF Promised!Signs
<1>4. CASE Unapproved
  <2>1. PICK end \in {"SignInExpired", "SignInFailed"} : Send(<<Event(end), Failed("SignIn")>>)
    BY <1>4 DEF Unapproved
  <2>2. PICK ended \in {"Expired", "Failed"} :
            Event(end) \in Sent /\ Read(Event(end)) = Promised!Event("SignInEnded", ended)
    BY <1>1, ReadEvent
  <2>3. Failed("SignIn") \in Sent /\ Read(Failed("SignIn")) = Promised!Failed("SignIn")
    BY <1>1, ReadFinish
  <2>4. Promised!Send(<<Promised!Event("SignInEnded", ended), Promised!Failed("SignIn")>>) /\ Queued'
    BY <2>1, <2>2, <2>3, SendFew, ZenonT(60)
  <2>5. Promised!Done
    BY <1>1, <1>4, DoneMaps DEF Unapproved
  <2> QED BY <1>2, <2>4, <2>5 DEF Promised!Signs
<1> QED BY <1>3, <1>4

\* A stopped operation that ends as it prepares or signs in.
LEMMA CutMaps ==
    ASSUME LeaseInv, Queued, ops # <<>>, ~Head1.done, Head1.stop, Done,
           \/ /\ ToldPc = "Preparing"
              /\ \/ IF Is("Run") THEN Send(<<Finish(None)>>) ELSE UNCHANGED events
                 \/ Send(<<Event("SignIn")>> \o Canceled)
           \/ ToldPc = "SigningIn" /\ Send(Canceled)
    PROVE  Promised!Cut /\ Queued'
<1>1. Types
  BY DEF LeaseInv
<1>2. ToldOps # <<>> /\ Promised!Op.stop /\ Promised!Done
  BY <1>1, HeadMaps, DoneMaps
<1>3. /\ ToldPc = "Preparing" => Promised!At("Preparing")
      /\ ToldPc = "SigningIn" => Promised!At("SigningIn")
  BY <1>1, AtMaps
<1> DEFINE canceled == <<Promised!Event("SignInEnded", "Canceled")>> \o Promised!Stopped
<1>4. \/ ToldPc = "Preparing" /\ Promised!Send(Promised!Stopped) /\ Queued'
      \/ ToldPc = "Preparing" /\ Promised!Send(<<Promised!Event("SignIn", "None")>> \o canceled) /\ Queued'
      \/ ToldPc = "SigningIn" /\ Promised!Send(canceled) /\ Queued'
  BY <1>1, StoppedMaps
<1>5. ToldOps # <<>> /\ Promised!Op.stop /\ Promised!Done
         /\ (\/ Promised!At("Preparing") /\ (\/ Promised!Send(Promised!Stopped)
                                             \/ Promised!Send(<<Promised!Event("SignIn", "None")>> \o canceled))
             \/ Promised!At("SigningIn") /\ Promised!Send(canceled))
      => Promised!Cut
  BY DEF Promised!Cut, Promised!None
<1> HIDE DEF canceled
<1> QED BY <1>2, <1>3, <1>4, <1>5

LEMMA CutAndEndMaps ==
    ASSUME LeaseInv, Cuts, Queued, Cut \/ LeasesEnded \/ (AsksSignIn /\ Leased(work.client))
    PROVE  /\ \/ UNCHANGED Promised!vars
              \/ Promised!Cut \/ Promised!Prepares \/ Promised!Ends
           /\ Queued'
<1>1. Types /\ ops # <<>> /\ work \in Work /\ ~Head1.done
  BY DEF Cut, LeasesEnded, AsksSignIn, At, LeaseInv, Types
<1>2. CASE UNCHANGED <<ops, events>> /\ \/ work.pc = "Preparing" /\ work'.pc \in {"EndStopped", "EndAsked"}
                                        \/ work.pc = "EndKept" /\ work'.pc = "Preparing"
  <2>1. ToldPc = "Preparing" /\ ToldPc' = "Preparing"
    BY <1>2, PcMaps, PcMapsNext
  <2> QED BY <1>2, <2>1, QuietMaps
<1>3. CASE At("SigningIn") /\ Head1.stop /\ Send(Canceled) /\ Done
  BY <1>1, <1>3, PcMaps, CutMaps DEF At
<1>4. CASE At("EndAsked") /\ Head1.stop /\ Send(<<Event("SignIn")>> \o Canceled) /\ Done
  BY <1>1, <1>4, PcMaps, CutMaps DEF At
<1>5. CASE At("EndAsked") /\ ~Head1.stop /\ Send(<<Event("SignIn")>>) /\ Goes("SigningIn", None)
  <2>1. Promised!Send(<<Promised!Event("SignIn", "None")>>) /\ Queued'
    BY <1>1, <1>5, ReadEvent, SendFew, Zenon
  <2>2. Promised!Goes("SigningIn")
    BY <1>1, <1>5, GoesMaps DEF Goes, Work
  <2>3. Promised!At("Preparing") /\ ~Promised!Op.stop
    BY <1>1, <1>5, AtMaps, HeadMaps, PcMaps DEF At
  <2> QED BY <2>1, <2>2, <2>3, SMTT(60) DEF Promised!Prepares, Promised!None
<1>6. CASE At("EndStopped") /\ Done /\ IF Is("Run") THEN Send(<<Finish(None)>>) ELSE UNCHANGED events
  <2>1. Head1.stop /\ ToldPc = "Preparing"
    BY <1>6, PcMaps DEF At, Cuts
  <2> QED BY <1>1, <1>6, <2>1, CutMaps
<1>7. CASE At("EndRun") /\ Done /\ UNCHANGED events
  <2>1. Promised!At("Ending")
    BY <1>1, <1>7, AtMaps, PcMaps DEF At
  <2> QED BY <1>1, <1>7, <2>1, DoneMaps, SilentMaps, SMTT(60) DEF Promised!Ends
<1>8. CASE Cut
  BY <1>1, <1>2, <1>3, <1>8, Zenon DEF Cut, At, Goes, Work
<1>9. CASE AsksSignIn /\ Leased(work.client)
  BY <1>1, <1>2, <1>9, ZenonT(60) DEF AsksSignIn, At, Goes, Work
<1>10. CASE LeasesEnded
  <2>1. \/ At("EndKept") /\ UNCHANGED <<ops, events>> /\ work'.pc = "Preparing"
        \/ At("EndAsked") /\ IF Head1.stop THEN Send(<<Event("SignIn")>> \o Canceled) /\ Done
                             ELSE Send(<<Event("SignIn")>>) /\ Goes("SigningIn", None)
        \/ At("EndStopped") /\ Done /\ IF Is("Run") THEN Send(<<Finish(None)>>) ELSE UNCHANGED events
        \/ At("EndRun") /\ Done /\ UNCHANGED events
    BY <1>1, <1>10, Zenon DEF LeasesEnded, Goes, Work
  <2> QED BY <1>2, <1>4, <1>5, <1>6, <1>7, <2>1 DEF At
<1> QED BY <1>8, <1>9, <1>10

LEMMA RunEndsMaps ==
    ASSUME LeaseInv, Queued, RunEnds
    PROVE  Promised!RunEnds /\ Queued'
<1>1. Types /\ ops # <<>> /\ work \in Work /\ At("Running")
  BY DEF RunEnds, At, LeaseInv, Types
<1>2. Promised!At("Running")
  BY <1>1, AtMaps, PcMaps DEF At
<1>3. PICK error \in {"None", "Failed", "SignIn"} : Send(<<Finish(error)>>)
  BY DEF RunEnds, None
<1>4. Finish(error) \in Sent /\ Read(Finish(error)) = Promised!Finish(error)
  BY <1>1, ReadFinish
<1>5. Promised!Send(<<Promised!Finish(error)>>) /\ Queued'
  BY <1>3, <1>4, SendFew, Zenon
<1>6. Promised!Goes("Ending")
  BY <1>1, GoesMaps DEF RunEnds, Work
<1> QED BY <1>2, <1>5, <1>6 DEF Promised!RunEnds, Promised!None

LEMMA OverdueMaps ==
    ASSUME LeaseInv, Cuts, Queued, Overdue
    PROVE  (Promised!Cut \/ Promised!RunEnds \/ Promised!Ends) /\ Queued'
<1>1. /\ Types /\ ops # <<>> /\ work \in Work /\ ~Head1.done /\ work.pc # "Waiting" /\ work.left = 0 /\ Done
      /\ IF Is("Run") THEN Send(<<Finish(None)>>) ELSE UNCHANGED events
  BY DEF Overdue, Executing, LeaseInv, Types
<1>2. Head1.stop /\ work.pc # "SigningIn"
  BY <1>1, Sized DEF LeaseInv, Chained, Cuts, Off
<1>3. work.pc \in {"Preparing", "EndKept", "EndAsked", "EndStopped", "Running", "EndRun"}
  BY <1>1, <1>2 DEF Work, Pcs, Ending
<1>4. CASE work.pc \in {"Preparing", "EndKept", "EndAsked", "EndStopped"}
  <2>1. ToldPc = "Preparing"
    BY <1>4, PcMaps
  <2> QED BY <1>1, <1>2, <2>1, CutMaps
<1>5. Promised!Done /\ Promised!Send(Promised!Stopped) /\ Queued' /\ Promised!Op.stop
  BY <1>1, <1>2, DoneMaps, StoppedMaps, HeadMaps
<1>6. CASE work.pc = "Running"
  <2>1. Promised!At("Running")
    BY <1>1, <1>6, AtMaps, PcMaps
  <2> QED BY <1>5, <2>1 DEF Promised!RunEnds
<1>7. CASE work.pc = "EndRun"
  <2>1. Promised!At("Ending")
    BY <1>1, <1>7, AtMaps, PcMaps
  <2> QED BY <1>5, <2>1 DEF Promised!Ends
<1> QED BY <1>3, <1>4, <1>6, <1>7

LEMMA LaunchedMaps ==
    ASSUME NEW chain \in Seq(Op), NEW kind \in {"Check", "Run"}
    PROVE  ToldAll(Launched(chain, kind)) = Promised!Launched(ToldAll(chain), kind, "Any")
<1> DEFINE n == Len(chain)
           told == ToldAll(chain)
           again == /\ kind = "Run" /\ n > 0 /\ chain[n].kind = "Check" /\ ~chain[n].done
           op == [kind |-> kind, stop |-> FALSE, done |-> FALSE, replaced |-> again]
           unfinished == n > 0 /\ told[n].kind = "Check" /\ ~told[n].done
           rest == IF kind = "Run" /\ unfinished THEN <<told[n].config>> ELSE <<>>
           top == [kind |-> kind, config |-> "Any", stop |-> FALSE, done |-> FALSE, replaced |-> rest]
<1>1. n \in Nat /\ Len(told) = n /\ told \in Seq(Any) /\ \A i \in 1..n : told[i] = Told(chain[i]) /\ chain[i] \in Op
  BY ToldAllOf
<1>2. Launched(chain, kind)
        = IF n = 0 \/ (n = 1 /\ chain[1].done) THEN <<op>> ELSE Append(Stopped(chain, n), op)
  BY SMTT(60) DEF Launched
<1>3. Promised!Launched(told, kind, "Any")
        = IF n = 0 \/ (n = 1 /\ told[1].done) THEN <<top>> ELSE Append([told EXCEPT ![n].stop = TRUE], top)
  BY <1>1, SMTT(60) DEF Promised!Launched
<1>4. ASSUME n > 0 PROVE /\ told[n].kind = chain[n].kind /\ told[n].config = "Any"
                         /\ told[n].done <=> chain[n].done
  <2>1. told[n] = Told(chain[n]) /\ chain[n] \in Op
    BY <1>1, <1>4, SMTT(60)
  <2> QED BY <2>1 DEF Told, Op
<1>5. op \in Op /\ Told(op) = top
  <2>1. rest = IF again THEN <<"Any">> ELSE <<>>
    BY <1>4, <1>1
  <2>2. op \in Op /\ op.kind = kind /\ op.stop = FALSE /\ op.done = FALSE /\ (op.replaced <=> again)
    BY DEF Op
  <2> HIDE DEF op, again
  <2>3. Told(op) = [kind |-> kind, stop |-> FALSE, done |-> FALSE, config |-> "Any",
                    replaced |-> IF again THEN <<"Any">> ELSE <<>>]
    BY <2>2, Zenon DEF Told
  <2> QED BY <2>1, <2>2, <2>3, Zenon
<1> HIDE DEF op, top, again, rest, unfinished
<1>6. CASE n = 0 \/ (n = 1 /\ chain[1].done)
  <2>1. n = 0 \/ (n = 1 /\ told[1].done)
    BY <1>4, <1>6
  <2>2. ToldAll(<<op>>) = <<top>>
    BY <1>5, ToldOne
  <2> QED BY <1>2, <1>3, <1>6, <2>1, <2>2
<1>7. CASE ~(n = 0 \/ (n = 1 /\ chain[1].done))
  <2>1. ~(n = 0 \/ (n = 1 /\ told[1].done)) /\ n \in 1..Len(chain)
    BY <1>1, <1>4, <1>7
  <2> DEFINE s == Stopped(chain, n)
             S == [told EXCEPT ![n].stop = TRUE]
  <2>2. s \in Seq(Op) /\ ToldAll(s) = S
    BY <2>1, ToldStopped, Zenon
  <2>3. Launched(chain, kind) = Append(s, op) /\ Promised!Launched(told, kind, "Any") = Append(S, top)
    BY <1>2, <1>3, <1>7, <2>1, Zenon
  <2> HIDE DEF s, S, told
  <2>4. ToldAll(Append(s, op)) = Append(ToldAll(s), Told(op))
    BY <1>5, <2>2, ToldAppend, Zenon
  <2> QED BY <1>5, <2>2, <2>3, <2>4 DEF told
<1> QED BY <1>6, <1>7

LEMMA CommandMaps ==
    ASSUME LeaseInv, Queued, Command
    PROVE  /\ \/ Promised!StopCommand
              \/ \E kind \in {"Check", "Run"}, config \in {"Any"} : Promised!Launch(kind, config)
           /\ Queued'
<1>1. ops \in Seq(Op) /\ work \in Work /\ UNCHANGED events
  BY DEF Command, LeaseInv, Types
<1>2. UNCHANGED ReadEvents /\ Queued'
  BY <1>1, SilentMaps
<1>3. work'.pc = work.pc
  BY <1>1 DEF Command, Launch, StopCommand, GraceFrom, Work
<1>4. UNCHANGED ToldPc
  BY <1>3 DEF ToldPc
<1>5. (ToldOps = <<>> <=> ops = <<>>) /\ Len(ToldOps) = Len(ops)
  BY <1>1, ToldAllOf DEF ToldOps
<1>6. ASSUME NEW kind \in {"Check", "Run"}, Launch(kind)
      PROVE  Promised!Launch(kind, "Any")
  <2>1. ToldOps' = Promised!Launched(ToldOps, kind, "Any")
    BY <1>1, <1>6, LaunchedMaps DEF Launch, ToldOps
  <2> QED BY <1>2, <1>4, <1>5, <1>6, <2>1 DEF Launch, Promised!Launch
<1>7. CASE StopCommand
  <2>1. CASE ops = <<>>
    <3>1. UNCHANGED ToldOps
      BY <1>7, <2>1 DEF StopCommand, ToldOps
    <3> QED BY <1>2, <1>4, <1>5, <2>1, <3>1 DEF Promised!StopCommand
  <2>2. CASE ops # <<>>
    <3> DEFINE n == Len(ops)
               s == Stopped(ops, n)
               S == [ToldOps EXCEPT ![n].stop = TRUE]
    <3>1. n \in 1..Len(ops) /\ Current = ops[n] /\ ops[n] \in Op
      BY <1>1, <2>2 DEF Current
    <3>2. s \in Seq(Op) /\ ToldAll(s) = S
      BY <1>1, <3>1, ToldStopped, Zenon DEF ToldOps
    <3>3. Promised!Current = Told(Current)
      BY <1>1, <1>5, <3>1, ToldAllOf DEF Promised!Current, ToldOps
    <3>4. /\ Current.replaced => Promised!Current.replaced = <<"Any">>
          /\ ~Current.replaced => Promised!Current.replaced = <<>>
      BY <3>1, <3>3 DEF Told
    <3>5. /\ Current.replaced => Len(ops) < MaxOps
          /\ ops' = IF Current.replaced THEN Launched(s, "Check") ELSE s
      BY <1>7, <2>2 DEF StopCommand
    <3>6. Promised!StopCommand
             <=> /\ UNCHANGED <<ToldPc, ReadEvents>>
                 /\ Promised!Current.replaced # <<>> => Len(ToldOps) < MaxOps
                 /\ ToldOps' = IF Promised!Current.replaced = <<>> THEN S
                               ELSE Promised!Launched(S, "Check", Promised!Current.replaced[1])
      BY <1>5, <2>2 DEF Promised!StopCommand
    <3> HIDE DEF s, S, n
    <3>7. CASE Current.replaced
      <4>1. Promised!Current.replaced = <<"Any">> /\ Promised!Current.replaced # <<>> /\ Promised!Current.replaced[1] = "Any"
        BY <3>4, <3>7
      <4>2. ToldAll(Launched(s, "Check")) = Promised!Launched(ToldAll(s), "Check", "Any")
        BY <3>2, LaunchedMaps
      <4>3. ToldOps' = Promised!Launched(S, "Check", "Any")
        BY <3>2, <3>5, <3>7, <4>2 DEF ToldOps
      <4> QED BY <1>2, <1>4, <1>5, <3>5, <3>6, <3>7, <4>1, <4>3
    <3>8. CASE ~Current.replaced
      <4>1. ToldOps' = S
        BY <3>2, <3>5, <3>8 DEF ToldOps
      <4> QED BY <1>2, <1>4, <3>4, <3>6, <3>8, <4>1
    <3> QED BY <3>7, <3>8
  <2> QED BY <1>2, <2>1, <2>2
<1> QED BY <1>2, <1>6, <1>7 DEF Command

LEMMA TakeMaps ==
    ASSUME Queued, TakeEvent
    PROVE  Promised!Taken /\ Queued'
<1>1. ReadEvents' = Tail(ReadEvents) /\ ReadEvents # <<>>
  BY ReadTail, ReadAllOf DEF TakeEvent, Queued, ReadEvents
<1>2. UNCHANGED <<ToldOps, ToldPc>>
  BY DEF TakeEvent, ToldOps, ToldPc
<1> DEFINE rest == Tail(events)
<1>3. rest \in Seq(Sent) /\ Len(rest) = Len(events) - 1 /\ Len(events) \in Nat
  BY DEF TakeEvent, Queued
<1> HIDE DEF rest
<1>4. Queued'
  BY <1>3, Sized DEF TakeEvent, Queued, rest
<1> QED BY <1>1, <1>2, <1>4 DEF Promised!Taken

LEMMA CutsStep ==
    ASSUME LeaseInv, Cuts, [Next]_vars
    PROVE  Cuts'
<1>1. Types /\ Chained /\ work \in Work /\ ops \in Seq(Op)
  BY DEF LeaseInv, Types
<1>2. CASE UNCHANGED <<ops, work>>
  BY <1>2 DEF Cuts, Head1
<1>3. CASE work'.pc \notin {"EndStopped", "SigningIn"}
  BY <1>3 DEF Cuts
<1>4. CASE work'.pc = "SigningIn" /\ work'.left = Off
  BY <1>4 DEF Cuts
<1>5. CASE \E k \in Clients : Answer(k) \/ EndLeases(k)
  BY <1>2, <1>5, Zenon DEF Answer, EndLeases
<1>6. CASE Ask \/ Mint \/ TakeEvent \/ UNCHANGED vars
  BY <1>2, <1>6 DEF Ask, Mint, TakeEvent, vars
<1>7. ASSUME Done PROVE Cuts'
  BY <1>3, <1>7 DEF Done, Waiting
<1>8. ASSUME NEW from \in Work, NEW k \in Clients, NEW sent, Runs(from, k, sent) PROVE Cuts'
  <2>1. work'.pc \in {"Running", "EndRun"}
    BY <1>8, ZenonT(60) DEF Runs, Work
  <2> QED BY <1>3, <2>1
<1>9. CASE Begin
  <2> DEFINE begun == [work EXCEPT !.left = IF Head1.stop THEN Grace ELSE Off]
  <2>1. begun \in Work
    BY <1>1, Sized DEF Work, Timer
  <2>2. \/ work'.pc \in {"Preparing", "EndKept"}
        \/ kept # None /\ \E sent : Runs(begun, kept, sent)
        \/ Done
    BY <1>9, <2>1, Zenon DEF Begin, Work
  <2> HIDE DEF begun
  <2>3. kept # None => kept \in Clients
    BY <1>1 DEF Types
  <2> QED BY <1>3, <1>7, <1>8, <2>1, <2>2, <2>3
<1>10. CASE PreparedPaths
  <2>1. work.client \in Clients
    BY <1>1, <1>10 DEF PreparedPaths, At, Chained, Work
  <2> QED BY <1>1, <1>7, <1>8, <1>10, <2>1, SMTT(60) DEF PreparedPaths
<1>11. CASE PreparationFailed \/ Unapproved \/ Overdue
  BY <1>7, <1>11 DEF PreparationFailed, Unapproved, Overdue
<1>12. CASE AsksSignIn
  <2>1. work.left = Off
    BY <1>1, <1>12 DEF AsksSignIn, At, Chained
  <2>2. work'.pc = "EndAsked" \/ (work'.pc = "SigningIn" /\ work'.left = Off)
    BY <1>1, <1>12, <2>1, Zenon DEF AsksSignIn, Goes, Work
  <2> QED BY <1>3, <1>4, <2>2
<1>13. CASE Approved \/ RunEnds
  BY <1>1, <1>3, <1>13, Zenon DEF Approved, RunEnds, Work
<1>14. CASE Cut
  <2>1. CASE At("Preparing") /\ Goes("EndStopped", work.client)
    <3>1. work'.pc = "EndStopped" /\ UNCHANGED ops /\ Head1.stop
      BY <1>1, <1>14, <2>1, SMTT(60) DEF Cut, Goes, Work
    <3> QED BY <3>1 DEF Cuts, Head1
  <2> QED BY <1>7, <1>14, <2>1, SMTT(60) DEF Cut
<1>15. CASE LeasesEnded
  <2>1. CASE At("EndKept") /\ \E k \in Clients : Goes("Preparing", k)
    BY <1>1, <1>3, <2>1 DEF Goes, Work
  <2>2. CASE At("EndAsked") /\ ~Head1.stop /\ Goes("SigningIn", None)
    <3>1. work.left = Off
      BY <1>1, <2>2 DEF At, Chained
    <3> QED BY <1>1, <1>4, <2>2, <3>1 DEF Goes, Work
  <2> QED BY <1>7, <1>15, <2>1, <2>2 DEF LeasesEnded
<1>16. CASE Command
  <2>1. Follows(ops', ops) /\ (work' = work \/ work' = GraceFrom(Len(ops)))
    BY <1>16, CommandEffect
  <2>2. work'.pc = work.pc /\ (work'.left = work.left \/ work'.left = Grace)
    BY <1>1, <2>1 DEF GraceFrom, Work
  <2>3. work.pc = "EndStopped" => ops # <<>> /\ ~ops[1].done
    BY <1>1 DEF Chained, Head1
  <2> QED BY <2>1, <2>2, <2>3 DEF Cuts, Follows, Head1
<1>17. CASE Tick
  <2>1. UNCHANGED ops /\ work'.pc = work.pc /\ work'.left = Sooner(work.left)
    BY <1>1, <1>17, Zenon DEF Tick, Work
  <2>2. CASE work.pc = "SigningIn"
    <3>1. work.left = Off
      BY <1>1, <1>17, <2>2, Zenon DEF Tick, At, Chained
    <3> QED BY <1>4, <2>1, <2>2, <3>1, SMTT(60) DEF Sooner, Off
  <2>3. CASE work.pc # "SigningIn"
    BY <2>1, <2>3 DEF Cuts, Head1
  <2> QED BY <2>2, <2>3, SMTT(60)
<1> QED BY <1>5, <1>6, <1>9, <1>10, <1>11, <1>12, <1>13, <1>14, <1>15, <1>16, <1>17, SMTT(60) DEF Next

LEMMA PromiseStep ==
    ASSUME LeaseInv, Cuts, Queued, [Next]_vars
    PROVE  [Promised!Next]_(Promised!vars) /\ Queued'
<1>1. CASE UNCHANGED vars
  BY <1>1, QuietMaps DEF vars, ToldPc
<1>2. CASE (\E k \in Clients : Answer(k) \/ EndLeases(k)) \/ Ask \/ Mint \/ Tick
  BY <1>2, HiddenSteps
<1>3. CASE Begin
  BY <1>3, BeginMaps DEF Promised!Next, Promised!Works
<1>4. CASE PreparedPaths \/ PreparationFailed \/ (AsksSignIn /\ ~Leased(work.client))
  BY <1>4, PreparesMaps DEF Promised!Next, Promised!Works
<1>5. CASE Approved \/ Unapproved
  BY <1>5, SignsMaps DEF Promised!Next, Promised!Works
<1>6. CASE Cut \/ LeasesEnded \/ (AsksSignIn /\ Leased(work.client))
  BY <1>6, CutAndEndMaps DEF Promised!Next, Promised!Works
<1>7. CASE RunEnds \/ Overdue
  BY <1>7, RunEndsMaps, OverdueMaps DEF Promised!Next, Promised!Works
<1>8. CASE Command
  BY <1>8, CommandMaps DEF Promised!Next
<1>9. CASE TakeEvent
  BY <1>9, TakeMaps DEF Promised!Next
<1> QED BY <1>1, <1>2, <1>3, <1>4, <1>5, <1>6, <1>7, <1>8, <1>9 DEF Next

\* The controller implements Operations (KeepsPromise of Controller), for any
\* clients, any length of the chain, any queue and any timeouts: behind leases that
\* are asked for, answered late and ended, behind sign-ins and graces that run out,
\* every step of controller.rs is one the console is built on, or one it cannot see.
THEOREM ControllerKeepsPromise ==
    Spec => KeepsPromise
<1>1. Init => LeaseInv /\ Cuts /\ Queued /\ Promised!Init
  <2> SUFFICES ASSUME Init PROVE LeaseInv /\ Cuts /\ Queued /\ Promised!Init
    OBVIOUS
  <2>1. Cuts /\ Queued
    BY Sized DEF Init, Waiting, Cuts, Queued
  <2>2. ToldOps = <<>> /\ ReadEvents = <<>>
    BY DEF Init, ToldOps, ReadEvents, ToldAll, ReadAll
  <2>3. ToldPc = "Waiting"
    BY PcMaps DEF Init, Waiting
  <2> QED BY <2>1, <2>2, <2>3, LeaseInit DEF Promised!Init
<1>2. LeaseInv /\ Cuts /\ Queued /\ [Next]_vars
         => LeaseInv' /\ Cuts' /\ Queued' /\ [Promised!Next]_(Promised!vars)
  BY LeaseStep, CutsStep, PromiseStep
<1> QED BY <1>1, <1>2, PTL DEF Spec, KeepsPromise, Promised!Spec
==============================================================================
