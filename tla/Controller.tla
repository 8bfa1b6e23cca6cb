----------------------------- MODULE Controller -----------------------------
(***************************************************************************)
(* The terminal client's operations (rust/client/src/controller.rs) and    *)
(* the leases their path checks take (net/mod.rs, run/prepare.rs), under   *)
(* any commands.  It implements Operations, on which Console is built.     *)
(*                                                                         *)
(* Checks and runs form a chain: each cancels the one before and begins    *)
(* once it ended.  Only the first of ops does anything; the last is the    *)
(* controller's current one, which stays when it is done.  Events queue    *)
(* for the console.  Timers hold the time they have left.                  *)
(***************************************************************************)
EXTENDS Integers, Sequences

CONSTANTS
    Clients,        \* network clients alive at once, each of one path check
    MaxOps,         \* operations in the chain at once
    MaxEvents,      \* events the console has not taken yet
    Askers,         \* origins of a selection that may ask for sign-in
    Grace,          \* how long a stopped operation may take
    ControlTimeout, \* how long a lease request may go unanswered
    DeleteTimeout   \* how long a lease's end may

VARIABLES
    ops,        \* the chain: [kind, stop, replaced, done]
    work,       \* what its first does: [pc, client, left, approved, finished]
    kept,       \* the client of the check kept for a run, or None
    clients,    \* each client's [asked, held, ending, deleting]
    events      \* sent and not yet taken by the console

vars == <<ops, work, kept, clients, events>>

None == "None"
Off == -1
Sooner(left) == IF left > 0 THEN left - 1 ELSE left

ASSUME Sized ==
    /\ Grace \in Nat \ {0} /\ ControlTimeout \in Nat /\ DeleteTimeout \in Nat
    /\ MaxEvents \in Nat /\ Askers \in Nat /\ None \notin Clients

Waiting == [pc |-> "Waiting", client |-> None, left |-> Off, approved |-> 0, finished |-> 0]
Unleased == [asked |-> Off, held |-> FALSE, ending |-> "No", deleting |-> Off]

Init ==
    /\ ops = <<>> /\ work = Waiting /\ kept = None /\ events = <<>>
    /\ clients = [k \in Clients |-> Unleased]

(***************************************************************************)
(* A client's leases.  end_leases waits for the requests that have no      *)
(* answer yet, then ends what is held, in a task that outlives its caller. *)
(***************************************************************************)
Leased(k) == clients[k].asked # Off \/ clients[k].held

Ends(cs, k) == [cs EXCEPT ![k] = [cs[k] EXCEPT !.ending = "Waiting", !.deleting = Off]]

\* A prepared check dropped with leases ends them in the background.
Dropped(k) == IF k # None /\ Leased(k) THEN Ends(clients, k) ELSE clients

Answer(k) ==
    /\ clients[k].asked # Off
    /\ \E held \in {clients[k].held, TRUE} :
          clients' = [clients EXCEPT ![k] = [clients[k] EXCEPT !.asked = Off, !.held = held]]
    /\ UNCHANGED <<ops, work, kept, events>>

SnapshotAtOnce(k) == clients[k].ending = "Waiting"
Snapshot(k) == clients[k].ending = "Waiting" /\ clients[k].asked = Off

EndsAs(k, ending, deleting, held) ==
    clients' = [clients EXCEPT ![k] = [clients[k] EXCEPT !.ending = ending, !.deleting = deleting, !.held = held]]

EndLeases(k) ==
    /\ \/ Snapshot(k) /\ clients[k].held /\ EndsAs(k, "Deleting", DeleteTimeout, TRUE)
       \/ Snapshot(k) /\ ~clients[k].held /\ EndsAs(k, "No", Off, FALSE)
       \/ clients[k].ending = "Deleting" /\ EndsAs(k, "No", Off, FALSE)
    /\ UNCHANGED <<ops, work, kept, events>>

(***************************************************************************)
(* The controller's commands.                                              *)
(***************************************************************************)
Current == ops[Len(ops)]
Head1 == ops[1]
Executing == ops # <<>> /\ ~Head1.done /\ work.pc # "Waiting"

\* Cancelled at i: the first operation's grace begins.
Stopped(chain, i) == [chain EXCEPT ![i].stop = TRUE]
GraceFrom(i) == IF i = 1 /\ Executing /\ work.left = Off THEN [work EXCEPT !.left = Grace] ELSE work

\* launch: a run remembers the unfinished check it replaces.
Launched(chain, kind) ==
    LET n == Len(chain)
        op == [kind |-> kind, stop |-> FALSE, done |-> FALSE,
               replaced |-> /\ kind = "Run" /\ n > 0
                            /\ chain[n].kind = "Check" /\ ~chain[n].done]
    IN IF n = 0 \/ (n = 1 /\ chain[1].done) THEN <<op>> ELSE Append(Stopped(chain, n), op)

Launch(kind) ==
    /\ Len(ops) < MaxOps
    /\ ops' = Launched(ops, kind)
    /\ work' = IF ops # <<>> THEN GraceFrom(Len(ops)) ELSE work

\* Stop: a run that replaced a check gives way to that check again.
StopCommand ==
    IF ops = <<>> THEN UNCHANGED <<ops, work>>
    ELSE LET stopped == Stopped(ops, Len(ops))
         IN /\ Current.replaced => Len(ops) < MaxOps
            /\ ops' = IF Current.replaced THEN Launched(stopped, "Check") ELSE stopped
            /\ work' = GraceFrom(Len(ops))

(***************************************************************************)
(* An operation.                                                           *)
(***************************************************************************)
Send(more) == Len(events) < MaxEvents /\ events' = events \o more
At(pc) == ops # <<>> /\ ~Head1.done /\ work.pc = pc
Is(kind) == Head1.kind = kind
Event(name) == [name |-> name, error |-> None]
Finish(error) == [name |-> "RunFinished", error |-> error]
Failed(error) == IF Is("Run") THEN Finish(error) ELSE [name |-> "CheckFailed", error |-> error]

\* The operation ends, and the next in the chain takes what it leaves.
Done ==
    /\ ops' = IF Len(ops) = 1 THEN <<[Head1 EXCEPT !.done = TRUE]>> ELSE Tail(ops)
    /\ work' = Waiting

Goes(pc, client) == work' = [work EXCEPT !.pc = pc, !.client = client] /\ UNCHANGED ops

\* A check prepares with a client of its own.
Unused(k) == clients[k] = Unleased /\ kept # k /\ work.client # k

\* coordinator::run took prepared paths: it starts, or refuses its plan.
Runs(from, k, sent) ==
    \/ /\ Send(sent \o <<Event("Prepared"), Event("RunStarted")>>)
       /\ work' = [from EXCEPT !.pc = "Running", !.client = k] /\ UNCHANGED <<ops, clients>>
    \/ /\ Send(sent \o <<Event("Prepared"), Finish("Failed")>>)
       /\ work' = [from EXCEPT !.pc = "EndRun", !.client = k, !.finished = 1]
       /\ clients' = Ends(clients, k) /\ UNCHANGED ops

\* check and run up to their preparation: the kept check is ended, or taken
\* by a run that finds it fresh.
Begin ==
    /\ At("Waiting")
    /\ LET checking == Event(IF Is("Run") THEN "CheckingRun" ELSE "CheckingCheck")
           begun == [work EXCEPT !.left = IF Head1.stop THEN Grace ELSE Off]
       IN \/ /\ kept = None /\ Send(<<checking>>)
             /\ \E k \in Clients : /\ Unused(k)
                                   /\ work' = [begun EXCEPT !.pc = "Preparing", !.client = k]
             /\ UNCHANGED <<ops, kept, clients>>
          \/ /\ kept # None /\ Send(<<checking>>) /\ kept' = None
             /\ work' = [begun EXCEPT !.pc = "EndKept", !.client = kept]
             /\ clients' = Ends(clients, kept) /\ UNCHANGED ops
          \/ /\ kept # None /\ Is("Run") /\ ~Head1.stop /\ kept' = None
             /\ Runs(begun, kept, <<checking>>)
          \/ /\ kept # None /\ Is("Run") /\ Head1.stop /\ kept' = None
             /\ Send(<<checking, Finish(None)>>) /\ clients' = Dropped(kept) /\ Done
   

\* The check under way asks for its lease.
Ask ==
    /\ At("Preparing") /\ ~Leased(work.client) /\ ~Head1.stop
    /\ clients' = [clients EXCEPT ![work.client].asked = ControlTimeout]
    /\ UNCHANGED <<ops, work, kept, events>>

\* The paths came, usable or not: a lease was at least asked for.
PreparedPaths ==
    /\ At("Preparing") /\ ~Head1.stop /\ Leased(work.client)
    /\ \/ Is("Run") /\ Runs(work, work.client, <<>>) /\ UNCHANGED kept
       \/ Is("Check") /\ Send(<<Event("Prepared")>>) /\ kept' = work.client /\ Done /\ UNCHANGED clients
   

\* No catalog or no selection: nothing was leased.
PreparationFailed ==
    /\ At("Preparing") /\ ~Head1.stop /\ ~Leased(work.client)
    /\ \E error \in {"Failed", "SignIn"} : Send(<<Failed(error)>>)
    /\ Done /\ UNCHANGED <<kept, clients>>

\* An origin not yet approved in the operation asks for sign-in: what was prepared
\* ends.  One that asks again fails the check.
AsksSignIn ==
    /\ At("Preparing") /\ ~Head1.stop /\ work.approved < Askers
    /\ IF Leased(work.client)
       THEN /\ clients' = Ends(clients, work.client)
            /\ Goes("EndAsked", work.client) /\ UNCHANGED events
       ELSE /\ Send(<<Event("SignIn")>>) /\ Goes("SigningIn", None) /\ UNCHANGED clients
    /\ UNCHANGED <<kept>>

Approved ==
    /\ At("SigningIn") /\ ~Head1.stop /\ Send(<<Event("SignInApproved")>>)
    /\ \E k \in Clients : /\ Unused(k)
                          /\ work' = [work EXCEPT !.pc = "Preparing", !.client = k, !.approved = @ + 1]
    /\ UNCHANGED <<ops, kept, clients>>

Unapproved ==
    /\ At("SigningIn") /\ ~Head1.stop
    /\ \E end \in {"SignInExpired", "SignInFailed"} :
          Send(<<Event(end), Failed("SignIn")>>)
    /\ Done /\ UNCHANGED <<kept, clients>>

\* A sign-in the operator stopped ends, and its run with it.
CanceledSilently == IF Is("Run") THEN <<Finish(None)>> ELSE <<>>
Canceled == <<Event("SignInCanceled")>> \o IF Is("Run") THEN <<Finish(None)>> ELSE <<>>

\* A stop cuts the preparation, whose leases end before the operation does,
\* or the sign-in.
Cut ==
    /\ ops # <<>> /\ Head1.stop
    /\ \/ /\ At("Preparing") /\ clients' = Ends(clients, work.client)
          /\ Goes("EndStopped", work.client) /\ UNCHANGED events
       \/ /\ At("SigningIn") /\ UNCHANGED clients
          /\ Send(Canceled) /\ Done
    /\ UNCHANGED <<kept>>

\* The leases an operation waited for have ended.
LeasesEnded ==
    /\ work.client # None /\ clients[work.client].ending = "No"
    /\ \/ /\ At("EndKept") /\ \E k \in Clients : Unused(k) /\ Goes("Preparing", k)
          /\ UNCHANGED <<clients, events>>
       \/ /\ At("EndAsked") /\ UNCHANGED clients
          /\ IF Head1.stop THEN Send(<<Event("SignIn")>> \o Canceled) /\ Done
             ELSE Send(<<Event("SignIn")>>) /\ Goes("SigningIn", None)
       \/ /\ At("EndStopped") /\ Done /\ UNCHANGED clients
          /\ IF Is("Run") THEN Send(<<Finish(None)>>) ELSE UNCHANGED events
       \/ At("EndRun") /\ Done /\ UNCHANGED <<events, clients>>
    /\ UNCHANGED <<kept>>

\* A stage's upload mints its receiver with the lease.
Mint ==
    /\ At("Running") /\ ~Head1.stop /\ clients[work.client].held /\ clients[work.client].asked = Off
    /\ clients' = [clients EXCEPT ![work.client].asked = ControlTimeout]
    /\ UNCHANGED <<ops, work, kept, events>>

\* coordinator::run is over, by itself or stopped; its leases end after it.
RunEnds ==
    /\ At("Running")
    /\ \E error \in {None, "Failed", "SignIn"} : Send(<<Finish(error)>>)
    /\ work' = [work EXCEPT !.pc = "EndRun", !.finished = work.finished + 1]
    /\ clients' = Ends(clients, work.client)
    /\ UNCHANGED <<ops, kept>>

\* bounded: past its grace the operation is dropped where it stands.
Overdue ==
    /\ Executing /\ work.left = 0
    /\ clients' = IF work.pc \in {"Running", "EndKept", "EndAsked", "EndRun"}
                  THEN Dropped(work.client) ELSE clients
    /\ IF Is("Run") THEN Send(<<Finish(None)>>) ELSE UNCHANGED events
    /\ Done /\ UNCHANGED <<kept>>

(***************************************************************************)
(* The console's commands, and its taking of events.                       *)
(***************************************************************************)
Command ==
    /\ (\E kind \in {"Check", "Run"} : Launch(kind)) \/ StopCommand
    /\ UNCHANGED <<kept, clients, events>>

TakeEvent == events # <<>> /\ events' = Tail(events) /\ UNCHANGED <<ops, work, kept, clients>>

\* Time passes when nothing is due; a stop cuts what waits for it at once.
Tick ==
    /\ ~(ops # <<>> /\ Head1.stop /\ (At("Preparing") \/ At("SigningIn")))
    /\ work.left # 0 /\ \A k \in Clients : clients[k].asked # 0 /\ clients[k].deleting # 0
    /\ work.left > 0 \/ \E k \in Clients : clients[k].asked > 0 \/ clients[k].deleting > 0
    /\ work' = [work EXCEPT !.left = Sooner(@)]
    /\ clients' = [k \in Clients |-> [clients[k] EXCEPT !.asked = Sooner(@), !.deleting = Sooner(@)]]
    /\ UNCHANGED <<ops, kept, events>>

Next ==
    \/ \E k \in Clients : Answer(k) \/ EndLeases(k)
    \/ Begin \/ Ask \/ PreparedPaths \/ PreparationFailed
    \/ AsksSignIn \/ Approved \/ Unapproved \/ Cut \/ LeasesEnded
    \/ Mint \/ RunEnds \/ Overdue
    \/ Command \/ TakeEvent \/ Tick

Spec == Init /\ [][Next]_vars

(***************************************************************************)
(* Properties.                                                             *)
(***************************************************************************)
\* A lease the client holds or asks for is that of the operation under way or of
\* the check kept for the next run, or something is ending it: a stop, a
\* replaced check, a dropped run or an answer that comes late leaves none behind.
NoLeaseOrphaned ==
    \A k \in Clients : Leased(k) => work.client = k \/ kept = k \/ clients[k].ending # "No"

\* The chain without its leases and graces, and the events as the console reads them.
SignInEnds == [SignInApproved |-> "Approved", SignInExpired |-> "Expired",
               SignInFailed |-> "Failed", SignInCanceled |-> "Canceled"]
Read(event) ==
    [of |-> "Any", name |-> IF event.name \in DOMAIN SignInEnds THEN "SignInEnded" ELSE event.name,
     with |-> IF event.name \in DOMAIN SignInEnds THEN SignInEnds[event.name]
              ELSE IF event.name = "Prepared" THEN "All" ELSE event.error]
Told(op) ==
    [kind |-> op.kind, stop |-> op.stop, done |-> op.done, config |-> "Any",
     replaced |-> IF op.replaced THEN <<"Any">> ELSE <<>>]
ToldAll(chain) == [i \in DOMAIN chain |-> Told(chain[i])]
ReadAll(sent) == [i \in DOMAIN sent |-> Read(sent[i])]
ToldOps == ToldAll(ops)
ReadEvents == ReadAll(events)
ToldPc ==
    CASE work.pc \in {"EndKept", "EndAsked", "EndStopped"} -> "Preparing"
      [] work.pc = "EndRun" -> "Ending"
      [] OTHER -> work.pc
Promised ==
    INSTANCE Operations WITH
        Configs <- {"Any"}, Outcomes <- {"All"}, Errors <- {"Failed", "SignIn"}, MaxEvents <- MaxEvents + 3,
        ops <- ToldOps, events <- ReadEvents, pc <- ToldPc

\* The controller implements Operations, on which the console is built: whatever
\* leases, late answers and graces do, operations begin, prepare, sign in, run and
\* end in that order, each sending what its kind sends there.
KeepsPromise == Promised!Spec

\* An operation that sent its run's end sends nothing more: the grace of a stop
\* never ends a run a second time.
RunFinishesOnce == [][Overdue /\ Is("Run") => work.finished = 0]_vars
==============================================================================
