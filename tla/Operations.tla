----------------------------- MODULE Operations -----------------------------
(***************************************************************************)
(* What the terminal client's controller promises the console              *)
(* (rust/client/src/controller.rs, events.rs): a chain of checks and runs, *)
(* of which only the first works, and the events each sends, in order.     *)
(* Controller implements it with the leases, clients and graces it leaves  *)
(* out; Console is built on it.                                            *)
(***************************************************************************)
EXTENDS Integers, Sequences

CONSTANTS
    Configs,    \* the settings an operation may be for
    Outcomes,   \* of a preparation: its servers' paths, "All" or "Some" usable, ...
    Errors,     \* why a preparation or a run failed
    MaxOps,     \* operations in the chain at once
    MaxEvents   \* events the console has not taken yet

VARIABLES
    ops,        \* the chain: [kind, config, stop, replaced, done]
    pc,         \* what its first does
    events      \* sent and not yet taken by the console: [name, with, of]

vars == <<ops, pc, events>>

None == "None"

Init == ops = <<>> /\ pc = "Waiting" /\ events = <<>>

(***************************************************************************)
(* The console's commands.                                                 *)
(***************************************************************************)
Current == ops[Len(ops)]

\* Cancels the current operation; a run remembers the unfinished check it replaces.
Launched(chain, kind, config) ==
    LET n == Len(chain)
        unfinished == n > 0 /\ chain[n].kind = "Check" /\ ~chain[n].done
        op == [kind |-> kind, config |-> config, stop |-> FALSE, done |-> FALSE,
               replaced |-> IF kind = "Run" /\ unfinished THEN <<chain[n].config>> ELSE <<>>]
    IN IF n = 0 \/ (n = 1 /\ chain[1].done) THEN <<op>>
       ELSE Append([chain EXCEPT ![n].stop = TRUE], op)

Launch(kind, config) ==
    /\ Len(ops) < MaxOps
    /\ ops' = Launched(ops, kind, config)
    /\ UNCHANGED <<pc, events>>

\* A run that replaced a check gives way to that check again.
StopCommand ==
    /\ UNCHANGED <<pc, events>>
    /\ IF ops = <<>> THEN UNCHANGED ops
       ELSE LET stopped == [ops EXCEPT ![Len(ops)].stop = TRUE]
            IN /\ Current.replaced # <<>> => Len(ops) < MaxOps
               /\ ops' = IF Current.replaced = <<>> THEN stopped
                         ELSE Launched(stopped, "Check", Current.replaced[1])

Taken == events # <<>> /\ events' = Tail(events) /\ UNCHANGED <<ops, pc>>

(***************************************************************************)
(* The first operation.                                                    *)
(***************************************************************************)
Op == ops[1]
At(at) == ops # <<>> /\ ~Op.done /\ pc = at
Is(kind) == Op.kind = kind

Event(name, with) == [name |-> name, with |-> with, of |-> Op.config]
Finish(error) == Event("RunFinished", error)
Failed(error) == IF Is("Run") THEN Finish(error) ELSE Event("CheckFailed", error)
Stopped == IF Is("Run") THEN <<Finish(None)>> ELSE <<>>

Send(more) == Len(events) < MaxEvents /\ events' = events \o more
Goes(to) == pc' = to /\ UNCHANGED ops
Done ==
    /\ ops' = IF Len(ops) = 1 THEN <<[Op EXCEPT !.done = TRUE]>> ELSE Tail(ops)
    /\ pc' = "Waiting"

\* Prepared paths start the run, or refuse its plan.
Starts(sent) ==
    \E outcome \in Outcomes :
        LET prepared == Append(sent, Event("Prepared", outcome))
        IN \/ Send(Append(prepared, Event("RunStarted", None))) /\ Goes("Running")
           \/ Send(Append(prepared, Finish("Failed"))) /\ Goes("Ending")

\* A run may reuse the check before it.
Begin ==
    /\ At("Waiting")
    /\ LET checking == <<Event(IF Is("Run") THEN "CheckingRun" ELSE "CheckingCheck", None)>>
       IN \/ Send(checking) /\ Goes("Preparing")
          \/ Is("Run") /\ ~Op.stop /\ Starts(checking)
          \/ Is("Run") /\ Op.stop /\ Send(checking \o Stopped) /\ Done

Prepares ==
    /\ At("Preparing") /\ ~Op.stop
    /\ \/ Is("Run") /\ Starts(<<>>)
       \/ Is("Check") /\ \E outcome \in Outcomes : Send(<<Event("Prepared", outcome)>>) /\ Done
       \/ \E error \in Errors : Send(<<Failed(error)>>) /\ Done
       \/ Send(<<Event("SignIn", None)>>) /\ Goes("SigningIn")

Signs ==
    /\ At("SigningIn") /\ ~Op.stop
    /\ \/ Send(<<Event("SignInEnded", "Approved")>>) /\ Goes("Preparing")
       \/ \E end \in {"Expired", "Failed"} :
             Send(<<Event("SignInEnded", end), Failed("SignIn")>>) /\ Done

\* A stop cuts what prepares or signs in, also as it asks to.
Cut ==
    /\ ops # <<>> /\ Op.stop
    /\ LET canceled == <<Event("SignInEnded", "Canceled")>> \o Stopped
       IN \/ At("Preparing") /\ (Send(Stopped) \/ Send(<<Event("SignIn", None)>> \o canceled))
          \/ At("SigningIn") /\ Send(canceled)
    /\ Done

RunEnds ==
    /\ At("Running")
    /\ \/ \E error \in Errors \cup {None} : Send(<<Finish(error)>>) /\ Goes("Ending")
       \/ Op.stop /\ Send(Stopped) /\ Done

\* A run that reported its end may be stopped as it ends its leases, and report another.
Ends == At("Ending") /\ Done /\ (UNCHANGED events \/ (Op.stop /\ Send(Stopped)))

Works == Begin \/ Prepares \/ Signs \/ Cut \/ RunEnds \/ Ends

Next ==
    \/ Works \/ StopCommand \/ Taken
    \/ \E kind \in {"Check", "Run"}, config \in Configs : Launch(kind, config)

Spec == Init /\ [][Next]_vars
=============================================================================
