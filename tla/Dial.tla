-------------------------------- MODULE Dial --------------------------------
(***************************************************************************)
(* A TCP dial (dial.rs): the addresses of the resolver's first family in   *)
(* turn, joined by the other family's after a delay or once the first      *)
(* failed, each address with its share of the time left.                   *)
(*                                                                         *)
(* An address connects, refuses or stays silent as the environment         *)
(* chooses.  A family's run along its addresses is a `chain'.              *)
(***************************************************************************)
EXTENDS Naturals, FiniteSets

CONSTANTS
    Sizes,                     \* by family: the number of its addresses
    Timeout, Delay, MinShare   \* of the whole dial, of the fallback, of an address

VARIABLES now, chains, outcome

vars == <<now, chains, outcome>>

Families == {"Primary", "Fallback"}
None == "None"

\* An equal part of the time left for each address, but at least MinShare.
Share(left, addresses) ==
    LET equal == left \div addresses
        least == IF MinShare < left THEN MinShare ELSE left
    IN IF equal > least THEN equal ELSE least

First(chain, error) == IF chain.first = None THEN error ELSE chain.first

\* The next address of a family, or its end: its first error, or that none resolved.
Onward(family, chain) ==
    LET at == chain.at + 1
        left == Timeout - now
    IN IF at > Sizes[family] THEN [chain EXCEPT !.pc = "Failed", !.first = First(chain, "NotFound")]
       ELSE IF left = 0 THEN [chain EXCEPT !.pc = "Failed", !.first = First(chain, "TimedOut")]
       ELSE [chain EXCEPT !.pc = "Trying", !.at = at, !.due = now + Share(left, Sizes[family] - chain.at)]

Fresh == [pc |-> "Waiting", at |-> 0, due |-> 0, first |-> None]

Init ==
    /\ now = 0 /\ outcome = None
    /\ chains = [family \in Families |-> IF family = "Primary" THEN Onward(family, Fresh) ELSE Fresh]

Connect(family) ==
    /\ outcome = None /\ chains[family].pc = "Trying"
    /\ outcome' = "Connected" /\ UNCHANGED <<now, chains>>

\* A family that fails leaves the other; with both failed, the primaries' error.
Fail(family, error) ==
    LET next == Onward(family, [chains[family] EXCEPT !.first = First(chains[family], error)])
        other == CHOOSE f \in Families : f # family
        lone == next.pc = "Failed" /\ (Sizes["Fallback"] = 0 \/ chains[other].pc = "Failed")
    IN /\ chains' = [f \in Families |->
              IF f = family THEN next
              ELSE IF next.pc = "Failed" /\ chains[f].pc = "Waiting" /\ Sizes[f] > 0 THEN Onward(f, chains[f])
              ELSE chains[f]]
       /\ outcome' = IF lone THEN chains'["Primary"].first ELSE None

Refuse(family) ==
    /\ outcome = None /\ chains[family].pc = "Trying" /\ Fail(family, "Refused") /\ UNCHANGED now

Lapse(family) ==
    /\ outcome = None /\ chains[family].pc = "Trying" /\ now = chains[family].due
    /\ Fail(family, "TimedOut") /\ UNCHANGED now

Joins == outcome = None /\ now = Delay /\ Sizes["Fallback"] > 0 /\ chains["Fallback"].pc = "Waiting"

Join ==
    /\ Joins /\ chains' = [chains EXCEPT !["Fallback"] = Onward("Fallback", @)]
    /\ UNCHANGED <<now, outcome>>

Deadline == outcome = None /\ now = Timeout /\ outcome' = "TimedOut" /\ UNCHANGED <<now, chains>>

Tick ==
    /\ outcome = None /\ now < Timeout /\ ~Joins
    /\ \A family \in Families : chains[family].pc = "Trying" => now < chains[family].due
    /\ now' = now + 1 /\ UNCHANGED <<chains, outcome>>

Next == Join \/ Deadline \/ Tick \/ \E family \in Families : Connect(family) \/ Refuse(family) \/ Lapse(family)

Spec == Init /\ [][Next]_vars

(***************************************************************************)
(* Properties.                                                             *)
(***************************************************************************)
\* A dial fails only once every address of both families was tried, and with the
\* primaries' own error; or at its deadline, by when every address that could have
\* its least share had its turn: a silent address costs the others no chance.
DialTriesAll ==
    /\ outcome \in {"Refused", "NotFound"} =>
          /\ outcome = chains["Primary"].first
          /\ \A family \in Families : chains[family].at = Sizes[family]
    /\ now = Timeout /\ outcome \in {None, "TimedOut"} =>
          \A family \in Families :
              (Sizes[family] * MinShare <= Timeout - IF family = "Primary" THEN 0 ELSE Delay) =>
                  chains[family].at = Sizes[family]
==============================================================================
