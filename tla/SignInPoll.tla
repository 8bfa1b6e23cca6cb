------------------------------ MODULE SignInPoll ------------------------------
(***************************************************************************)
(* The terminal client waiting for a browser's approval (Approval::wait    *)
(* and poll of rust/client/src/net/approval.rs): a token exchange every    *)
(* Poll until the approval's deadline, over a connection kept while it is  *)
(* usable.  The clock and a poll's answer may both be due at one instant.  *)
(***************************************************************************)
EXTENDS Integers

CONSTANTS
    Lifetime,       \* of the approval
    Poll,           \* from one poll's start to the next's
    ControlTimeout  \* of a poll

VARIABLES
    left,       \* until the approval's deadline
    poll,       \* [pc, next, left, conn]: Asking, Sleeping, Last or Over
    unreachable, \* the last poll's passing fault, if it had one
    outcome,
    seen        \* what the last poll the deadline did not cut answered

vars == <<left, poll, unreachable, outcome, seen>>

Init ==
    /\ left = Lifetime /\ unreachable = FALSE /\ outcome = "None" /\ seen = "Nothing"
    /\ poll = [pc |-> "Asking", next |-> Poll, left |-> ControlTimeout, conn |-> "None"]

Sooner(n) == IF n > 0 THEN n - 1 ELSE n

\* Past the deadline, or with no time for another: the last outcome at the deadline.
Rests(fault, conn) ==
    /\ unreachable' = fault
    /\ poll' = [poll EXCEPT !.pc = IF left = 0 \/ poll.next >= left THEN "Last" ELSE "Sleeping", !.conn = conn]
    /\ UNCHANGED <<left, outcome>>

Answers == poll.pc = "Asking" /\ poll.left > 0

Pending == Answers /\ Rests(FALSE, "Usable") /\ seen' = "Pending"

\* A passing fault counts unless the deadline came first; a poll that fails
\* before its answer takes its connection with it.
Fails(passing) ==
    /\ poll.pc = "Asking"
    /\ IF passing THEN /\ Rests(IF left = 0 THEN unreachable ELSE TRUE, "None")
                       /\ seen' = IF left = 0 THEN seen ELSE "Fault"
       ELSE /\ Answers /\ outcome' = "Failed" /\ seen' = "Final"
            /\ poll' = [poll EXCEPT !.pc = "Over", !.conn = "None"] /\ UNCHANGED <<left, unreachable>>

Granted ==
    /\ Answers /\ outcome' = "Granted" /\ seen' = "Grant"
    /\ poll' = [poll EXCEPT !.pc = "Over"] /\ UNCHANGED <<left, unreachable>>

\* timeout_at of a poll that has no answer at the deadline.
CutShort == poll.pc = "Asking" /\ left = 0 /\ Rests(unreachable, "None") /\ UNCHANGED seen

ConnCloses ==
    /\ poll.conn = "Usable" /\ poll' = [poll EXCEPT !.conn = "Closed"]
    /\ UNCHANGED <<left, unreachable, outcome, seen>>

AsksAgain ==
    /\ poll.pc = "Sleeping" /\ poll.next = 0
    /\ poll' = [pc |-> "Asking", next |-> Poll, left |-> ControlTimeout,
                conn |-> IF poll.conn = "Usable" THEN "Usable" ELSE "None"]
    /\ UNCHANGED <<left, unreachable, outcome, seen>>

Expires ==
    /\ poll.pc = "Last" /\ left = 0
    /\ outcome' = IF unreachable THEN "Failed" ELSE "Expired"
    /\ poll' = [poll EXCEPT !.pc = "Over"] /\ UNCHANGED <<left, unreachable, seen>>

Due == \/ left = 0
       \/ poll.pc = "Asking" /\ poll.left = 0
       \/ poll.pc = "Sleeping" /\ poll.next = 0

Tick ==
    /\ poll.pc # "Over" /\ ~Due
    /\ left' = left - 1
    /\ poll' = [poll EXCEPT !.next = Sooner(@), !.left = Sooner(@)]
    /\ UNCHANGED <<unreachable, outcome, seen>>

Next ==
    \/ Pending \/ Granted \/ CutShort \/ AsksAgain \/ Expires \/ ConnCloses \/ Tick
    \/ \E passing \in BOOLEAN : Fails(passing)

Spec == Init /\ [][Next]_vars

-----------------------------------------------------------------------------
\* What a sign-in ends with is what its last whole poll said: it expired only
\* if the server still waited, and it is a failure if the server was not
\* reached, whatever a poll cut by the deadline would have said (wait).
LastPollTold ==
    /\ outcome = "Expired" => seen \in {"Pending", "Nothing"}
    /\ outcome = "Failed" => seen \in {"Fault", "Final"}
==============================================================================
