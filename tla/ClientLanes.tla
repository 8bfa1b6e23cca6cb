----------------------------- MODULE ClientLanes -----------------------------
(***************************************************************************)
(* The terminal client's lanes of one group (rust/client/src/net/lanes.rs) *)
(* under its retry rule (net/retry.rs, net/fault.rs): lanes that share a   *)
(* connection or a session, dial it one at a time, and try again until     *)
(* they have moved no bytes for the redial window.                         *)
(*                                                                         *)
(* Lost stands for the faults that redial, Malformed for those of a lane   *)
(* that are final, Refused for a final answer, and Busy and BusyLong for   *)
(* answers that ask to wait, the second for longer than the cap.           *)
(***************************************************************************)
EXTENDS Integers, FiniteSets

CONSTANTS
    Lanes,          \* the group's lanes, 0 .. n - 1
    Conns,          \* connections or sessions that exist at once
    Plans,          \* the [carrier, work] the group may have
    Faults,         \* the faults it meets
    Stagger,        \* between the starts of two lanes
    Window,         \* how long a lane may fail without moving bytes
    Quick,          \* an attempt that failed sooner pauses this long
    BusyFirst, BusyCap,
    ControlTimeout  \* a dial's bound, and a download's answer's

VARIABLES
    plan,       \* the group's [carrier, work]
    conns,      \* each connection's state: Free, Usable, Leaving, GoingAway or Closed
    slot,       \* the group's [lock, conn]
    lanes,      \* each lane's state
    tally       \* what the stage reads: [ready, retrying, session, failed]

vars == <<plan, conns, slot, lanes, tally>>

None == "None"
Off == -1

Final(fault) == fault \in {"Malformed", "Refused"}
Answered(fault) == fault \in {"Refused", "Busy", "BusyLong"}

Down == plan.work = "Download"
Session == plan.carrier = "Session"
Shares == plan.carrier # "Single"   \* HTTP/1.1 has no second handle, and one lane

Unstarted(n) ==
    [pc |-> "Delayed", left |-> n * Stagger, again |-> FALSE, conn |-> None, announced |-> FALSE,
     moved |-> FALSE, sent |-> 0, began |-> 0, since |-> Off, busy |-> 0, fault |-> None, dry |-> 0]

Init ==
    /\ plan \in Plans
    /\ conns = [c \in Conns |-> "Free"]
    /\ slot = [lock |-> Off, conn |-> None]
    /\ lanes = [n \in {m \in Lanes : Shares \/ m = 0} |-> Unstarted(n)]
    /\ tally = [ready |-> 0, retrying |-> [n \in DOMAIN lanes |-> FALSE], session |-> None, failed |-> None]

(***************************************************************************)
(* An attempt.                                                             *)
(***************************************************************************)
\* announce: a lane counts as ready once.
Announced(lane) == [lane EXCEPT !.announced = TRUE]
Counted(lane) == IF lane.announced THEN tally ELSE [tally EXCEPT !.ready = @ + 1]

\* An upload's lane opens with its first request, before it has a connection.
Attempt(n) ==
    /\ lanes[n].pc \in {"Delayed", "Pause"} /\ lanes[n].left = 0
    /\ LET lane == [lanes[n] EXCEPT !.pc = "Slot", !.left = ControlTimeout]
       IN IF Down \/ Session THEN lanes' = [lanes EXCEPT ![n] = lane] /\ UNCHANGED tally
          ELSE lanes' = [lanes EXCEPT ![n] = Announced(lane)] /\ tally' = Counted(lane)
    /\ UNCHANGED <<plan, conns, slot>>

\* usable: an HTTP/2 connection told to go away, Leaving, looks usable until it has
\* handed a request back; an HTTP/3 one shows it at once.
LooksUsable(c) == conns[c] \in {"Usable", "Leaving"}

\* Slot::get: the lock is held across the dial.
Get(n) ==
    /\ lanes[n].pc = "Slot" /\ slot.lock = Off
    /\ IF slot.conn # None /\ LooksUsable(slot.conn)
       THEN lanes' = [lanes EXCEPT ![n].pc = "Open", ![n].conn = slot.conn] /\ UNCHANGED slot
       ELSE /\ lanes' = [lanes EXCEPT ![n].pc = "Dial", ![n].left = IF Down /\ ~Session THEN @ ELSE ControlTimeout]
            /\ slot' = [slot EXCEPT !.lock = n]
    /\ UNCHANGED <<plan, conns, tally>>

Unheld == {c \in Conns : c # slot.conn /\ c # tally.session /\ \A n \in DOMAIN lanes : lanes[n].conn # c}

\* An upload's session is announced for its feed.
Dialed(n) ==
    /\ lanes[n].pc = "Dial"
    /\ \E c \in Unheld :
          /\ conns' = [conns EXCEPT ![c] = "Usable"]
          /\ slot' = [lock |-> Off, conn |-> IF Shares THEN c ELSE slot.conn]
          /\ lanes' = [lanes EXCEPT ![n].pc = "Open", ![n].conn = c]
          /\ tally' = IF Session /\ ~Down THEN [tally EXCEPT !.session = c] ELSE tally
    /\ UNCHANGED plan

(***************************************************************************)
(* An attempt's end: Retry::after, and what the tally shows of it.         *)
(***************************************************************************)
Least(a, b) == IF a < b THEN a ELSE b
Most(a, b) == IF a > b THEN a ELSE b

Moved(lane) == lane.moved \/ lane.sent > 1

\* failing_since: the start of the first attempt of those that moved nothing.
Since(lane, moved) == CASE moved -> Off [] lane.since # Off -> lane.since [] OTHER -> lane.began

Stands(fault, since) == Final(fault) \/ since >= Window

Busy(lane) == Least(Most(lane.busy * 2, BusyFirst), BusyCap)
Pause(lane, fault) ==
    CASE fault = "Busy" -> Busy(lane)
      [] fault = "BusyLong" -> BusyCap
      [] OTHER -> IF lane.began < Quick THEN Quick ELSE 0

After(lane, fault, moved) ==
    LET since == Since(lane, moved)
        rest == [lane EXCEPT !.conn = None, !.since = since, !.moved = FALSE, !.sent = 0, !.began = 0,
                             !.again = FALSE, !.dry = IF moved THEN 0 ELSE @]
    IN IF Stands(fault, since)
       THEN [rest EXCEPT !.pc = "Failed", !.fault = fault, !.since = Off, !.busy = 0, !.left = 0]
       ELSE [rest EXCEPT !.pc = "Pause", !.left = Pause(lane, fault),
                         !.busy = IF fault \in {"Busy", "BusyLong"} THEN Busy(lane) ELSE 0]

Unlocked(n) == IF slot.lock = n THEN [slot EXCEPT !.lock = Off] ELSE slot

Fails(n, fault) ==
    LET moved == Moved(lanes[n]) /\ ~Answered(fault)
    IN /\ lanes' = [lanes EXCEPT ![n] = After(@, fault, moved)]
       /\ tally' = [tally EXCEPT !.retrying[n] = ~moved]
       /\ slot' = Unlocked(n)

\* As Restarts, keeping the Retry.
RestartsFailing(lane) == [lane EXCEPT !.pc = "Pause", !.left = 0, !.conn = None, !.moved = FALSE, !.sent = 0,
                                      !.began = 0, !.again = FALSE, !.dry = 0]

\* A clean end that moved bytes begins a new Retry, at once.
Restarts(lane) == [lane EXCEPT !.pc = "Pause", !.left = 0, !.conn = None, !.since = Off, !.busy = 0,
                               !.moved = FALSE, !.sent = 0, !.began = 0, !.again = FALSE, !.dry = 0]

Ends(n) ==
    /\ \/ lanes[n].pc = "Moving" /\ Down /\ (Session => Moved(lanes[n]))
       \/ lanes[n].pc = "Open" /\ ~Down /\ ~Session
    /\ IF Moved(lanes[n])
       THEN /\ lanes' = [lanes EXCEPT ![n] = Restarts(@)]
            /\ tally' = [tally EXCEPT !.retrying[n] = FALSE] /\ UNCHANGED slot
       ELSE Fails(n, "Lost")
    /\ UNCHANGED <<plan, conns>>

DialFails(n) ==
    /\ lanes[n].pc = "Dial"
    /\ \E fault \in Faults : (Answered(fault) => Session) /\ Fails(n, fault)
    /\ UNCHANGED <<plan, conns>>

\* open: a request that never left is sent once more, on the slot's connection.
Unsent(n) ==
    /\ lanes[n].pc = "Open" /\ ~Session /\ conns[lanes[n].conn] # "Usable"
    /\ IF lanes[n].again THEN Fails(n, "Lost")
       ELSE lanes' = [lanes EXCEPT ![n].pc = "Slot", ![n].again = TRUE, ![n].conn = None] /\ UNCHANGED <<slot, tally>>
    /\ conns' = [conns EXCEPT ![lanes[n].conn] = IF @ = "Leaving" THEN "GoingAway" ELSE @]
    /\ UNCHANGED plan

\* A download's answer opens its lane, as a session's stream does an upload's.
Opened(n) ==
    /\ lanes[n].pc = "Open" /\ Down # Session /\ conns[lanes[n].conn] # "Closed"
    /\ LET lane == [lanes[n] EXCEPT !.pc = "Moving", !.left = 0]
       IN lanes' = [lanes EXCEPT ![n] = Announced(lane)] /\ tally' = Counted(lane)
    /\ UNCHANGED <<plan, conns, slot>>

\* Bytes: a session's download opens its lane with its first.
Receives(n) ==
    /\ Down /\ lanes[n].pc = (IF Session THEN "Open" ELSE "Moving")
    /\ conns[lanes[n].conn] # "Closed" /\ ~lanes[n].moved
    /\ LET lane == [lanes[n] EXCEPT !.pc = "Moving", !.left = 0, !.moved = TRUE]
       IN lanes' = [lanes EXCEPT ![n] = Announced(lane)] /\ tally' = Counted(lane)
    /\ UNCHANGED <<plan, conns, slot>>

\* An upload hands on blocks; the second shows that the first left.
Sends(n) ==
    /\ ~Down /\ lanes[n].pc = (IF Session THEN "Moving" ELSE "Open") /\ lanes[n].sent < 2
    /\ conns[lanes[n].conn] # "Closed"
    /\ lanes' = [lanes EXCEPT ![n].sent = @ + 1]
    /\ UNCHANGED <<plan, conns, slot, tally>>

\* The answer refuses, the stream or the connection breaks, or a timeout cuts it.
Breaks(n) ==
    /\ \/ lanes[n].pc = "Open" /\ \E fault \in Faults : (Answered(fault) => ~Session) /\ Fails(n, fault)
       \/ lanes[n].pc = "Moving" /\ \E fault \in Faults : ~Answered(fault) /\ Fails(n, fault)
    /\ UNCHANGED <<plan, conns>>

Bounded(n) == \/ lanes[n].pc = "Dial"
              \/ Down /\ ~Session /\ lanes[n].pc \in {"Slot", "Open"}
TimesOut(n) == Bounded(n) /\ lanes[n].left = 0 /\ Fails(n, "Lost") /\ UNCHANGED <<plan, conns>>

Close(c, state) ==
    /\ conns[c] \in (IF state = "Closed" THEN {"Usable", "Leaving", "GoingAway"} ELSE {"Usable"}) /\ c \notin Unheld
    /\ state = "Leaving" => Shares /\ ~Session
    /\ conns' = [conns EXCEPT ![c] = state]
    /\ UNCHANGED <<plan, slot, lanes, tally>>

\* health: the first lane that failed for good is the group's.
Health(n) ==
    /\ lanes[n].pc = "Failed" /\ tally.failed = None
    /\ tally' = [tally EXCEPT !.failed = lanes[n].fault]
    /\ UNCHANGED <<plan, conns, slot, lanes>>

\* The stage's token ends every lane that is not over.
Cancel ==
    /\ \E n \in DOMAIN lanes : lanes[n].pc \notin {"Failed", "Cancelled"}
    /\ lanes' = [n \in DOMAIN lanes |->
          IF lanes[n].pc = "Failed" THEN lanes[n] ELSE [Unstarted(0) EXCEPT !.pc = "Cancelled", !.announced = lanes[n].announced]]
    /\ slot' = [slot EXCEPT !.lock = Off]
    /\ UNCHANGED <<plan, conns, tally>>

(***************************************************************************)
(* Time.                                                                   *)
(***************************************************************************)
Due(n) == lanes[n].left = 0 /\ (lanes[n].pc \in {"Delayed", "Pause"} \/ Bounded(n))
Older(age) == IF age = Off THEN Off ELSE Least(age + 1, Window)

Tick ==
    /\ \E n \in DOMAIN lanes : lanes[n].pc \notin {"Failed", "Cancelled"}
    /\ \A n \in DOMAIN lanes : ~Due(n)
    /\ lanes' = [n \in DOMAIN lanes |->
          IF lanes[n].pc \in {"Failed", "Cancelled"} THEN lanes[n]
          ELSE [lanes[n] EXCEPT !.left = IF @ > 0 /\ (lanes[n].pc \in {"Delayed", "Pause"} \/ Bounded(n)) THEN @ - 1 ELSE @,
                                !.began = Older(@), !.since = Older(@), !.dry = Older(@)]]
    /\ UNCHANGED <<plan, conns, slot, tally>>

Next ==
    \/ \E n \in DOMAIN lanes :
          \/ Attempt(n) \/ Get(n) \/ Dialed(n) \/ DialFails(n) \/ Unsent(n) \/ Opened(n) \/ Receives(n) \/ Sends(n)
          \/ Ends(n) \/ Breaks(n) \/ TimesOut(n) \/ Health(n)
    \/ \E c \in Conns, state \in {"Leaving", "GoingAway", "Closed"} : Close(c, state)
    \/ Cancel \/ Tick

Spec == Init /\ [][Next]_vars

-----------------------------------------------------------------------------
\* A lane is given up for a passing fault only after the redial window without
\* an attempt that moved bytes: a clean end and a failure after bytes both
\* begin the window anew (Group::run, Retry::after).
WindowKept == \A n \in DOMAIN lanes :
    lanes[n].pc = "Failed" /\ ~Final(lanes[n].fault) => lanes[n].dry >= Window

\* The lanes of a group are on one connection: another is dialed only once the
\* slot's is not usable, by one lane at a time (Slot::get).
GroupShares == \A n \in DOMAIN lanes :
    lanes[n].conn # None /\ Shares /\ lanes[n].conn # slot.conn => ~LooksUsable(lanes[n].conn)

\* ready tells the stage that every lane opened: retries count no lane twice.
ReadyExact == tally.ready = Cardinality({n \in DOMAIN lanes : lanes[n].announced})
==============================================================================
