------------------------------- MODULE Prober -------------------------------
(***************************************************************************)
(* One server's latency probing in a stage, client/src/run/probe.rs: the   *)
(* Schedule of sends, deadlines and redials, and the loop that serves it   *)
(* over a bus it dials.                                                    *)
(*                                                                         *)
(* A probe is its number.  The learnt deadline (SRTT and RTTVAR) is a      *)
(* choice from Deadlines, made when a probe is sent.  The bus may lose,    *)
(* delay and duplicate replies, fail, and hold a send up.                  *)
(***************************************************************************)
EXTENDS Integers, Sequences, FiniteSets, FiniteSetsExt, FiniteSetTheorems, TLAPS

CONSTANTS
    Window,      \* probes kept in flight
    Schedules,   \* subset of {"Every", "ReplyDriven"}
    Spacing,     \* between two probes of the first
    Deadlines,   \* deadlines a probe may get
    LateReplies, \* how long a late reply still teaches
    RedialWindow, EarlyLoss, ReadyBound, SendTimeout,
    Span,        \* length of the measured window
    Lag,         \* how late a timer may wake the loop
    Copies,      \* bound: replies one probe may get
    MaxOpen,     \* bound: the window opens by then
    MaxTime      \* bound: the clock's end

\* A probe may be in flight, and a deadline is some time after its send.
ASSUME ProberAssumption == Window \in Nat \ {0} /\ Deadlines \subseteq Nat

VARIABLES
    now, pc,
    window,   \* "Waiting", "Open" or "Closed", as the coordinator set it
    end,      \* the window's end, once open
    at, bound, opened,      \* the dial's start and bound, and when the channel opened
    cadence,  \* the schedule's cadence
    pending,  \* probes in flight, with when they went and their deadline
    late,     \* probes that timed out, whose reply may still teach
    next, sent, due, answered,
    closed,   \* the serve loop has seen the window closed
    wire,     \* for each probe sent on this channel, the replies that may still arrive
    sending,  \* the probe being sent and when the send began
    outcomes, \* for each probe sent, how often it resolved
    told      \* "", or the event the population ended with

schedule == <<cadence, pending, late, next, sent, due, answered>>
vars == <<now, pc, window, end, at, bound, opened, schedule, closed, wire, sending, outcomes, told>>

None == -1
ReplyDriven == cadence = "ReplyDriven"

Init ==
    /\ now = 0 /\ pc = "Pause" /\ window = "Waiting" /\ end = None
    /\ at = 0 /\ bound = ReadyBound /\ opened = None
    /\ cadence \in Schedules /\ pending = <<>> /\ late = <<>> /\ next = 0 /\ sent = 0 /\ due = 0 /\ answered = FALSE
    /\ closed = FALSE /\ wire = <<>> /\ sending = [id |-> None, since |-> 0]
    /\ outcomes = <<>> /\ told = ""

----------------------------------------------------------------------------
(* Schedule. *)

InFlight == DOMAIN pending
Without(f, probes) == [p \in DOMAIN f \ probes |-> f[p]]
Resolve(probes) == [p \in DOMAIN outcomes |-> IF p \in probes THEN outcomes[p] + 1 ELSE outcomes[p]]

\* wake(): the next send or deadline; none once sending stopped and all resolved.
Wakes == (IF due = None THEN {} ELSE {due}) \cup {pending[p].deadline : p \in InFlight}

\* reply(): a late one only teaches; one in flight resolves, and a reply-driven
\* prober sends its next probe, a unit past the last send at least.
Reply(p) ==
    IF p \in DOMAIN late
    THEN /\ late' = Without(late, {p}) /\ answered' = TRUE
         /\ UNCHANGED <<pending, due, outcomes>>
    ELSE IF p \in InFlight
    THEN /\ pending' = Without(pending, {p}) /\ outcomes' = Resolve({p}) /\ answered' = TRUE
         /\ due' = IF ReplyDriven /\ due # None THEN Max({now, sent + 1}) ELSE due
         /\ UNCHANGED late
    ELSE UNCHANGED <<pending, late, due, outcomes, answered>>

\* expire(): probes past their deadline time out, and only teach from then on.
Expired == {p \in InFlight : now >= pending[p].deadline}
Flying == Without(pending, Expired)
LateAfter ==
    [p \in {q \in DOMAIN late : now - late[q] <= LateReplies} \cup Expired |->
        IF p \in Expired THEN pending[p].sent ELSE late[p]]

\* send(): the due time moves on, and a probe goes if one may be in flight.
NextDue(deadline) ==
    IF ReplyDriven THEN now + deadline ELSE due + Spacing * (((now - due) \div Spacing) + 1)
Sends == due # None /\ now >= due /\ Cardinality(DOMAIN Flying) < Window

\* redial(): none before a reply or past the bound; a channel lost early waits.
RedialBound == IF window = "Open" THEN Min({end, now + RedialWindow}) ELSE now + RedialWindow
MayRedial == answered /\ now < RedialBound
RedialAt ==
    IF now - opened < EarlyLoss /\ now + EarlyLoss < RedialBound THEN now + EarlyLoss ELSE now

----------------------------------------------------------------------------
(* The probing loop. *)

\* probe(): the pause before a dial passes, and the dial opens a channel or fails.
DialOpens ==
    /\ pc = "Pause" /\ now >= at
    /\ pc' = "Serve" /\ opened' = now /\ wire' = <<>>
    /\ UNCHANGED <<now, window, end, at, bound, schedule, closed, sending, outcomes, told>>
DialFails ==
    /\ pc = "Pause" /\ now >= at
    /\ pc' = "Done" /\ told' = "Down"
    /\ UNCHANGED <<now, window, end, at, bound, opened, schedule, closed, wire, sending, outcomes>>

\* serve(): the loop's head sees a closed window and stops sending.
SeesClosed ==
    /\ pc = "Serve" /\ window = "Closed" /\ ~closed
    /\ closed' = TRUE /\ due' = None
    /\ UNCHANGED <<now, pc, window, end, at, bound, opened, cadence, pending, late, next, sent, answered,
                   wire, sending, outcomes, told>>
Serving == pc = "Serve" /\ (window = "Closed" => closed)

\* Nothing is left to wait for: lost() takes nothing and the window drained.
Drained ==
    /\ Serving /\ Wakes = {}
    /\ pc' = "Done" /\ told' = "Drained"
    /\ UNCHANGED <<now, window, end, at, bound, opened, schedule, closed, wire, sending, outcomes>>

\* A reply, possibly a duplicate, or the timer wakes the loop.
Receive(p) ==
    /\ Serving /\ Wakes # {} /\ wire[p] > 0
    /\ Reply(p) /\ pc' = "Flush" /\ wire' = [wire EXCEPT ![p] = @ - 1]
    /\ UNCHANGED <<now, window, end, at, bound, opened, cadence, next, sent, closed, sending, told>>
Timer ==
    /\ Serving /\ \E w \in Wakes : now >= w
    /\ pc' = "Flush"
    /\ UNCHANGED <<now, window, end, at, bound, opened, schedule, closed, wire, sending, outcomes, told>>

\* expire() and send() after either; the send is awaited.
Flush ==
    /\ pc = "Flush"
    /\ late' = LateAfter
    /\ \E deadline \in Deadlines :
        /\ due' = IF due # None /\ now >= due THEN NextDue(deadline) ELSE due
        /\ IF Sends
           THEN /\ pending' = [p \in DOMAIN Flying \cup {next} |->
                                 IF p = next THEN [sent |-> now, deadline |-> now + deadline]
                                             ELSE Flying[p]]
                /\ outcomes' = [p \in 0..next |-> IF p = next THEN 0 ELSE Resolve(Expired)[p]]
                /\ next' = next + 1 /\ sent' = now
                /\ sending' = [id |-> next, since |-> now] /\ pc' = "Sending"
           ELSE /\ pending' = Flying /\ outcomes' = Resolve(Expired) /\ pc' = "Serve"
                /\ UNCHANGED <<next, sent, sending>>
    /\ UNCHANGED <<now, window, end, at, bound, opened, cadence, answered, closed, wire, told>>

\* What follows a channel's end: lost() leaves its probes unresolved, then the
\* population drained, is redialled, or is down.
LostKeepsProbes == outcomes' = outcomes /\ pending' = <<>> /\ late' = <<>>
Lost == outcomes' = Resolve(InFlight) /\ pending' = <<>> /\ late' = <<>>
ChannelOver ==
    /\ Lost
    /\ IF window = "Closed" THEN pc' = "Done" /\ told' = "Drained" /\ UNCHANGED <<at, bound>>
       ELSE IF MayRedial
       THEN pc' = "Pause" /\ at' = RedialAt /\ bound' = RedialBound /\ UNCHANGED told
       ELSE pc' = "Done" /\ told' = "Down" /\ UNCHANGED <<at, bound>>
    /\ wire' = <<>>

\* Replies to a probe that went out may arrive from now on.
Carry(p) == [q \in DOMAIN wire \cup {p} |-> IF q = p THEN Copies ELSE wire[q]]

\* The send went out, or failed or timed out; without any reply yet that ends
\* the channel.  A send cut by its timeout may still go out.
Sent ==
    /\ pc = "Sending"
    /\ wire' = Carry(sending.id) /\ pc' = "Serve" /\ sending' = [id |-> None, since |-> 0]
    /\ UNCHANGED <<now, window, end, at, bound, opened, schedule, closed, outcomes, told>>
SendFailed ==
    /\ pc = "Sending" /\ answered
    /\ pending' = Without(pending, {sending.id}) /\ outcomes' = Resolve({sending.id} \cap InFlight)
    /\ wire' \in {wire, Carry(sending.id)}
    /\ pc' = "Serve" /\ sending' = [id |-> None, since |-> 0]
    /\ UNCHANGED <<now, window, end, at, bound, opened, cadence, late, next, sent, due, answered, closed,
                   told>>
SendEndsChannel ==
    /\ pc = "Sending" /\ ~answered
    /\ ChannelOver /\ sending' = [id |-> None, since |-> 0]
    /\ UNCHANGED <<now, window, end, opened, cadence, next, sent, due, answered, closed>>

\* The bus failed while the loop waited; a fault that is final is down at once.
BusFails ==
    /\ Serving /\ Wakes # {}
    /\ ChannelOver
    /\ UNCHANGED <<now, window, end, opened, cadence, next, sent, due, answered, closed, sending>>
BusRefuses ==
    /\ Serving /\ Wakes # {} /\ window # "Closed"
    /\ Lost /\ pc' = "Done" /\ told' = "Down" /\ wire' = <<>>
    /\ UNCHANGED <<now, window, end, at, bound, opened, cadence, next, sent, due, answered, closed, sending>>

----------------------------------------------------------------------------
(* The coordinator's window and the clock. *)

OpenWindow ==
    /\ window = "Waiting" /\ now <= MaxOpen
    /\ window' = "Open" /\ end' = now + Span
    /\ UNCHANGED <<now, pc, at, bound, opened, schedule, closed, wire, sending, outcomes, told>>
CloseWindow ==
    /\ window = "Open" /\ now >= end
    /\ window' = "Closed"
    /\ UNCHANGED <<now, pc, end, at, bound, opened, schedule, closed, wire, sending, outcomes, told>>

\* A dial and a send are cut at their bound, so neither outlasts it; the loop
\* sees a closed window as it sleeps, and wakes at most Lag late.
Tick ==
    /\ now < MaxTime
    /\ pc = "Pause" => now < bound
    /\ pc = "Sending" => now < sending.since + SendTimeout
    /\ pc = "Serve" => Serving /\ Wakes # {} /\ \A w \in Wakes : now < w + Lag
    /\ (window = "Waiting" => now < MaxOpen) /\ (window = "Open" => now < end)
    /\ pc # "Flush" /\ pc # "Done"
    /\ now' = now + 1
    /\ UNCHANGED <<pc, window, end, at, bound, opened, schedule, closed, wire, sending, outcomes, told>>

Loop ==
    \/ DialOpens \/ DialFails \/ SeesClosed \/ Drained \/ Timer \/ Flush
    \/ Sent \/ SendFailed \/ SendEndsChannel
Env == BusFails \/ BusRefuses \/ (\E p \in DOMAIN wire : Receive(p))
Over == pc = "Done" /\ UNCHANGED vars
Next == Loop \/ Env \/ OpenWindow \/ CloseWindow \/ Tick \/ Over

Spec == Init /\ [][Next]_vars

----------------------------------------------------------------------------
(* What the prober promises. *)

\* A probe resolves exactly once: it is in flight and unresolved, or resolved by
\* a reply, its deadline, a failed send or the channel's loss, whatever replies
\* come late or twice; and all did before the population ends.  At most the
\* window's number of probes is in flight, and on the reply-driven cadence one: its
\* backup timer fires when the deadline does, and a reply or a failed send resolves
\* the probe before the next goes.
ResolvesOnce ==
    /\ \A p \in 0..next - 1 : outcomes[p] = IF p \in InFlight THEN 0 ELSE 1
    /\ told # "" => InFlight = {}
    /\ Cardinality(InFlight) <= IF ReplyDriven THEN 1 ELSE Window

\* Once the loop saw the window closed no further probe goes out, although
\* replies still come in.
ClosedSendsNothing == closed => next' = next

\* A prober whose window closed says that it drained or went down before the
\* longest that a probe's deadline takes, or a redial begun before the window opened,
\* passed: a later redial is cut at the window's end.
DrainsInTime ==
    window = "Closed" /\ now > end + Max({Max(Deadlines) + Lag, RedialWindow - Span}) => told # ""

----------------------------------------------------------------------------
(* Proofs of ResolvesOnce and ClosedSendsNothing, for every window, schedule *)
(* and deadline.  The reply-driven probe in flight is the last one sent, and *)
(* the next is due no earlier than its deadline: by then it has timed out.   *)

Resolved == DOMAIN outcomes = 0..next - 1 /\ \A p \in 0..next - 1 : outcomes[p] = IF p \in InFlight THEN 0 ELSE 1

OneFlies ==
    /\ InFlight \subseteq {next - 1} /\ due \in Int
    /\ \A p \in InFlight : pending[p].deadline \in Int /\ (due # None => pending[p].deadline <= due)

FewFly == IF ReplyDriven THEN OneFlies ELSE Cardinality(InFlight) <= Window

ProbeInv ==
    /\ next \in Nat /\ now \in Nat /\ sent \in Nat
    /\ InFlight \subseteq 0..next - 1 /\ Resolved /\ FewFly
    /\ told # "" => pc = "Done"
    /\ pc \in {"Pause", "Done"} => InFlight = {}
    /\ closed => due = None

\* The probes in flight are finitely many.
LEMMA FinitelyMany == ASSUME next \in Nat, InFlight \subseteq 0..next - 1 PROVE IsFiniteSet(InFlight)
<1>1. IsFiniteSet(0..next - 1)
  BY FS_Interval, SMT
<1> QED BY <1>1, FS_Subset, Zenon

\* Before the first probe and after a lost channel none is in flight.
LEMMA NoneFly == DOMAIN <<>> = {}
OBVIOUS

\* The later of two times is a time: when the reply-driven prober sends next.
LEMMA LaterIsInt == ASSUME NEW a \in Int, NEW b \in Int PROVE Max({a, b}) \in Int
<1>1. \E m \in {a, b} : \A y \in {a, b} : m >= y
  BY SMT
<1> QED BY <1>1, SMT DEF Max

\* Probes that leave the flight and are counted once stay counted once: a reply,
\* a deadline, a failed send and a lost channel all resolve this way.
LEMMA LeaveResolved ==
    ASSUME ProbeInv, NEW S \in SUBSET InFlight, InFlight' = InFlight \ S, outcomes' = Resolve(S), next' = next
    PROVE Resolved'
<1>1. DOMAIN outcomes' = 0..next - 1
  BY Zenon DEF ProbeInv, Resolved, Resolve
<1>2. ASSUME NEW p \in 0..next - 1
      PROVE outcomes'[p] = IF p \in InFlight \ S THEN 0 ELSE 1
  <2>1. outcomes'[p] = IF p \in S THEN outcomes[p] + 1 ELSE outcomes[p]
    BY Zenon DEF ProbeInv, Resolved, Resolve
  <2>2. outcomes[p] = IF p \in InFlight THEN 0 ELSE 1
    BY Zenon DEF ProbeInv, Resolved
  <2>3. S \subseteq InFlight
    OBVIOUS
  <2> QED BY <2>1, <2>2, <2>3, SMT
<1> QED BY <1>1, <1>2, Zenon DEF Resolved

\* The bound on the probes in flight survives the departure of some.
LEMMA FewerFly ==
    ASSUME ProbeInv, InFlight' \subseteq InFlight, \A p \in InFlight' : pending'[p] = pending[p],
           next' = next, cadence' = cadence, ReplyDriven => due' \in {due, None}
    PROVE FewFly'
<1>1. CASE ReplyDriven
  <2>1. OneFlies
    BY <1>1, Zenon DEF ProbeInv, FewFly
  <2>2. due' \in Int /\ (due' # None => due' = due)
    BY <1>1, <2>1, SMT DEF OneFlies, None
  <2>3. OneFlies'
    BY <2>1, <2>2, Zenon DEF OneFlies, None
  <2> QED BY <1>1, <2>3, Zenon DEF FewFly, ReplyDriven
<1>2. CASE ~ReplyDriven
  <2>1. IsFiniteSet(InFlight)
    BY FinitelyMany, Zenon DEF ProbeInv
  <2>2. Cardinality(InFlight') <= Cardinality(InFlight) /\ IsFiniteSet(InFlight')
    BY <2>1, FS_Subset, Zenon
  <2>3. Cardinality(InFlight') \in Nat /\ Cardinality(InFlight) \in Nat
    BY <2>1, <2>2, FS_CardinalityType, Zenon
  <2>4. Cardinality(InFlight) <= Window
    BY <1>2, Zenon DEF ProbeInv, FewFly
  <2>5. Cardinality(InFlight') <= Window
    BY <2>2, <2>3, <2>4, ProberAssumption, SMT
  <2> QED BY <1>2, <2>5, Zenon DEF FewFly, ReplyDriven
<1> QED BY <1>1, <1>2

\* The steps that send and resolve no probe: dialling, waking, a send that went
\* out, the window opening and closing, the clock.
LEMMA IdleKeeps ==
    ASSUME ProbeInv, UNCHANGED <<cadence, pending, next, sent, outcomes>>, due' \in {due, None},
           closed' => due' = None, now' \in Nat,
           told' # "" => pc' = "Done", pc' \in {"Pause", "Done"} => InFlight = {}
    PROVE ProbeInv'
<1>1. InFlight' = InFlight
  BY Zenon DEF InFlight
<1>2. FewFly'
  BY <1>1, FewerFly, Zenon
<1>3. Resolved'
  BY <1>1, Zenon DEF ProbeInv, Resolved
<1> QED BY <1>1, <1>2, <1>3, Zenon DEF ProbeInv

\* The steps that resolve probes and send none: a failed send, a lost channel.
LEMMA LeaveKeeps ==
    ASSUME ProbeInv, NEW S \in SUBSET InFlight, InFlight' = InFlight \ S, outcomes' = Resolve(S),
           \A p \in InFlight' : pending'[p] = pending[p],
           UNCHANGED <<now, cadence, next, sent, due, closed>>,
           told' # "" => pc' = "Done", pc' \in {"Pause", "Done"} => InFlight' = {}
    PROVE ProbeInv'
<1>1. Resolved'
  BY LeaveResolved, Zenon
<1>2. FewFly'
  BY FewerFly, Zenon
<1>3. InFlight' \subseteq 0..next' - 1
  BY Zenon DEF ProbeInv
<1> QED BY <1>1, <1>2, <1>3, Zenon DEF ProbeInv

\* A reply resolves the probe in flight, once; a late or a second one resolves none.
LEMMA ReceiveKeeps == ASSUME ProbeInv, NEW p \in DOMAIN wire, Receive(p) PROVE ProbeInv'
<1>1. told = "" /\ told' = "" /\ pc' = "Flush" /\ UNCHANGED <<now, cadence, next, sent, closed>>
  BY Zenon DEF ProbeInv, Receive, Serving
<1>2. CASE p \in DOMAIN late \/ p \notin InFlight
  <2>1. UNCHANGED <<cadence, pending, next, sent, outcomes>> /\ due' = due
    BY <1>1, <1>2, Zenon DEF Receive, Reply
  <2>2. now' \in Nat /\ (closed' => due' = None)
    BY <1>1, <2>1, Zenon DEF ProbeInv
  <2>3. told' # "" => pc' = "Done"
    BY <1>1, Zenon
  <2>4. pc' \notin {"Pause", "Done"}
    BY <1>1, Zenon
  <2> QED BY <2>1, <2>2, <2>3, <2>4, IdleKeeps, Zenon
<1>3. CASE p \notin DOMAIN late /\ p \in InFlight
  <2>1. /\ pending' = Without(pending, {p}) /\ outcomes' = Resolve({p})
        /\ due' = IF ReplyDriven /\ due # None THEN Max({now, sent + 1}) ELSE due
    BY <1>3, Zenon DEF Receive, Reply
  <2>2. InFlight' = InFlight \ {p} /\ \A q \in InFlight' : pending'[q] = pending[q]
    BY <2>1, Zenon DEF InFlight, Without
  <2>3. CASE ~(ReplyDriven /\ due # None)
    <3>1. UNCHANGED <<now, cadence, next, sent, due, closed>>
      BY <1>1, <2>1, <2>3, Zenon
    <3>2. (told' # "" => pc' = "Done") /\ pc' \notin {"Pause", "Done"}
      BY <1>1, Zenon
    <3>3. {p} \in SUBSET InFlight
      BY <1>3, Zenon
    <3> QED BY <2>1, <2>2, <3>1, <3>2, <3>3, LeaveKeeps, Zenon
  <2>4. CASE ReplyDriven /\ due # None
    <3>1. Resolved'
      BY <1>1, <1>3, <2>1, <2>2, LeaveResolved, Zenon
    <3>2. now \in Nat /\ sent \in Nat
      BY Zenon DEF ProbeInv
    <3>3. due' \in Int
      <4>1. sent + 1 \in Int /\ now \in Int
        BY <3>2, SMT
      <4> QED BY <2>1, <2>4, <4>1, LaterIsInt, Zenon
    <3>4. InFlight' = {}
      BY <1>3, <2>2, <2>4, Zenon DEF ProbeInv, FewFly, OneFlies
    <3>5. FewFly'
      BY <1>1, <2>4, <3>3, <3>4, Zenon DEF FewFly, OneFlies, ReplyDriven
    <3>6. ~closed
      BY <2>4, Zenon DEF ProbeInv
    <3> QED BY <1>1, <3>1, <3>4, <3>5, <3>6, Zenon DEF ProbeInv
  <2> QED BY <2>3, <2>4
<1> QED BY <1>2, <1>3, Zenon

\* A lost channel resolves all the probes in flight.
LEMMA LostKeeps ==
    ASSUME ProbeInv, Lost, UNCHANGED <<now, cadence, next, sent, due, closed>>, told' # "" => pc' = "Done"
    PROVE ProbeInv'
<1>1. pending' = <<>> /\ outcomes' = Resolve(InFlight)
  BY Zenon DEF Lost
<1>2. DOMAIN pending' = {}
  BY <1>1, NoneFly, Zenon
<1>3. InFlight' = InFlight \ InFlight /\ InFlight' = {}
  BY <1>2, Zenon DEF InFlight
<1> QED BY <1>1, <1>3, LeaveKeeps, Zenon

\* On the reply-driven cadence the probe in flight has timed out when the next is due.
LEMMA DueMeansExpired == ASSUME ProbeInv, ReplyDriven, due # None, now >= due PROVE DOMAIN Flying = {}
<1>1. ASSUME NEW p \in InFlight PROVE now >= pending[p].deadline
  <2>1. due \in Int /\ pending[p].deadline \in Int /\ pending[p].deadline <= due
    BY Zenon DEF ProbeInv, FewFly, OneFlies
  <2>2. now \in Nat
    BY Zenon DEF ProbeInv
  <2> QED BY <2>1, <2>2, SMT
<1>2. Expired = InFlight
  BY <1>1, Zenon DEF Expired
<1> QED BY <1>2, Zenon DEF Flying, Without, InFlight

\* Expiring and sending keep the invariant.
LEMMA FlushKeeps == ASSUME ProbeInv, Flush PROVE ProbeInv'
<1>1. PICK deadline \in Deadlines :
        /\ due' = IF due # None /\ now >= due THEN NextDue(deadline) ELSE due
        /\ IF Sends
           THEN /\ pending' = [p \in DOMAIN Flying \cup {next} |->
                                 IF p = next THEN [sent |-> now, deadline |-> now + deadline]
                                             ELSE Flying[p]]
                /\ outcomes' = [p \in 0..next |-> IF p = next THEN 0 ELSE Resolve(Expired)[p]]
                /\ next' = next + 1 /\ sent' = now /\ pc' = "Sending"
           ELSE /\ pending' = Flying /\ outcomes' = Resolve(Expired) /\ pc' = "Serve"
                /\ UNCHANGED <<next, sent>>
  BY Zenon DEF Flush
<1>2. told' = "" /\ UNCHANGED <<now, cadence, closed>>
  BY Zenon DEF Flush, ProbeInv
<1>3. pc' \notin {"Pause", "Done"}
  BY <1>1, Zenon
<1>4. Expired \in SUBSET InFlight /\ DOMAIN Flying = InFlight \ Expired
  BY Zenon DEF Expired, Flying, Without, InFlight
<1>5. \A p \in DOMAIN Flying : Flying[p] = pending[p]
  BY Zenon DEF Flying, Without
<1>6. deadline \in Nat /\ next \in Nat /\ now \in Nat /\ sent \in Nat /\ Window \in Nat
  BY ProberAssumption, Zenon DEF ProbeInv
<1>7. closed' => due' = None
  BY <1>1, <1>2, Zenon DEF ProbeInv
<1>8. next \notin InFlight /\ InFlight \subseteq 0..next - 1
  <2>1. next \notin 0..next - 1
    BY <1>6, SMT
  <2> QED BY <2>1, Zenon DEF ProbeInv
<1>9. CASE ~Sends
  <2>1. InFlight' = InFlight \ Expired /\ pending' = Flying
    BY <1>1, <1>4, <1>9, Zenon DEF InFlight
  <2>2. UNCHANGED <<next, sent>> /\ outcomes' = Resolve(Expired)
    BY <1>1, <1>9, Zenon
  <2>3. Resolved'
    BY <1>4, <2>1, <2>2, LeaveResolved, Zenon
  <2>4. FewFly'
    <3>1. CASE due' = due \/ ~ReplyDriven
      BY <1>2, <1>4, <1>5, <2>1, <2>2, <3>1, FewerFly, Zenon
    <3>2. CASE due' # due /\ ReplyDriven
      <4>1. due # None /\ now >= due /\ due' = now + deadline
        BY <1>1, <3>2, Zenon DEF NextDue
      <4>2. InFlight' = {}
        BY <1>4, <2>1, <3>2, <4>1, DueMeansExpired, Zenon
      <4>3. due' \in Int
        BY <1>6, <4>1, SMT
      <4> QED BY <1>2, <3>2, <4>2, <4>3, Zenon DEF FewFly, OneFlies, ReplyDriven
    <3> QED BY <3>1, <3>2, Zenon
  <2> QED BY <1>2, <1>3, <1>6, <1>7, <1>8, <2>1, <2>2, <2>3, <2>4, Zenon DEF ProbeInv
<1>10. CASE Sends
  <2>1. /\ pending' = [p \in DOMAIN Flying \cup {next} |->
                         IF p = next THEN [sent |-> now, deadline |-> now + deadline] ELSE Flying[p]]
        /\ outcomes' = [p \in 0..next |-> IF p = next THEN 0 ELSE Resolve(Expired)[p]]
        /\ next' = next + 1 /\ sent' = now
    BY <1>1, <1>10, Zenon
  <2>2. InFlight' = (InFlight \ Expired) \cup {next}
    BY <1>4, <2>1, Zenon DEF InFlight
  <2>3. next' \in Nat /\ next' - 1 = next /\ 0..next = (0..next - 1) \cup {next}
    BY <1>6, <2>1, SMT
  <2>4. InFlight' \subseteq 0..next' - 1
    BY <1>8, <2>2, <2>3, Zenon
  <2>5. Resolved'
    <3>1. DOMAIN outcomes' = 0..next' - 1
      BY <2>1, <2>3, Zenon
    <3>2. ASSUME NEW p \in 0..next PROVE outcomes'[p] = IF p \in InFlight' THEN 0 ELSE 1
      <4>1. CASE p = next
        BY <2>1, <2>2, <4>1, Zenon
      <4>2. CASE p # next
        <5>1. p \in 0..next - 1 /\ outcomes'[p] = Resolve(Expired)[p]
          BY <2>1, <2>3, <4>2, Zenon
        <5>2. Resolve(Expired)[p] = IF p \in Expired THEN outcomes[p] + 1 ELSE outcomes[p]
          BY <5>1, Zenon DEF ProbeInv, Resolved, Resolve
        <5>3. outcomes[p] = IF p \in InFlight THEN 0 ELSE 1
          BY <5>1, Zenon DEF ProbeInv, Resolved
        <5> QED BY <1>4, <2>2, <4>2, <5>1, <5>2, <5>3, SMT
      <4> QED BY <4>1, <4>2
    <3> QED BY <2>3, <3>1, <3>2, Zenon DEF Resolved
  <2>6. ASSUME ReplyDriven PROVE FewFly'
    <3>1. due # None /\ now >= due /\ due' = now + deadline
      BY <1>1, <1>10, <2>6, Zenon DEF NextDue, Sends
    <3>2. InFlight' = {next}
      BY <1>4, <2>2, <2>6, <3>1, DueMeansExpired, Zenon
    <3>3. pending'[next] = [sent |-> now, deadline |-> now + deadline]
      BY <2>1, Zenon
    <3>4. pending'[next].deadline = due' /\ due' \in Int
      BY <1>6, <3>1, <3>3, SMT
    <3>5. due' <= due'
      BY <3>4, SMT
    <3>6. OneFlies'
      BY <2>3, <3>2, <3>4, <3>5, Zenon DEF OneFlies
    <3> QED BY <1>2, <2>6, <3>6, Zenon DEF FewFly, ReplyDriven
  <2>7. ASSUME ~ReplyDriven PROVE FewFly'
    <3>1. IsFiniteSet(DOMAIN Flying) /\ Cardinality(DOMAIN Flying) < Window /\ next \notin DOMAIN Flying
      <4>1. IsFiniteSet(InFlight)
        BY FinitelyMany, Zenon DEF ProbeInv
      <4> QED BY <1>4, <1>8, <1>10, <4>1, FS_Subset, Zenon DEF Sends
    <3>2. Cardinality(InFlight') = Cardinality(DOMAIN Flying) + 1
      BY <1>4, <2>2, <3>1, FS_AddElement, Zenon
    <3>3. Cardinality(DOMAIN Flying) \in Nat
      BY <3>1, FS_CardinalityType, Zenon
    <3>4. Cardinality(InFlight') <= Window
      BY <1>6, <3>1, <3>2, <3>3, SMT
    <3> QED BY <1>2, <2>7, <3>4, Zenon DEF FewFly, ReplyDriven
  <2>8. FewFly'
    BY <2>6, <2>7, Zenon
  <2> QED BY <1>2, <1>3, <1>6, <1>7, <2>1, <2>3, <2>4, <2>5, <2>8, Zenon DEF ProbeInv
<1> QED BY <1>9, <1>10

\* Every step of the prober keeps the invariant.
LEMMA NextKeeps == ASSUME ProbeInv, Next PROVE ProbeInv'
<1> DEFINE Quiet == UNCHANGED <<cadence, pending, next, sent, outcomes>>
<1>1. ASSUME DialOpens \/ Timer \/ Sent \/ OpenWindow \/ CloseWindow PROVE ProbeInv'
  <2>1. Quiet /\ UNCHANGED <<now, due, closed, told>>
    BY <1>1, Zenon DEF DialOpens, Timer, Sent, OpenWindow, CloseWindow, schedule
  <2>2. (pc # "Done" /\ pc' \notin {"Pause", "Done"}) \/ pc' = pc
    BY <1>1, Zenon DEF DialOpens, Timer, Sent, OpenWindow, CloseWindow, Serving
  <2>3. told' # "" => pc' = "Done"
    BY <2>1, <2>2, Zenon DEF ProbeInv
  <2> QED BY <2>1, <2>2, <2>3, IdleKeeps, Zenon DEF ProbeInv
<1>2. ASSUME DialFails \/ Drained PROVE ProbeInv'
  <2>1. Quiet /\ UNCHANGED <<now, due, closed>> /\ pc' = "Done"
    BY <1>2, Zenon DEF DialFails, Drained, schedule
  <2>2. InFlight = {}
    BY <1>2, Zenon DEF DialFails, Drained, Wakes, ProbeInv
  <2> QED BY <2>1, <2>2, IdleKeeps, Zenon DEF ProbeInv
<1>3. ASSUME SeesClosed PROVE ProbeInv'
  <2>1. Quiet /\ UNCHANGED <<now, pc, told>> /\ due' = None
    BY <1>3, Zenon DEF SeesClosed
  <2> QED BY <2>1, IdleKeeps, Zenon DEF ProbeInv
<1>4. ASSUME Tick PROVE ProbeInv'
  <2>1. Quiet /\ UNCHANGED <<pc, due, closed, told>> /\ now' = now + 1
    BY <1>4, Zenon DEF Tick, schedule
  <2>2. now' \in Nat
    <3>1. now \in Nat
      BY Zenon DEF ProbeInv
    <3> QED BY <2>1, <3>1, SMT
  <2> QED BY <2>1, <2>2, IdleKeeps, Zenon DEF ProbeInv
<1>5. ASSUME SendFailed PROVE ProbeInv'
  <2>1. /\ pending' = Without(pending, {sending.id}) /\ outcomes' = Resolve({sending.id} \cap InFlight)
        /\ pc' = "Serve" /\ told' = "" /\ UNCHANGED <<now, cadence, next, sent, due, closed>>
    BY <1>5, Zenon DEF SendFailed, ProbeInv
  <2>2. /\ InFlight' = InFlight \ ({sending.id} \cap InFlight)
        /\ \A p \in InFlight' : pending'[p] = pending[p]
    BY <2>1, Zenon DEF Without, InFlight
  <2>3. {sending.id} \cap InFlight \in SUBSET InFlight /\ pc' \notin {"Pause", "Done"}
    BY <2>1, Zenon
  <2> QED BY <2>1, <2>2, <2>3, LeaveKeeps, Zenon
<1>6. ASSUME SendEndsChannel \/ BusFails \/ BusRefuses PROVE ProbeInv'
  <2>1. Lost /\ UNCHANGED <<now, cadence, next, sent, due, closed>>
    BY <1>6, Zenon DEF SendEndsChannel, BusFails, BusRefuses, ChannelOver
  <2>2. told = ""
    BY <1>6, Zenon DEF SendEndsChannel, BusFails, BusRefuses, Serving, ProbeInv
  <2>3. told' # "" => pc' = "Done"
    BY <1>6, <2>2, Zenon DEF SendEndsChannel, BusFails, BusRefuses, ChannelOver
  <2> QED BY <2>1, <2>3, LostKeeps, Zenon
<1>7. ASSUME Over PROVE ProbeInv'
  <2>1. Quiet /\ UNCHANGED <<now, pc, due, closed, told>>
    BY <1>7, Zenon DEF Over, vars, schedule
  <2> QED BY <2>1, IdleKeeps, Zenon DEF ProbeInv
<1> QED BY <1>1, <1>2, <1>3, <1>4, <1>5, <1>6, <1>7, FlushKeeps, ReceiveKeeps, Zenon DEF Next, Loop, Env

\* The prober starts with no probe in flight and none resolved.
LEMMA InitProbes == Init => ProbeInv
<1> SUFFICES ASSUME Init PROVE ProbeInv
  OBVIOUS
<1>0. next = 0 /\ now = 0 /\ sent = 0 /\ due = 0
  BY Zenon DEF Init
<1>1. told = "" /\ closed = FALSE /\ outcomes = <<>> /\ pending = <<>>
  BY Zenon DEF Init
<1>2. InFlight = {} /\ DOMAIN outcomes = {}
  BY <1>1, NoneFly, Zenon DEF InFlight
<1>3. 0..next - 1 = {} /\ next \in Nat /\ now \in Nat /\ sent \in Nat /\ due \in Int
  BY <1>0, SMT
<1>4. Resolved
  BY <1>2, <1>3, Zenon DEF Resolved
<1>5. Cardinality(InFlight) <= Window
  <2>1. Cardinality(InFlight) = 0
    BY <1>2, FS_EmptySet, Zenon
  <2> QED BY <2>1, ProberAssumption, SMT
<1>6. FewFly
  BY <1>2, <1>3, <1>5, Zenon DEF FewFly, OneFlies
<1> QED BY <1>1, <1>2, <1>3, <1>4, <1>6, Zenon DEF ProbeInv

\* The invariant holds in every reachable state.
LEMMA ProbesInvariant == Spec => []ProbeInv
<1>1. ProbeInv /\ [Next]_vars => ProbeInv'
  <2>1. ASSUME ProbeInv, UNCHANGED vars PROVE ProbeInv'
    <3>1. /\ UNCHANGED <<cadence, pending, next, sent, outcomes>>
          /\ UNCHANGED <<now, pc, due, closed, told>>
      BY <2>1, Zenon DEF vars, schedule
    <3> QED BY <2>1, <3>1, IdleKeeps, Zenon DEF ProbeInv
  <2> QED BY <2>1, NextKeeps, Zenon
<1> QED BY <1>1, InitProbes, PTL DEF Spec

\* Every probe resolves exactly once and at most the window's number of them, or
\* one on the reply-driven cadence, is ever in flight, whatever the window, the
\* cadence, the deadlines learnt and the replies lost, late or doubled: reply(),
\* expire(), send() and lost() of the schedule.
THEOREM ProbesResolveOnce == Spec => []ResolvesOnce
<1>1. ProbeInv => ResolvesOnce
  <2> SUFFICES ASSUME ProbeInv PROVE ResolvesOnce
    OBVIOUS
  <2>1. Cardinality(InFlight) <= IF ReplyDriven THEN 1 ELSE Window
    <3>1. CASE ReplyDriven
      <4>1. InFlight \subseteq {next - 1}
        BY <3>1, Zenon DEF ProbeInv, FewFly, OneFlies
      <4>2. IsFiniteSet({next - 1}) /\ Cardinality({next - 1}) = 1
        BY FS_Singleton, Zenon
      <4>3. Cardinality(InFlight) <= 1
        BY <4>1, <4>2, FS_Subset, Zenon
      <4> QED BY <3>1, <4>3, Zenon
    <3>2. CASE ~ReplyDriven
      BY <3>2, Zenon DEF ProbeInv, FewFly
    <3> QED BY <3>1, <3>2
  <2> QED BY <2>1, Zenon DEF ProbeInv, Resolved, ResolvesOnce
<1> QED BY <1>1, ProbesInvariant, PTL

\* A prober that saw its window closed sends no further probe: stop_sending()
\* clears the due time, and no reply, redial or lost channel sets it again.
THEOREM ClosedStaysQuiet == Spec => [][ClosedSendsNothing]_vars
<1>1. ProbeInv /\ [Next]_vars => [ClosedSendsNothing]_vars
  <2> SUFFICES ASSUME ProbeInv, Next, closed PROVE next' = next
    BY Zenon DEF ClosedSendsNothing
  <2>1. ~Sends
    BY Zenon DEF ProbeInv, Sends
  <2>2. Flush => next' = next
    BY <2>1, Zenon DEF Flush
  <2>3. (\E p \in DOMAIN wire : Receive(p)) => next' = next
    BY Zenon DEF Receive
  <2>4. DialOpens \/ DialFails \/ SeesClosed \/ Drained \/ Timer => next' = next
    BY Zenon DEF DialOpens, DialFails, SeesClosed, Drained, Timer, schedule
  <2>5. Sent \/ SendFailed \/ SendEndsChannel \/ BusFails \/ BusRefuses => next' = next
    BY Zenon DEF Sent, SendFailed, SendEndsChannel, BusFails, BusRefuses, schedule
  <2>6. OpenWindow \/ CloseWindow \/ Tick \/ Over => next' = next
    BY Zenon DEF OpenWindow, CloseWindow, Tick, Over, vars, schedule
  <2> QED BY <2>2, <2>3, <2>4, <2>5, <2>6, Zenon DEF Next, Loop, Env
<1> QED BY <1>1, ProbesInvariant, PTL DEF Spec
=============================================================================
