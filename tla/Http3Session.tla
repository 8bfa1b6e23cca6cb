---------------------------- MODULE Http3Session ----------------------------
(***************************************************************************)
(* The server's end of one HTTP/3 connection (rust/http3/src/driver.rs)    *)
(* with its WebTransport session (webtransport.rs): requests, GOAWAY and   *)
(* the drain, the registry that the application's tasks and the driver     *)
(* share, the CONNECT streams the driver runs to their end, and the lanes  *)
(* either side opens.  The driver is one task.  `pass` says that a pass of *)
(* its loop is due, by a wake or by what the last pass did; a pass also    *)
(* follows a timer it registered and what QUIC brings.  A timer holds the  *)
(* time it has left, Off when there is none.                               *)
(***************************************************************************)
EXTENDS Integers, FiniteSets, FiniteSetsExt

CONSTANTS
    Requests,       \* the numbers of the client's request streams, from 0
    Sessions,       \* the session IDs that lanes name
    Lanes, Own,     \* lanes of the peer, and lanes this side opens
    CloseWait, EarlyWait, Drain, ResetDeadline,
    MaxEarly, StreamQueue, MaxDeferred

VARIABLES
    quic,           \* "Up"; "Peer" closed it; "Quiet", closed for being quiet, or "Closed"
    driver,         \* [ended, goaway, next, drain, linger]
    pass,           \* a pass of the driver's loop is due
    requests,       \* per request stream [at, halves]
    connects,       \* per request stream its Connect
    registry,       \* [active, close, gone, shutdown, ended]
    handles,        \* the sessions whose Session the application holds
    lanes,          \* the peer's lanes [at, session, left]
    own,            \* this side's lanes [at, session, left]
    announced,      \* the ID of the last GOAWAY sent
    since           \* time since the shutdown was asked

vars == <<quic, driver, pass, requests, connects, registry, handles, lanes, own, announced, since>>

Off == -1
None == -1
Last == Max(Requests) + 1     \* above every request: varint::MAX - 3
Sooner(left) == IF left > 0 THEN left - 1 ELSE left

NoDriver == [ended |-> FALSE, goaway |-> Off, next |-> 0, drain |-> Off, linger |-> Off]
NoConnect == [at |-> "None", phase |-> "Opening", head |-> TRUE, end |-> "Open",
              deadline |-> Off, peerFin |-> FALSE, peerClosed |-> FALSE, here |-> FALSE, age |-> Off]
NoLane == [at |-> "None", session |-> None, left |-> Off]

Init ==
    /\ quic = "Up" /\ pass = TRUE /\ handles = {} /\ announced = Off /\ since = Off
    /\ driver = NoDriver
    /\ requests = [r \in Requests |-> [at |-> "None", halves |-> 0]]
    /\ connects = [r \in Requests |-> NoConnect]
    /\ registry = [active |-> None, close |-> "None", gone |-> None, shutdown |-> FALSE, ended |-> FALSE]
    /\ lanes = [l \in Lanes |-> NoLane]
    /\ own = [o \in Own |-> NoLane]

Live(rs) == \E r \in Requests : rs[r].halves > 0
IsEnded(phase) == phase \in {"Here", "Peer", "Error"}
Ended(r) == IsEnded(connects[r].phase)
Over(c) == [NoConnect EXCEPT !.at = "Done", !.phase = c.phase, !.here = c.here, !.age = IF c.here THEN 0 ELSE Off]
EndWith(c, how) == [c EXCEPT !.phase = IF IsEnded(@) THEN @ ELSE how]
At(ls, at) == {l \in DOMAIN ls : ls[l].at = at}

(***************************************************************************)
(* GOAWAY: a graceful one refuses the requests that follow, a retiring one *)
(* none.                                                                   *)
(***************************************************************************)
Goaway(d) == IF d.goaway = Off THEN [d EXCEPT !.goaway = d.next] ELSE d

RetireAgain ==
    /\ ~driver.ended /\ announced' = Last
    /\ UNCHANGED <<quic, driver, pass, requests, connects, registry, handles, lanes, own, since>>

Retire ==
    /\ ~driver.ended /\ announced' = IF driver.goaway = Off THEN Last ELSE announced
    /\ UNCHANGED <<quic, driver, pass, requests, connects, registry, handles, lanes, own, since>>

\* The owner shuts the connection down and drives it on.
Shutdown ==
    LET going == Goaway(driver)
        starts == driver.drain = Off
    IN /\ ~driver.ended /\ since = Off /\ since' = 0 /\ pass' = TRUE
       /\ announced' = IF going # driver THEN going.goaway ELSE announced
       /\ driver' = IF starts THEN [going EXCEPT !.drain = Drain] ELSE going
       /\ registry' = IF ~starts THEN registry
                      ELSE [registry EXCEPT !.shutdown = TRUE,
                                            !.close = IF registry.active # None /\ @ = "None" THEN "Shutdown" ELSE @]
       /\ UNCHANGED <<quic, requests, connects, handles, lanes, own>>

(***************************************************************************)
(* The end of the connection: every session ends with it, what the driver  *)
(* had yet to take included, and no session follows.  What only a running  *)
(* driver uses is forgotten.                                               *)
(***************************************************************************)
End(why) ==
    LET runs == At(connects, "Run") \union At(connects, "Handed")
    IN /\ quic' = why
       /\ driver' = [NoDriver EXCEPT !.ended = TRUE]
       /\ registry' = [registry EXCEPT !.active = None, !.close = "None", !.ended = TRUE]
       /\ connects' = [r \in Requests |-> IF r \in runs THEN Over(EndWith(connects[r], "Error"))
                                          ELSE connects[r]]
       /\ requests' = [r \in Requests |-> IF r \in runs THEN [at |-> "Over", halves |-> 0] ELSE requests[r]]
       /\ lanes' = [l \in Lanes |-> IF lanes[l].at = "Early" THEN [lanes[l] EXCEPT !.at = "Dropped", !.left = Off] ELSE lanes[l]]
       /\ own' = [o \in Own |-> IF own[o].at \in {"Handed", "Deferred"}
                                THEN [own[o] EXCEPT !.at = "Bare", !.left = Off] ELSE own[o]]
       /\ pass' = FALSE /\ announced' = Off /\ since' = Off
       /\ UNCHANGED handles

\* The driver sees that the connection is lost, or closes it on a violation.
Lost == ~driver.ended /\ quic = "Peer" /\ End("Closed")
Violation == ~driver.ended /\ quic = "Up" /\ End("Closed")
DropDriver == ~driver.ended /\ End("Closed")

\* close_at: going away, once nothing is live and the last CLOSE had its time.
Quiet == driver.goaway # Off /\ ~Live(requests) /\ driver.linger <= 0
CloseDue == driver.drain = 0 \/ Quiet

CloseDone ==
    /\ ~driver.ended /\ quic = "Up" /\ CloseDue
    /\ pass \/ driver.drain = 0 \/ driver.linger = 0
    /\ End(IF driver.drain = 0 THEN "Closed" ELSE "Quiet")

(***************************************************************************)
(* What QUIC brings.  The loop's top has passed, so no close is due.       *)
(***************************************************************************)
Runs == ~driver.ended /\ quic = "Up" /\ ~CloseDue /\ ~\E l \in Lanes : lanes[l].at = "Early" /\ lanes[l].left = 0

\* Accepts a request stream; fits: the budget holds its two halves.
Admit(r, fits) ==
    /\ Runs /\ r = driver.next
    /\ driver' = [driver EXCEPT !.next = r + 1]
    /\ requests' = [requests EXCEPT ![r] = IF fits /\ (driver.goaway = Off \/ r < driver.goaway)
                                           THEN [at |-> "Held", halves |-> 2] ELSE [at |-> "Rejected", halves |-> 0]]
    /\ pass' = TRUE
    /\ UNCHANGED <<quic, connects, registry, handles, lanes, own, announced, since>>

\* Registry::stream, with the lanes queued so far.
Routed(ls, l, s) ==
    LET queued == {k \in Lanes \ {l} : ls[k].at = "Queued" /\ ls[k].session = s}
        early == At(ls, "Early") \ {l}
    IN IF registry.active = s
       THEN IF s \notin handles THEN "Gone" ELSE IF Cardinality(queued) < StreamQueue THEN "Queued" ELSE "Refused"
       ELSE IF s <= registry.gone THEN "Gone"
       ELSE IF Cardinality(early) < MaxEarly THEN "Early" ELSE "Refused"

\* A peer's lane once its header is read; fits: the budget holds it.
Route(l, s, fits) ==
    /\ Runs /\ lanes[l].at = "None"
    /\ LET at == IF fits THEN Routed(lanes, l, s) ELSE "Refused"
       IN lanes' = [lanes EXCEPT ![l] = [at |-> at, session |-> s, left |-> IF at = "Early" THEN EarlyWait ELSE Off]]
    /\ pass' = TRUE
    /\ UNCHANGED <<quic, driver, requests, connects, registry, handles, own, announced, since>>

\* The loop's top gives up on lanes whose session never came.
Expire(l) ==
    /\ ~driver.ended /\ lanes[l].at = "Early" /\ lanes[l].left = 0
    /\ lanes' = [lanes EXCEPT ![l] = [@ EXCEPT !.at = "Refused", !.left = Off]]
    /\ UNCHANGED <<quic, driver, pass, requests, connects, registry, handles, own, announced, since>>

PeerCloses ==
    /\ quic = "Up" /\ quic' = "Peer"
    /\ UNCHANGED <<driver, pass, requests, connects, registry, handles, lanes, own, announced, since>>

(***************************************************************************)
(* Sessions::poll: every CONNECT stream and deferred reset, the handed     *)
(* ones taken first.  A poll of a Connect reads what its peer sent, `i`,   *)
(* and writes as QUIC lets it, `w`.                                        *)
(***************************************************************************)
Reads == {"Close", "Fin", "Bad"}
Writes == {"Ready", "Stopped"}

\* poll_read; after its CLOSE only the peer's FIN may follow.
Fails(c, i) == ~c.peerFin /\ (i = "Bad" \/ (i = "Close" /\ c.peerClosed))

Read(c, i) ==
    IF c.peerFin \/ i = "None" THEN c
    ELSE [EndWith(c, "Peer") EXCEPT !.peerFin = (i = "Fin"), !.peerClosed = @ \/ i = "Close"]

Failed(c) == Over(EndWith(c, "Error"))

\* poll_finish writes what is queued, then FIN; a stopped stream is cut.
Finish(c, w) ==
    LET finished == c.end # "Open" \/ w # "Blocked"
        wrote == IF c.end # "Open" \/ w = "Blocked" THEN c
                 ELSE IF w = "Stopped" THEN [c EXCEPT !.end = "Cut"]
                 ELSE [c EXCEPT !.end = "Finished", !.head = FALSE]
    IN IF (finished /\ c.peerFin) \/ c.deadline = 0 THEN Over(wrote) ELSE wrote

\* close: started by the session's end or by this side's request.
Close(r, c, w) ==
    LET asked == registry.active = r /\ registry.close # "None"
        closed == IF IsEnded(c.phase) THEN c
                  ELSE [EndWith(c, "Here") EXCEPT !.here = TRUE]
    IN IF IsEnded(c.phase) \/ asked THEN Finish([closed EXCEPT !.deadline = CloseWait], w) ELSE c

Polled(r, i, w) ==
    LET c == [connects[r] EXCEPT !.at = "Run"]
        read == Read(c, i)
        opened == [read EXCEPT !.head = FALSE, !.phase = IF @ = "Opening" THEN "Open" ELSE @]
    IN IF Fails(c, i) THEN Failed(c)
       ELSE IF read.deadline # Off THEN Finish(read, w)
       ELSE IF ~read.head THEN Close(r, opened, w)
       ELSE IF w = "Stopped" THEN Failed(read)
       ELSE Close(r, IF w = "Ready" THEN opened ELSE read, w)

\* Sessions::defer and PendingReset::poll of a cancelled lane, whose header
\* is written as far as `w` says; `taken` are the resets kept.
Reset(o, w, kept) ==
    IF o \notin kept \/ own[o].left = 0 THEN "Bare"
    ELSE IF w = "Blocked" THEN "Deferred" ELSE IF w = "Ready" THEN "Cancelled" ELSE "Stopped"

Running == {r \in Requests : connects[r].at \in {"Handed", "Run"}}
Pending == {o \in Own : own[o].at \in {"Handed", "Deferred"}}
Writing(c) == c.end = "Open" /\ (c.head \/ c.deadline # Off)

\* What QUIC brings one Connect or one deferred reset at a time, or nothing.
Arrives ==
    {[of |-> {}, i |-> "None", w |-> "Blocked"]}
    \union {[of |-> {r}, i |-> i, w |-> "Blocked"] : r \in {q \in Running : ~connects[q].peerFin}, i \in Reads}
    \union {[of |-> {x}, i |-> "None", w |-> w] : x \in Pending \union {q \in Running : Writing(connects[q])}, w \in Writes}

\* What a pass finds to do: a wake, a timer, or what QUIC read or can write.
Stirred(e) ==
    \/ pass \/ e.of # {}
    \/ \E r \in Running : connects[r].deadline = 0
    \/ \E o \in Pending : own[o].left = 0

\* kept: the resets the bound and the budget let the driver keep.
PollSessions(e, kept) ==
    LET Reading(r) == IF r \in e.of THEN e.i ELSE "None"
        Written(x) == IF x \in e.of THEN e.w ELSE "Blocked"
        polled == [r \in Running |-> Polled(r, Reading(r), Written(r))]
        done == {r \in Running : polled[r].at = "Done"}
        off == {r \in Running : polled[r].at = "Done" \/ polled[r].deadline # Off}
        reset == [o \in Pending |-> Reset(o, Written(o), kept)]
    IN /\ Runs /\ Stirred(e)
       /\ connects' = [r \in Requests |-> IF r \in Running THEN polled[r] ELSE connects[r]]
       /\ requests' = [r \in Requests |-> IF r \in done THEN [at |-> "Over", halves |-> 0] ELSE requests[r]]
       /\ registry' = [registry EXCEPT !.gone = Max({@} \union off),
                                       !.active = IF @ \in off THEN None ELSE @,
                                       !.close = IF registry.active \in off THEN "None" ELSE @]
       /\ driver' = [driver EXCEPT !.linger = IF \E r \in done : polled[r].here THEN CloseWait ELSE @]
       /\ own' = [o \in Own |-> IF o \in Pending
                                THEN [own[o] EXCEPT !.at = reset[o], !.left = IF reset[o] = "Deferred" THEN @ ELSE Off]
                                ELSE own[o]]
       /\ pass' = (done # {} \/ \E o \in Pending : reset[o] # "Deferred")
       /\ UNCHANGED <<quic, handles, lanes, announced, since>>

(***************************************************************************)
(* The application's tasks.  Dropping the last half of a request wakes the *)
(* driver, as does all it leaves in the registry.                          *)
(***************************************************************************)
Released(r, n) == [requests EXCEPT ![r] = [at |-> IF @.halves = n THEN "Over" ELSE @.at, halves |-> @.halves - n]]

\* A request is answered, or refused, and its halves dropped one by one.
DropHalf(r) ==
    /\ requests[r].at = "Held" /\ requests' = Released(r, 1)
    /\ pass' = (~driver.ended /\ (pass \/ ~Live(requests')))
    /\ UNCHANGED <<quic, driver, connects, registry, handles, lanes, own, announced, since>>

\* A connection has one session at a time, and none once it ended.
VacantUnended == registry.active = None
Vacant == registry.active = None /\ ~registry.ended

\* Session::accept of an untouched CONNECT; fits: the budget holds a session.
RefuseConnect(r, fits) ==
    /\ requests[r].at = "Held" /\ requests[r].halves = 2
    /\ ~(fits /\ Vacant)
    /\ requests' = Released(r, 2)
    /\ pass' = (~driver.ended /\ (pass \/ ~Live(requests')))
    /\ UNCHANGED <<quic, driver, connects, registry, handles, lanes, own, announced, since>>

Register(r) ==
    /\ connects' = [connects EXCEPT ![r] = [NoConnect EXCEPT !.at = "Handed"]]
    /\ requests' = [requests EXCEPT ![r] = [at |-> "Connect", halves |-> 2]]
    /\ registry' = [registry EXCEPT !.active = r, !.close = IF registry.shutdown THEN "Shutdown" ELSE "None"]
    /\ handles' = handles \union {r}

Accept(r) ==
    /\ requests[r].at = "Held" /\ requests[r].halves = 2 /\ Vacant
    /\ Register(r)
    /\ LET mine == {l \in Lanes : lanes[l].at = "Early" /\ lanes[l].session = r}
       IN \E queued \in SUBSET mine :
            /\ Cardinality(queued) = Min({Cardinality(mine), StreamQueue})
            /\ lanes' = [l \in Lanes |-> IF l \notin mine THEN lanes[l]
                                         ELSE [lanes[l] EXCEPT !.at = IF l \in queued THEN "Queued" ELSE "Refused", !.left = Off]]
    /\ pass' = TRUE
    /\ UNCHANGED <<quic, driver, own, announced, since>>

\* request_close of the application; the first close stands.
AskedClose(r) == IF registry.active = r /\ registry.close = "None" THEN [registry EXCEPT !.close = "App"] ELSE registry

RequestClose(r) ==
    /\ r \in handles
    /\ registry' = AskedClose(r) /\ pass' = ~driver.ended
    /\ UNCHANGED <<quic, driver, requests, connects, handles, lanes, own, announced, since>>

\* Dropping a session also stops the lanes the application never took.
DropSession(r) ==
    /\ r \in handles /\ handles' = handles \ {r}
    /\ registry' = AskedClose(r) /\ pass' = ~driver.ended
    /\ lanes' = [l \in Lanes |-> IF lanes[l].at = "Queued" /\ lanes[l].session = r
                                 THEN [lanes[l] EXCEPT !.at = "Gone"] ELSE lanes[l]]
    /\ UNCHANGED <<quic, driver, requests, connects, own, announced, since>>

TakeLane(l) ==
    /\ lanes[l].at = "Queued"
    /\ lanes' = [lanes EXCEPT ![l].at = "Taken"]
    /\ UNCHANGED <<quic, driver, pass, requests, connects, registry, handles, own, announced, since>>

\* A taken lane is read to its end, dropped unread, or ends with its session.
EndLane(l) ==
    /\ lanes[l].at = "Taken"
    /\ \E at \in IF Ended(lanes[l].session) THEN {"Gone"} ELSE {"Read", "Stopped"} :
         lanes' = [lanes EXCEPT ![l].at = at]
    /\ UNCHANGED <<quic, driver, pass, requests, connects, registry, handles, own, announced, since>>

\* open_uni waits for the 200 head, and is refused once the session ended.
OpenLane(o, r) ==
    /\ own[o].at = "None" /\ r \in handles /\ connects[r].phase = "Open" /\ quic = "Up"
    /\ own' = [own EXCEPT ![o] = [at |-> "Opening", session |-> r, left |-> Off]]
    /\ UNCHANGED <<quic, driver, pass, requests, connects, registry, handles, lanes, announced, since>>

WriteHeader(o) ==
    /\ own[o].at = "Opening" /\ ~Ended(own[o].session) /\ quic = "Up"
    /\ own' = [own EXCEPT ![o].at = "Open"]
    /\ UNCHANGED <<quic, driver, pass, requests, connects, registry, handles, lanes, announced, since>>

FinishLane(o) ==
    /\ own[o].at = "Open" /\ ~Ended(own[o].session)
    /\ own' = [own EXCEPT ![o].at = "Finished"]
    /\ UNCHANGED <<quic, driver, pass, requests, connects, registry, handles, lanes, announced, since>>

\* Dropped unfinished, a lane resets past its header: at once when it is
\* written, else by the driver, which the registry hands it to.
DropLane(o) ==
    /\ own[o].at \in {"Opening", "Open"}
    /\ own' = [own EXCEPT ![o] = IF own[o].at = "Open" THEN [@ EXCEPT !.at = "Cancelled"]
                                 ELSE IF registry.ended THEN [@ EXCEPT !.at = "Bare"]
                                 ELSE [@ EXCEPT !.at = "Handed", !.left = ResetDeadline]]
    /\ pass' = (pass \/ (own[o].at = "Opening" /\ ~driver.ended))
    /\ UNCHANGED <<quic, driver, requests, connects, registry, handles, lanes, announced, since>>

(***************************************************************************)
(* Time passes while the driver waits: no pass and no timer is due.        *)
(***************************************************************************)
TimerDue ==
    \/ driver.drain = 0 \/ (Quiet /\ driver.linger = 0)
    \/ \E l \in Lanes : lanes[l].left = 0
    \/ \E r \in Running : connects[r].deadline = 0
    \/ \E o \in Pending : own[o].left = 0

Older(age, most) == IF age = Off \/ age >= most THEN age ELSE age + 1

Tick ==
    /\ driver.ended \/ (~pass /\ ~TimerDue /\ quic = "Up")
    /\ driver' = [driver EXCEPT !.drain = Sooner(@), !.linger = Sooner(@)]
    /\ lanes' = [l \in Lanes |-> [lanes[l] EXCEPT !.left = Sooner(@)]]
    /\ own' = [o \in Own |-> [own[o] EXCEPT !.left = Sooner(@)]]
    /\ connects' = [r \in Requests |-> [connects[r] EXCEPT !.deadline = Sooner(@), !.age = IF quic = "Up" THEN Older(@, CloseWait) ELSE @]]
    /\ since' = Older(since, Drain + 1)
    /\ UNCHANGED <<quic, pass, requests, registry, handles, announced>>

Next ==
    \/ Retire \/ Shutdown \/ Lost \/ Violation \/ DropDriver \/ CloseDone \/ PeerCloses \/ Tick
    \/ \E r \in Requests :
         \/ \E fits \in BOOLEAN : Admit(r, fits) \/ RefuseConnect(r, fits)
         \/ DropHalf(r) \/ Accept(r) \/ RequestClose(r) \/ DropSession(r)
         \/ \E o \in Own : OpenLane(o, r)
    \/ \E l \in Lanes :
         \/ \E s \in Sessions, fits \in BOOLEAN : Route(l, s, fits)
         \/ Expire(l) \/ TakeLane(l) \/ EndLane(l)
    \/ \E o \in Own : WriteHeader(o) \/ FinishLane(o) \/ DropLane(o)
    \/ \E e \in Arrives, kept \in SUBSET Pending : Cardinality(kept) <= MaxDeferred /\ PollSessions(e, kept)

Spec == Init /\ [][Next]_vars

(***************************************************************************)
(* Properties.                                                             *)
(***************************************************************************)
\* Once the driver ended no session, reset or lane waits for it: every
\* session the application holds is told of its end, whenever it was
\* registered, every cancelled lane is reset, and no lane waits for a session.
NothingOutlives ==
    driver.ended =>
        /\ Running = {} /\ Pending = {} /\ At(lanes, "Early") = {}
        /\ \A r \in handles : Ended(r)

\* A connection that closes because it is quiet has given the CLOSE of every
\* session this side ended its time to arrive; only the drain cuts it short.
CloseHeard == quic = "Quiet" => \A r \in Requests : connects[r].here => connects[r].age >= CloseWait

\* What the application leaves to the driver never waits unseen: a close asked
\* for, a session or a reset handed over, and a connection going away whose
\* last half was dropped each have a pass of the loop due.
NeverUnwoken ==
    ~driver.ended /\ quic = "Up" =>
        /\ registry.active # None /\ registry.close # "None" => pass
        /\ At(connects, "Handed") # {} \/ At(own, "Handed") # {} => pass
        /\ Quiet => pass \/ driver.linger = 0

\* A connection that is shut down ends within the drain, whatever the peer and
\* the application leave unfinished.
DrainBounds == since > Drain => driver.ended

\* A lane waits as early only for a session that is not there, and one in a
\* session's queue has an application to take it.
LanesRouted ==
    \A l \in Lanes :
        /\ lanes[l].at = "Early" => lanes[l].session # registry.active
        /\ lanes[l].at = "Queued" => lanes[l].session \in handles

\* The GOAWAY IDs this side sends only fall, no request at or past the one
\* that refuses is served, and how a session ended never changes.
EndingsStand ==
    /\ announced # Off => announced' <= announced
    /\ \A r \in Requests : driver'.goaway # Off /\ requests'[r].halves > 0 => r < driver'.goaway
    /\ \A r \in Requests : Ended(r) => connects'[r].phase = connects[r].phase
==============================================================================
