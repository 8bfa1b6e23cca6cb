-------------------------- MODULE ClientConnections --------------------------
(***************************************************************************)
(* The terminal client's control connections to one origin over one        *)
(* protocol (Connections and Slot of rust/client/src/net/mod.rs, Conn of   *)
(* net/conn.rs): a multiplexed connection that requests share, or idle     *)
(* HTTP/1.1 ones that a request takes for itself.                          *)
(*                                                                         *)
(* A connection's name is its serial: it is named anew once nothing holds  *)
(* it.  hyper and the QUIC stack are seen through what they answer: a      *)
(* request queued on a connection leaves it or comes back unsent, and one  *)
(* that left is answered, reset, or lost with its connection.              *)
(***************************************************************************)
EXTENDS Integers, FiniteSets

CONSTANTS
    Requests,   \* requests of the client, also those cancelled by their caller
    Conns,      \* connections that exist at once
    Idle,       \* idle HTTP/1.1 connections kept
    Deadline    \* a request's time, its second attempt included

VARIABLES
    via,        \* the slot's protocol
    conns,      \* each connection's [form, state]
    shared,     \* the slot's multiplexed connection, or None
    idle,       \* its idle connections
    dialing,    \* who holds its dialing lock: a request, the proof, or None
    exclusive,  \* a negotiated dial found HTTP/1.1
    proof,      \* the task that replaces a connection: [pc, serial, conn, left]
    requests    \* each [pc, idempotent, reuse, conn, serial, reused, left, age, delivered]

vars == <<via, conns, shared, idle, dialing, exclusive, proof, requests>>

None == "None"
Unused == [form |-> None, state |-> "Closed"]
Unasked == [pc |-> "Unasked", idempotent |-> FALSE, reuse |-> TRUE, conn |-> None, serial |-> None,
            reused |-> FALSE, left |-> 0, age |-> 0, delivered |-> 0]
NoProof == [pc |-> "None", serial |-> None, conn |-> None, left |-> 0]

Init ==
    /\ via \in {"Http1", "Http2", "Http3", "Negotiated"}
    /\ conns = [c \in Conns |-> Unused]
    /\ shared = None /\ idle = {} /\ dialing = None /\ exclusive = FALSE
    /\ proof = NoProof
    /\ requests = [r \in Requests |-> Unasked]

(***************************************************************************)
(* Connections.  GOAWAY lets the requests that left go on.                 *)
(***************************************************************************)
Held == {shared, proof.serial, proof.conn} \union idle
            \union {requests[r].conn : r \in Requests} \union {requests[r].serial : r \in Requests}
Free == {c \in Conns : c \notin Held}

\* Conn::dial: HTTP/2 where asked or agreed; a server without it fails the
\* path that insists on it, and a negotiated one falls back.
Dialed == CASE via = "Http1" -> {"One"}
            [] via \in {"Http2", "Http3"} -> {"Many"}
            [] via = "Negotiated" -> {"One", "Many"}

Share(c) == conns[c].form = "Many"

\* hyper's HTTP/2 sender takes requests after a GOAWAY, and hands them back.
Usable(c) == conns[c].state = "Open" \/ (conns[c].state = "GoingAway" /\ via # "Http3")

Close(c, state) ==
    /\ conns[c].state \in (IF state = "GoingAway" THEN {"Open"} ELSE {"Open", "GoingAway"})
    /\ state = "GoingAway" => Share(c)
    /\ conns' = [conns EXCEPT ![c].state = state]
    /\ UNCHANGED <<via, shared, idle, dialing, exclusive, proof, requests>>

(***************************************************************************)
(* take: what is there, else a dial; the lock is held across a dial that   *)
(* may bring the multiplexed connection.                                   *)
(***************************************************************************)
Multiplexed == via # "Http1"

\* An HTTP/1.1 connection may not be ready yet after its body ended.
Reusable == IF shared # None /\ Usable(shared) THEN {shared} ELSE {c \in idle : Usable(c)} \union {None}

Take(r, c) == requests' = [requests EXCEPT ![r].pc = "Queued", ![r].conn = c, ![r].reused = TRUE,
                                           ![r].serial = IF Share(c) THEN c ELSE None]

\* idle.retain drops the closed ones when no shared connection answers.
Retained(c) == IF shared # None /\ Usable(shared) THEN idle ELSE {k \in idle : Usable(k)} \ {c}

Ask(r) ==
    /\ requests[r].pc = "Unasked"
    /\ \E idempotent \in BOOLEAN :
          requests' = [requests EXCEPT ![r].pc = "Take", ![r].idempotent = idempotent, ![r].left = Deadline]
    /\ UNCHANGED <<via, conns, shared, idle, dialing, exclusive, proof>>

TakeFirst(r) ==
    /\ requests[r].pc = "Take"
    /\ \/ \E c \in Reusable \ {None} : requests[r].reuse /\ Take(r, c) /\ idle' = Retained(c)
       \/ /\ ~requests[r].reuse \/ None \in Reusable
          /\ idle' = IF requests[r].reuse THEN Retained(None) ELSE idle
          /\ requests' = [requests EXCEPT ![r].pc = IF Multiplexed /\ ~exclusive THEN "Lock" ELSE "DialOwn"]
    /\ UNCHANGED <<via, conns, shared, dialing, exclusive, proof>>

Lock(r) ==
    /\ requests[r].pc = "Lock" /\ dialing = None
    /\ \/ \E c \in Reusable \ {None} :
             requests[r].reuse /\ Take(r, c) /\ idle' = Retained(c) /\ UNCHANGED dialing
       \/ /\ ~requests[r].reuse \/ None \in Reusable
          /\ idle' = IF requests[r].reuse THEN Retained(None) ELSE idle
          /\ dialing' = r /\ requests' = [requests EXCEPT ![r].pc = "Dial"]
    /\ UNCHANGED <<via, conns, shared, exclusive, proof>>

\* The dial's connection, kept as the shared one under a new serial if it may be.
Dial(r) ==
    /\ requests[r].pc \in {"Dial", "DialOwn"}
    /\ \E c \in Free, form \in Dialed :
          LET kept == form = "Many" /\ requests[r].pc = "Dial"
          IN /\ conns' = [conns EXCEPT ![c] = [form |-> form, state |-> "Open"]]
             /\ shared' = IF kept THEN c ELSE shared
             /\ exclusive' = (exclusive \/ (form = "One" /\ requests[r].pc = "Dial"))
             /\ requests' = [requests EXCEPT ![r].pc = "Queued", ![r].conn = c, ![r].reused = FALSE,
                                             ![r].serial = IF kept THEN c ELSE None]
    /\ dialing' = IF dialing = r THEN None ELSE dialing
    /\ UNCHANGED <<via, idle, proof>>

(***************************************************************************)
(* attempt's end.  An unanswered request on a shared TCP connection has    *)
(* another dialed and proven; one failure of the connection itself may     *)
(* send the request again, once, on a connection dialed for it.            *)
(***************************************************************************)
Guarded(r) == requests[r].serial # None /\ via # "Http3" /\ requests[r].pc \in {"Queued", "Sent"}

Unanswered(r) ==
    IF Guarded(r) /\ proof = NoProof THEN [NoProof EXCEPT !.pc = "Spawned", !.serial = requests[r].serial] ELSE proof

\* As Retire, without the serial's check.
RetireAny(serial) == IF serial # None THEN None ELSE shared

Retire(serial) == IF serial # None /\ shared = serial THEN None ELSE shared

Ends(r, pc) == requests' = [requests EXCEPT ![r].pc = pc, ![r].conn = None, ![r].serial = None]

Again(r, unsent) == requests[r].reuse /\ requests[r].reused /\ (unsent \/ requests[r].idempotent)

Broken(r, unsent) ==
    /\ shared' = Retire(requests[r].serial)
    /\ IF Again(r, unsent)
       THEN requests' = [requests EXCEPT ![r].pc = "Take", ![r].reuse = FALSE, ![r].conn = None, ![r].serial = None]
       ELSE Ends(r, "Failed")

\* Cut off by its deadline or dropped by its caller, wherever it waits; a task
\* of the request's runtime replaces what did not answer.
Cut(r) ==
    /\ requests[r].pc \in {"Take", "Lock", "Dial", "DialOwn", "Queued", "Sent"}
    /\ Ends(r, "Failed") /\ proof' = Unanswered(r)
    /\ dialing' = IF dialing = r THEN None ELSE dialing
    /\ UNCHANGED <<via, conns, shared, idle, exclusive>>

DialFails(r) ==
    /\ requests[r].pc \in {"Dial", "DialOwn"}
    /\ Ends(r, "Failed") /\ dialing' = IF dialing = r THEN None ELSE dialing
    /\ UNCHANGED <<via, conns, shared, idle, exclusive, proof>>

\* The request leaves on an open connection; the server may act on it.
Leave(r) ==
    /\ requests[r].pc = "Queued" /\ conns[requests[r].conn].state = "Open"
    /\ requests' = [requests EXCEPT ![r].pc = "Sent", ![r].delivered = @ + 1]
    /\ UNCHANGED <<via, conns, shared, idle, dialing, exclusive, proof>>

\* ready failed, or the message came back; HTTP/3 says so after a GOAWAY only.
Unsent(r) ==
    /\ requests[r].pc = "Queued" /\ conns[requests[r].conn].state # "Open"
    /\ Broken(r, via # "Http3" \/ conns[requests[r].conn].state = "GoingAway")
    /\ UNCHANGED <<via, conns, idle, dialing, exclusive, proof>>

Lost(r) ==
    /\ requests[r].pc = "Sent" /\ conns[requests[r].conn].state = "Closed"
    /\ Broken(r, FALSE)
    /\ UNCHANGED <<via, conns, idle, dialing, exclusive, proof>>

\* A stream reset alone, or an answer that is no answer, breaks no connection.
Reset(r) ==
    /\ requests[r].pc = "Sent" /\ Ends(r, "Failed")
    /\ UNCHANGED <<via, conns, shared, idle, dialing, exclusive, proof>>

Answer(r) ==
    /\ requests[r].pc = "Sent" /\ conns[requests[r].conn].state # "Closed"
    /\ requests' = [requests EXCEPT ![r].pc = "Reading", ![r].serial = None]
    /\ UNCHANGED <<via, conns, shared, idle, dialing, exclusive, proof>>

\* keep: the body's end returns an HTTP/1.1 connection; a dropped body closes it.
BodyEnds(r, read) ==
    /\ requests[r].pc = "Reading" /\ Ends(r, "Done")
    /\ LET c == requests[r].conn IN
       /\ idle' = IF read /\ ~Share(c) /\ Cardinality(idle) < Idle THEN idle \union {c} ELSE idle
       /\ conns' = IF Share(c) \/ c \in idle' THEN conns ELSE [conns EXCEPT ![c].state = "Closed"]
    /\ UNCHANGED <<via, shared, dialing, exclusive, proof>>

(***************************************************************************)
(* The proof: while the unanswered connection is the shared one, another   *)
(* is dialed and answers a probe before it takes its place.                *)
(***************************************************************************)
Current == shared = proof.serial

ProofBegins ==
    /\ proof.pc = "Spawned"
    /\ proof' = IF Current THEN [proof EXCEPT !.pc = "Probing", !.left = Deadline] ELSE NoProof
    /\ UNCHANGED <<via, conns, shared, idle, dialing, exclusive, requests>>

ProofAnswered ==
    /\ proof.pc = "Probing"
    /\ \/ proof' = NoProof /\ UNCHANGED conns
       \/ \E c \in Free, form \in Dialed :
             /\ conns' = [conns EXCEPT ![c] = [form |-> form, state |-> "Open"]]
             /\ proof' = IF form = "Many" THEN [proof EXCEPT !.pc = "Lock", !.conn = c] ELSE NoProof
    /\ UNCHANGED <<via, shared, idle, dialing, exclusive, requests>>

ProofTakes ==
    /\ proof.pc = "Lock" /\ dialing = None
    /\ shared' = IF Current THEN proof.conn ELSE shared
    /\ proof' = NoProof
    /\ UNCHANGED <<via, conns, idle, dialing, exclusive, requests>>

(***************************************************************************)
(* Time.                                                                   *)
(***************************************************************************)
Waiting(r) == requests[r].pc \in {"Take", "Lock", "Dial", "DialOwn", "Queued", "Sent"}
Due(r) == Waiting(r) /\ requests[r].left = 0

Tick ==
    /\ \E r \in Requests : Waiting(r)
    /\ \A r \in Requests : ~Due(r)
    /\ proof.pc = "Probing" => proof.left > 0
    /\ requests' = [r \in Requests |->
          IF Waiting(r) THEN [requests[r] EXCEPT !.left = @ - 1, !.age = @ + 1] ELSE requests[r]]
    /\ proof' = IF proof.pc = "Probing" THEN [proof EXCEPT !.left = @ - 1] ELSE proof
    /\ UNCHANGED <<via, conns, shared, idle, dialing, exclusive>>

Next ==
    \/ \E c \in Conns, state \in {"GoingAway", "Closed"} : Close(c, state)
    \/ \E r \in Requests :
          \/ Ask(r) \/ TakeFirst(r) \/ Lock(r) \/ Dial(r) \/ DialFails(r) \/ Cut(r)
          \/ Leave(r) \/ Unsent(r) \/ Lost(r) \/ Reset(r) \/ Answer(r)
          \/ \E read \in BOOLEAN : BodyEnds(r, read)
    \/ ProofBegins \/ ProofAnswered \/ ProofTakes
    \/ Tick

Spec == Init /\ [][Next]_vars

-----------------------------------------------------------------------------
\* A request that is not idempotent leaves the client once at most, and any
\* other twice: attempt's fault sends again only what never left, or may.
DeliveredOnce == \A r \in Requests : requests[r].delivered <= (IF requests[r].idempotent THEN 2 ELSE 1)

\* An HTTP/1.1 connection carries one request: it rejoins the slot at its
\* answer's end, never while the body is read (keep, Incoming::then).
CarriesOne ==
    \A c \in Conns : conns[c].form = "One" =>
        Cardinality({r \in Requests : requests[r].conn = c}) + (IF c \in idle THEN 1 ELSE 0) <= 1

\* A request has its answer's head or its fault by its deadline, waits for
\* another's dial and its own second attempt included (send, attempt).
AnswersInTime == \A r \in Requests : requests[r].age <= Deadline

\* A usable shared connection gives way only to a proven one, after a request
\* on that very connection went unanswered, or to the dial of a second attempt:
\* a failure of an older connection retires nothing newer (retire's serial).
NewerStands ==
    shared' # shared /\ shared # None /\ conns[shared].state = "Open" =>
        \/ proof.pc = "Lock" /\ proof.serial = shared /\ shared' = proof.conn
        \/ dialing \in Requests /\ ~requests[dialing].reuse /\ shared' # None
==============================================================================
