--------------------------- MODULE Http1Connection ---------------------------
(***************************************************************************)
(* One HTTP/1.1 connection of the server (rust/server/src/transport/       *)
(* http1.rs): hyper serves one request after another over Io, whose state  *)
(* bounds every read and write, and a WebSocket takes the connection over  *)
(* at the end (transport/websocket.rs).  A step is a poll of the           *)
(* connection's task, whose last read or flush adopts the state the        *)
(* handler posted.                                                         *)
(***************************************************************************)
EXTENDS Lane

CONSTANT CloseBound \* CLOSE_BOUND of the WebSocket close handshake

VARIABLES
    io,         \* Io::state: "Waiting", "Exchange", "Reply", "Open"
    deadline,   \* Io::deadline: the time it has left
    started,    \* Shared::started: the deadline a request's first byte set
    request,    \* hyper's place: "None", "Head", "Handling", "Receiving", "Sending", "Flush";
                \* "Upgrading", "Bus", "Refused", "Closing" once upgraded; "Closed"
    lane,       \* the admitted request's lane
    until,      \* the deadline of a reply without a lane, or of a socket's last message
    pipelined,  \* whether the next request is already in hyper's buffer
    shutdown,   \* time since the server's shutdown, Off before it
    stopping,   \* graceful_shutdown was called: the connection ends after this request
    asked,      \* time since the request's first byte, Off once admitted or answered
    rested,     \* time since the last reply left, Off while a request is in hand
    held        \* time since the lane's admission, Off without one

vars == <<io, deadline, started, request, lane, until, pipelined, shutdown, stopping, asked, rested, held>>

Init ==
    /\ io = "Exchange" /\ deadline = ExchangeBound /\ started = ExchangeBound
    /\ request = "Head" /\ lane = NoLane /\ until = Off /\ pipelined = FALSE
    /\ shutdown = Off /\ stopping = FALSE /\ asked = 0 /\ rested = Off /\ held = Off

Open == request # "Closed"

Closed ==
    /\ request' = "Closed" /\ lane' = NoLane /\ io' = "Open"
    /\ deadline' = Off /\ started' = Off /\ until' = Off /\ pipelined' = FALSE
    /\ asked' = Off /\ rested' = Off /\ held' = Off
    /\ UNCHANGED <<shutdown, stopping>>

\* The peer leaves or breaks the protocol, or the handler aborts.
Fail == Open /\ Closed

(***************************************************************************)
(* Reading a request.  Only the first byte after a delivered reply starts  *)
(* an exchange; one already buffered starts when its head is parsed.       *)
(***************************************************************************)
FirstByte ==
    /\ request = "None" /\ io = "Waiting" /\ deadline # 0 /\ ~pipelined
    /\ request' = "Head" /\ io' = "Exchange"
    /\ deadline' = ExchangeBound /\ started' = ExchangeBound
    /\ asked' = 0 /\ rested' = Off
    /\ UNCHANGED <<lane, until, pipelined, shutdown, stopping, held>>

ExchangeUndated ==
    /\ request = "Head" \/ pipelined
    /\ deadline' = started /\ asked' = IF request = "Head" THEN asked ELSE 0
    /\ started' = Off /\ io' = "Exchange" /\ request' = "Handling"
    /\ pipelined' = FALSE /\ rested' = Off
    /\ lane' = NoLane /\ until' = Off /\ held' = Off
    /\ UNCHANGED <<shutdown, stopping>>

Exchange ==
    /\ request = "Head" \/ pipelined
    /\ LET left == IF started = Off THEN ExchangeBound ELSE started
       IN /\ deadline' = left
          /\ asked' = IF request = "Head" THEN asked ELSE 0
    /\ started' = Off /\ io' = "Exchange" /\ request' = "Handling"
    /\ pipelined' = FALSE /\ rested' = Off
    /\ lane' = NoLane /\ until' = Off /\ held' = Off
    /\ UNCHANGED <<shutdown, stopping>>

\* hyper parses a head once the one before is answered, even while its
\* reply is still being flushed, but none once the connection is stopping.
Head ==
    /\ request \in {"Head", "None", "Flush"} /\ ~(stopping /\ request # "Head")
    /\ request = "Head" => deadline # 0
    /\ Exchange

\* Bytes of the next request arrive behind the one in hand.
Pipeline ==
    /\ request \in {"Handling", "Receiving", "Sending", "Flush"} /\ ~pipelined
    /\ pipelined' = TRUE
    /\ UNCHANGED <<io, deadline, started, request, lane, until, shutdown, stopping, asked, rested, held>>

(***************************************************************************)
(* Handling it.                                                            *)
(***************************************************************************)
Replies(l, left, next) ==
    /\ io' = "Reply" /\ lane' = l /\ until' = left /\ request' = next /\ asked' = Off
    /\ held' = IF l.on THEN 0 ELSE Off
    /\ UNCHANGED <<deadline, started, pipelined, shutdown, stopping, rested>>

\* An answer without a lane; one without a body is complete at once.
Answer ==
    /\ request = "Handling" /\ io = "Exchange"
    /\ \E next \in {"Sending", "Flush"} : Replies(NoLane, deadline, next)

AdmitReply == request = "Handling" /\ Replies(Start, Off, "Sending")

\* check: a request admitted while its body is read is bound by its lane.
AdmitUpload ==
    /\ request = "Handling"
    /\ io' = "Open" /\ lane' = Start /\ request' = "Receiving" /\ asked' = Off /\ held' = 0
    /\ UNCHANGED <<deadline, started, until, pipelined, shutdown, stopping, rested>>

Record ==
    /\ request = "Receiving" /\ ~LaneDue(lane, shutdown)
    /\ lane' = Moved(lane)
    /\ UNCHANGED <<io, deadline, started, request, until, pipelined, shutdown, stopping, asked, rested, held>>

\* The body ends, which wins over an ending not yet decided, or the lane ends
\* with a refusal to tell.
EndUpload ==
    /\ request = "Receiving"
    /\ Replies(NoLane, ExchangeBound, "Sending")

(***************************************************************************)
(* Sending the reply: the last data completes it, the flush after it       *)
(* delivers it, and the connection waits for the next request.             *)
(***************************************************************************)
Send ==
    /\ request = "Sending" /\ ~ReplyDue(lane, until, shutdown)
    /\ lane' = Moved(lane)
    /\ request' \in {"Sending", "Flush"}
    /\ UNCHANGED <<io, deadline, started, until, pipelined, shutdown, stopping, asked, rested, held>>

Delivered ==
    /\ request = "Flush" /\ (lane.on \/ until # 0)
    /\ IF stopping THEN Closed
       ELSE /\ request' = "None" /\ io' = "Waiting" /\ deadline' = ConnectionIdle
            /\ lane' = NoLane /\ until' = Off /\ rested' = 0 /\ held' = Off
            /\ UNCHANGED <<started, pipelined, shutdown, stopping, asked>>

(***************************************************************************)
(* A WebSocket: the bus runs under its lane, a refused feed sends its one  *)
(* record, and both close within a bound of their own.                     *)
(***************************************************************************)
Upgrade(refused) ==
    /\ request = "Handling"
    /\ io' = "Open" /\ asked' = Off /\ pipelined' = FALSE
    /\ request' = IF refused THEN "Refused" ELSE "Bus"
    /\ lane' = IF refused THEN NoLane ELSE Start
    /\ until' = IF refused THEN CloseBound ELSE Off
    /\ held' = IF refused THEN Off ELSE 0
    /\ UNCHANGED <<deadline, started, shutdown, stopping, rested>>

BusMoves ==
    /\ request = "Bus" /\ ~LaneEnded(lane, shutdown)
    /\ lane' = Moved(lane)
    /\ UNCHANGED <<io, deadline, started, request, until, pipelined, shutdown, stopping, asked, rested, held>>

\* The lane ends, the peer closes or errs, or the refusal was sent.
BusCloses ==
    /\ request \in {"Bus", "Refused"} /\ (request = "Refused" => until # 0)
    /\ request' = "Closing" /\ until' = CloseBound /\ lane' = NoLane /\ held' = Off
    /\ UNCHANGED <<io, deadline, started, pipelined, shutdown, stopping, asked, rested>>

(***************************************************************************)
(* Time, revocation and shutdown.                                          *)
(***************************************************************************)
\* The bounds each io state checks, and those of the handler and the bus.
Due ==
    \/ io \in {"Waiting", "Exchange"} /\ deadline = 0
    \/ request \in {"Sending", "Flush"} /\ io = "Reply" /\ ReplyEnded(lane, until, shutdown)
    \/ request \in {"Receiving", "Bus"} /\ LaneEnded(lane, shutdown)
    \/ request \in {"Refused", "Closing"} /\ until = 0

\* A bound passed with nothing to tell: the connection ends.
Expire == Due /\ request # "Bus" /\ Closed

\* graceful_shutdown: hyper ends an idle connection at once.
GracefulShutdown ==
    /\ shutdown # Off /\ ~stopping /\ Open
    /\ \/ /\ request = "None" /\ Closed
       \/ /\ request # "None" /\ stopping' = TRUE
          /\ UNCHANGED <<io, deadline, started, request, lane, until, pipelined, shutdown, asked, rested, held>>

Shutdown ==
    /\ shutdown = Off /\ Open /\ shutdown' = 0
    /\ UNCHANGED <<io, deadline, started, request, lane, until, pipelined, stopping, asked, rested, held>>

Revoke ==
    /\ lane.on /\ ~lane.revoked /\ lane' = [lane EXCEPT !.revoked = TRUE]
    /\ UNCHANGED <<io, deadline, started, request, until, pipelined, shutdown, stopping, asked, rested, held>>

\* The listener's drain aborts what is left after the grace.
Abort == shutdown = Grace /\ Open /\ Closed

Tick ==
    /\ Open /\ ~Due /\ shutdown # Grace /\ (shutdown # Off => stopping)
    /\ ~(pipelined /\ request = "None")
    /\ deadline' = Sooner(deadline) /\ started' = Sooner(started) /\ until' = Sooner(until)
    /\ lane' = Elapsed(lane) /\ shutdown' = Older(shutdown, Grace)
    /\ asked' = Older(asked, ExchangeBound + 1) /\ rested' = Older(rested, ConnectionIdle + 1)
    /\ held' = Older(held, Lifetime + 1)
    /\ UNCHANGED <<io, request, pipelined, stopping>>

Next ==
    \/ Fail \/ FirstByte \/ Head \/ Pipeline
    \/ Answer \/ AdmitReply \/ AdmitUpload \/ Record \/ EndUpload \/ Send \/ Delivered
    \/ \E refused \in BOOLEAN : Upgrade(refused)
    \/ BusMoves \/ BusCloses \/ Expire \/ GracefulShutdown \/ Shutdown \/ Revoke \/ Abort \/ Tick

Spec == Init /\ [][Next]_vars

\* A request has ExchangeBound from its first byte to be admitted or answered,
\* however slowly it is sent, a kept-alive connection waits ConnectionIdle for
\* the next one, and an admission is held for the lane's lifetime at most,
\* whether an upload, a reply or a WebSocket holds it.
PeerBounded ==
    /\ asked <= ExchangeBound
    /\ rested <= ConnectionIdle
    /\ held <= Lifetime
==============================================================================
