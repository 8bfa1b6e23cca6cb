------------------------- MODULE WebTransportRoute -------------------------
(***************************************************************************)
(* A WebTransport session of the server from its acceptance to its close   *)
(* (transport/webtransport.rs and webtransport/upload.rs) over its lane:   *)
(* the latency bus, a download on streams or datagrams, or an upload with  *)
(* its progress feed.  Each poll of `serve` looks at the lane's ending     *)
(* first, then at the peer's close, then at the route.  The session itself *)
(* is Http3Session's; an upload's aggregate is UploadAggregate's, seen     *)
(* here as a sink per stream and the moment it is finalized.               *)
(***************************************************************************)
EXTENDS Lane, FiniteSets

CONSTANTS
    Streams, MaxLaneStreams,
    VerifyLinger, RefusalLinger

VARIABLES
    plan,       \* "Ping", "Verify", "Flood", "Download", "Upload" or "Refused"
    at,         \* "Accepting", "Routed", "Returned" (the route ended), "Closing" or "Over"
    lane,
    shutdown,   \* time since the server's shutdown, Off before
    ending,     \* the lane's first ending
    code,       \* the one the session was closed with
    peer,       \* "Open" or "Closed"
    streams,    \* per stream of the session [at, idle]
    sink,       \* the datagram lane's sink is joined
    upload,     \* [finalized, funded, feed, refusal]
    linger,
    barren      \* history: time since the session last carried what its route is for

vars == <<plan, at, lane, shutdown, ending, code, peer, streams, sink, upload, linger, barren>>

NoStream == [at |-> "None", idle |-> Off]
Plans == {"Ping", "Verify", "Flood", "Download", "Upload", "Refused"}

Init ==
    /\ plan \in Plans /\ at = "Accepting" /\ lane = Start /\ shutdown = Off
    /\ ending = "None" /\ code = "None" /\ peer = "Open"
    /\ streams = [s \in Streams |-> NoStream] /\ sink = FALSE
    /\ upload = [finalized |-> FALSE, funded |-> FALSE, feed |-> FALSE, refusal |-> FALSE]
    /\ linger = Off /\ barren = 0

\* decide: the first cause stands.
Decide(cause) == IF ending = "None" THEN cause ELSE ending

\* The cause `due` and `ended` find, in their order.
Cause ==
    IF lane.revoked THEN "Revoked" ELSE IF shutdown # Off THEN "Shutdown"
    ELSE IF lane.left = 0 THEN "Lifetime" ELSE "Idle"

\* The route is dropped with its streams, sinks and feed before the close.
CloseWith(cause) ==
    /\ at' = "Closing" /\ ending' = Decide(cause) /\ code' = Decide(cause)
    /\ streams' = [s \in Streams |-> NoStream] /\ sink' = FALSE /\ linger' = Off
    /\ upload' = [upload EXCEPT !.feed = FALSE, !.refusal = FALSE]
    /\ UNCHANGED <<plan, lane, shutdown, peer, barren>>

(***************************************************************************)
(* serve.                                                                  *)
(***************************************************************************)
\* route starts; upload.serve subscribes, and joins for datagrams when asked
\* and the join succeeds.
AcceptSession(datagrams) ==
    /\ at = "Accepting" /\ at' = "Routed"
    /\ sink' = (plan = "Upload" /\ datagrams)
    /\ upload' = [upload EXCEPT !.feed = plan = "Upload"]
    /\ linger' = CASE plan = "Verify" -> VerifyLinger [] plan = "Refused" -> RefusalLinger [] OTHER -> Off
    /\ streams' = IF plan = "Download" THEN [s \in Streams |-> [NoStream EXCEPT !.at = "Opening"]] ELSE streams
    /\ UNCHANGED <<plan, lane, shutdown, ending, code, peer, barren>>

AcceptFails ==
    /\ at = "Accepting" /\ at' = "Over"
    /\ UNCHANGED <<plan, lane, shutdown, ending, code, peer, streams, sink, upload, linger, barren>>

Open == at \in {"Routed", "Returned"}
Ended == ending # "None" \/ LaneEnded(lane, shutdown)

\* Another branch is ready too: the select is biased, the lane's ending comes first.
LaneEnds == Open /\ Ended /\ CloseWith(Cause)
PeerClosed == Open /\ ~Ended /\ peer = "Closed" /\ CloseWith("Finished")
RouteReturns == at = "Returned" /\ ~Ended /\ CloseWith("Finished")

Close ==
    /\ at = "Closing" /\ at' = "Over"
    /\ UNCHANGED <<plan, lane, shutdown, ending, code, peer, streams, sink, upload, linger, barren>>

(***************************************************************************)
(* The routes.  A step of one runs within the poll that found neither the  *)
(* lane's ending nor the peer's close, which may come during it.           *)
(***************************************************************************)
Routed(plans) == at = "Routed" /\ plan \in plans

Return ==
    /\ at' = "Returned"
    /\ UNCHANGED <<plan, lane, shutdown, ending, code, peer, streams, sink, upload, linger, barren>>

\* A datagram of the peer's: the bus and a flood count it as movement, an
\* upload only while its datagram lane is joined.
Carries == plan \in {"Ping", "Flood"} \/ sink

Datagram ==
    /\ at = "Routed" /\ peer = "Open"
    /\ lane' = IF Carries THEN Moved(lane) ELSE lane
    /\ barren' = IF Carries THEN 0 ELSE barren
    /\ UNCHANGED <<plan, at, shutdown, ending, code, peer, streams, sink, upload, linger>>

\* The session ended below: read_datagram or accept_uni yields nothing more.
SessionGone == at = "Routed" /\ peer = "Closed" /\ Return

\* The flood's datagram is refused, the verification has lingered, or so has
\* the record that told the refusal.
FloodRefused == Routed({"Flood"}) /\ Return
Lingered == Routed({"Verify", "Refused"}) /\ linger = 0 /\ Return

\* download_stream, up to the next wait.
DownloadStream(s, to, moves) ==
    /\ streams' = [streams EXCEPT ![s].at = to]
    /\ lane' = IF moves THEN Moved(lane) ELSE lane
    /\ barren' = IF moves THEN 0 ELSE barren
    /\ UNCHANGED <<plan, at, shutdown, code, peer, sink, upload, linger>>

OpenStream(s) ==
    /\ Routed({"Download"}) /\ streams[s].at = "Opening"
    /\ \E to \in {"Fresh", "None"} : DownloadStream(s, to, FALSE)
    /\ UNCHANGED ending

\* A chunk the peer took; an ending due now is decided here.
WriteStream(s) ==
    /\ Routed({"Download"}) /\ streams[s].at \in {"Fresh", "Moved"}
    /\ IF LaneDue(lane, shutdown)
       THEN DownloadStream(s, "None", TRUE) /\ ending' = Decide(Cause)
       ELSE DownloadStream(s, "Moved", TRUE) /\ UNCHANGED ending

\* The peer stops a stream, or it carried the source to its end: it is
\* replaced if the peer took anything from it.
StreamOver(s) ==
    /\ Routed({"Download"}) /\ streams[s].at \in {"Fresh", "Moved"}
    /\ DownloadStream(s, IF streams[s].at = "Moved" THEN "Opening" ELSE "None", FALSE)
    /\ UNCHANGED ending

StreamsOver == Routed({"Download"}) /\ streams = [s \in Streams |-> NoStream] /\ Return

(***************************************************************************)
(* upload.serve's loop.                                                    *)
(***************************************************************************)
Reading == {s \in Streams : streams[s].at = "Reading"}

\* accept_uni: past the limit the stream is stopped; one whose join is
\* refused tells it on a stream of the server's, unless one is being told.
\* A finalized upload takes no further sink.
AcceptUni(s, joins) ==
    /\ Routed({"Upload"}) /\ peer = "Open" /\ streams[s] = NoStream
    /\ Cardinality(Reading) < MaxLaneStreams /\ (joins => ~upload.finalized)
    /\ IF joins
       THEN streams' = [streams EXCEPT ![s] = [at |-> "Reading", idle |-> IdleBound]] /\ UNCHANGED upload
       ELSE upload' = [upload EXCEPT !.refusal = TRUE] /\ UNCHANGED streams
    /\ UNCHANGED <<plan, at, lane, shutdown, ending, code, peer, sink, linger, barren>>

Receive(s) ==
    /\ Routed({"Upload"}) /\ s \in Reading
    /\ streams' = [streams EXCEPT ![s].idle = IdleBound] /\ lane' = Moved(lane) /\ barren' = 0
    /\ UNCHANGED <<plan, at, shutdown, ending, code, peer, sink, upload, linger>>

\* Its FIN, its reset, or IDLE_BOUND without bytes.
ReceiveEnds(s) ==
    /\ Routed({"Upload"}) /\ s \in Reading /\ streams' = [streams EXCEPT ![s] = NoStream]
    /\ UNCHANGED <<plan, at, lane, shutdown, ending, code, peer, sink, upload, linger, barren>>

\* The aggregate is finalized, by this session's client or by its bound.
Finalize ==
    /\ Routed({"Upload"}) /\ ~upload.finalized /\ upload' = [upload EXCEPT !.finalized = TRUE]
    /\ UNCHANGED <<plan, at, lane, shutdown, ending, code, peer, streams, sink, linger, barren>>

SinkLeaves ==
    /\ Routed({"Upload"}) /\ sink /\ upload.finalized /\ sink' = FALSE
    /\ UNCHANGED <<plan, at, lane, shutdown, ending, code, peer, streams, upload, linger, barren>>

\* The background futures and the refusal's record end, each once.
BackgroundEnds(what) ==
    /\ Routed({"Upload"}) /\ upload[what] # (what = "funded")
    /\ (what = "feed" => upload.finalized \/ peer = "Closed")
    /\ upload' = [upload EXCEPT ![what] = what = "funded"]
    /\ UNCHANGED <<plan, at, lane, shutdown, ending, code, peer, streams, sink, linger, barren>>

(***************************************************************************)
(* The environment and time.                                               *)
(***************************************************************************)
PeerCloses ==
    /\ peer = "Open" /\ at # "Over" /\ peer' = "Closed"
    /\ UNCHANGED <<plan, at, lane, shutdown, ending, code, streams, sink, upload, linger, barren>>

Shutdown ==
    /\ shutdown = Off /\ at # "Over" /\ shutdown' = 0
    /\ UNCHANGED <<plan, at, lane, ending, code, peer, streams, sink, upload, linger, barren>>

Revoke ==
    /\ ~lane.revoked /\ at # "Over" /\ lane' = [lane EXCEPT !.revoked = TRUE]
    /\ UNCHANGED <<plan, at, shutdown, ending, code, peer, streams, sink, upload, linger, barren>>

\* What wakes the session's task.
Woken ==
    \/ Ended \/ peer = "Closed" \/ at = "Returned" \/ linger = 0 \/ (sink /\ upload.finalized)
    \/ \E s \in Streams : streams[s].idle = 0

Tick ==
    /\ Open /\ ~Woken
    /\ lane' = Elapsed(lane) /\ linger' = Sooner(linger) /\ barren' = barren + 1
    /\ streams' = [s \in Streams |-> [streams[s] EXCEPT !.idle = Sooner(@)]]
    /\ UNCHANGED <<plan, at, shutdown, ending, code, peer, sink, upload>>

Next ==
    \/ \E datagrams \in BOOLEAN : AcceptSession(datagrams)
    \/ AcceptFails \/ LaneEnds \/ PeerClosed \/ RouteReturns \/ Close
    \/ Datagram \/ SessionGone \/ FloodRefused \/ Lingered
    \/ \E s \in Streams : OpenStream(s) \/ WriteStream(s) \/ StreamOver(s)
    \/ StreamsOver
    \/ \E s \in Streams : Receive(s) \/ ReceiveEnds(s) \/ \E joins \in BOOLEAN : AcceptUni(s, joins)
    \/ Finalize \/ SinkLeaves \/ \E what \in {"feed", "funded", "refusal"} : BackgroundEnds(what)
    \/ PeerCloses \/ Shutdown \/ Revoke \/ Tick

Spec == Init /\ [][Next]_vars

(***************************************************************************)
(* Properties.                                                             *)
(***************************************************************************)
\* Lane::decide: whichever of the session's streams, its select or the lane's
\* own timers finds an ending first, that one stands, and the peer is told it.
EndingTold ==
    /\ ending # "None" => ending' = ending
    /\ code' # "None" => code' = ending'

\* A session that carries none of what its route is for ends by the idle
\* bound, whatever else its peer sends; while it runs its sinks are within the
\* lane's streams, and after it none is left.
SessionCarries ==
    /\ Open => barren <= IdleBound
    /\ Cardinality(Reading) <= MaxLaneStreams
    /\ ~Open => Reading = {} /\ ~sink
==============================================================================
